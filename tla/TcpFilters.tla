----------------------------- MODULE TcpFilters -----------------------------
(***************************************************************************)
(* The TCP listener filters (src/tcp.rs) on Envoy's worker threads.        *)
(*                                                                         *)
(*     tcp  -> [ppv2_auth]          tls -> [ppv2, tls_inspector, auth]     *)
(*                                                                         *)
(* and [tls_inspector, auth], which nothing rejects.  A worker runs one    *)
(* callback at a time; the table is published from another thread between  *)
(* any two reads of it.  Config::permits is its promise, Enforcement,      *)
(* which Permits is proved to implement.  Envoy itself -- accepting,       *)
(* peeking, calling on_data again, tls_inspector, closing -- is modelled   *)
(* from how tcp.rs uses it.                                                *)
(***************************************************************************)
EXTENDS Enforcement, Ppv2, FiniteSets

CONSTANTS
    Conns,              \* connections
    NoConn,             \* not accepted yet
    Chain,              \* Chain[c]: the filter chain Config c is bound into
    Streams,            \* what clients send
    Cuts,               \* the byte counts a read can end at
    Names, NoName,      \* server names; NoName is the empty SNI
    Identities,         \* IPv6 addresses: synthesized ones and real ones
    NoIdentity,         \* a remote address that is not IPv6
    Peers,              \* addresses sockets come with; NoIdentity is any IPv4 one
    Synthesize(_, _),   \* Synthesize(t, h): identity::synthesize
    MaxPublish          \* bound: tables published in a behaviour

ASSUME ChainAssumption == Chain \in [Configs -> {"ppv2_auth", "tls", "auth"}]
ASSUME QueriesAssumption == Queries = (Names \union {NoName}) \X Identities
ASSUME StreamsAssumption == Streams \subseteq Stream
ASSUME CutsAssumption == Cuts \subseteq Nat \ {0}
ASSUME PeerAssumption ==
    Peers \subseteq Identities \union {NoIdentity} /\ NoIdentity \notin Identities
ASSUME SynthesizeAssumption ==
    \A t \in Tables, s \in Streams :
        LET p == Ppv2Parse(s, s.len) IN
        p.tag = "ok" => Synthesize(t, p.header) \in Identities

VARIABLES
    conn,       \* conn[k]: the socket, its filters and the callback running
    counters    \* counters[f]: what filter name f counted

filterVars == <<conn, counters>>
allVars == <<log, raw, call, conn, counters>>

Filters == {"ppv2_auth", "ppv2", "auth"}
Stats == {"allowed", "denied", "not_ppv2"}
Reasons == {"none", "no_identity_table", "not_proxy_protocol",
            "set_remote_address_failed", "denied_by_allowlist",
            "no_identity_label"}

\* at: the filter Envoy is at ("through": past the last).  pc: where its
\* callback is ("judge": between the two reads of the table).  born, labelGen
\* and window are history: the generation at accept, the one that labelled, and
\* the ones whose table could answer permits().
Conn == [worker : Workers, cfg : Configs, stream : Streams,
         got : Cuts \union {0}, peek : Nat, open : BOOLEAN,
         at : {"ppv2", "tls_inspector", "auth", "through"},
         pc : {"wait", "judge", "permits"},
         want : Nat, done : BOOLEAN, refused : BOOLEAN, settled : BOOLEAN,
         remote : Identities \union {NoIdentity}, sni : Names \union {NoName},
         drained : Nat, reason : Reasons,
         born : Nat, labelGen : Nat, window : SUBSET Nat]

ASSUME MarkerAssumption ==
    NoConn \notin Conn /\ Idle \notin Call /\ Unparsed \notin Rules
ASSUME ConnsAssumption == IsFiniteSet(Conns)

TypeOK ==
    /\ conn \in [Conns -> Conn \union {NoConn}]
    /\ counters \in [Filters -> [Stats -> Nat]]
    /\ call \in [Workers -> Call \union {Idle}]
    /\ log \in Seq(Tables)
    /\ raw \in [Configs -> Rules \union {Unparsed}]

-----------------------------------------------------------------------------

Accepted == {k \in Conns : conn[k] # NoConn}

\* The worker is in no callback.
Free(w) == /\ call[w] = Idle
           /\ \A k \in Accepted : conn[k].worker = w => conn[k].pc = "wait"

\* Envoy is at filter f of an open connection and may call it.
Callable(k, f) == /\ k \in Accepted
                  /\ conn[k].open
                  /\ conn[k].at = f
                  /\ Free(conn[k].worker)

\* The filter_name of the filter the connection is at.
FilterName(x) == IF x.at = "ppv2" /\ Chain[x.cfg] = "ppv2_auth"
                 THEN "ppv2_auth" ELSE x.at

\* bump: counter names start with the filter_name.
Bump(f, stat) == counters' = [counters EXCEPT ![f][stat] = @ + 1]

\* What Envoy lets the filter peek at, and what parse makes of it.
Buffered(x) == IF x.got < x.peek THEN x.got ELSE x.peek
Parsed(x) == Ppv2Parse(x.stream, Buffered(x))

\* Continue: Envoy moves on to the next filter of the chain.
Continued(x) == [x EXCEPT !.at = IF x.at = "ppv2" /\ Chain[x.cfg] = "tls"
                                 THEN "tls_inspector" ELSE "through"]

\* The address auth finds on the socket, whoever put it there; NoIdentity if it
\* is not IPv6.
LabelledIdentity(x) == x.remote

-----------------------------------------------------------------------------
(* Variants with one mistake each, to show that the properties notice it.  *)

\* One terminal flag for both outcomes.
RefusedAsDone(x, why) == [x EXCEPT !.done = TRUE, !.reason = why]

\* No terminal flag at all: the refusal is only announced.
RefusedUnflagged(x, why) == [x EXCEPT !.reason = why]

\* The whole peek buffer drained, payload included.
LabelledDrainsAll(x, h, g) ==
    [x EXCEPT !.remote = Synthesize(TableAt(log, g), h), !.labelGen = g,
              !.drained = Buffered(x)]

\* The length taken for the remainder instead of the total.
LabelledDrainsRest(x, h, g) ==
    [x EXCEPT !.remote = Synthesize(TableAt(log, g), h), !.labelGen = g,
              !.drained = h.len - x.got]

\* Waiting for the carrier instead of refusing.
NoTableWaits(k) == Published = NoTable /\ UNCHANGED allVars

\* auth judging without the server name.
AuthAcceptUnscoped(k) ==
    /\ Callable(k, "auth")
    /\ ~conn[k].settled
    /\ conn[k].remote # NoIdentity
    /\ Begin(conn[k].worker, conn[k].cfg, <<NoName, conn[k].remote>>)
    /\ conn' = [conn EXCEPT ![k] = [@ EXCEPT !.settled = TRUE, !.pc = "permits"]]
    /\ UNCHANGED counters

-----------------------------------------------------------------------------
(* Ppv2Filter, for `ppv2` and `ppv2_auth`.                                 *)

\* Ppv2Filter::refuse.
Refused(x, why) == [x EXCEPT !.refused = TRUE, !.reason = why]

\* The socket relabelled from the table of generation g, the header stripped.
Labelled(x, h, g) ==
    [x EXCEPT !.remote = Synthesize(TableAt(log, g), h), !.labelGen = g,
              !.drained = h.len]

NoTableYet(k) ==
    /\ Published = NoTable
    /\ conn' = [conn EXCEPT ![k] = Refused(@, "no_identity_table")]
    /\ UNCHANGED <<log, raw, call, counters>>

\* Decision::Need: the peek buffer grows when the filter asks for more.
Incomplete(k) ==
    LET n == Parsed(conn[k]).want IN
    /\ Parsed(conn[k]).tag = "need"
    /\ conn' = [conn EXCEPT ![k].want = n,
                            ![k].peek = IF n > @ THEN n ELSE @]
    /\ UNCHANGED <<log, raw, call, counters>>

NotProxyProtocol(k) ==
    /\ Parsed(conn[k]).tag = "invalid"
    /\ Bump(FilterName(conn[k]), "not_ppv2")
    /\ conn' = [conn EXCEPT ![k] = Refused(@, "not_proxy_protocol")]
    /\ UNCHANGED <<log, raw, call>>

\* set_remote_address returned false.
RelabelFails(k) ==
    /\ Parsed(conn[k]).tag = "ok"
    /\ conn' = [conn EXCEPT ![k] = Refused(@, "set_remote_address_failed")]
    /\ UNCHANGED <<log, raw, call, counters>>

\* Decision::Label: label and drain; `ppv2` is done, `ppv2_auth` goes on to
\* judge, which reads the published table again.
Label(k) ==
    LET x == Labelled(conn[k], Parsed(conn[k]).header, Len(log)) IN
    /\ Parsed(conn[k]).tag = "ok"
    /\ IF FilterName(x) = "ppv2_auth"
       THEN /\ conn' = [conn EXCEPT ![k] = [x EXCEPT !.pc = "judge"]]
            /\ UNCHANGED counters
       ELSE /\ conn' = [conn EXCEPT ![k] = Continued([x EXCEPT !.done = TRUE])]
            /\ Bump("ppv2", "allowed")
    /\ UNCHANGED <<log, raw, call>>

\* on_data of ppv2 and ppv2_auth.  A refused connection may be called again
\* until Envoy has closed it.
OnData(k) ==
    /\ Callable(k, "ppv2")
    /\ conn[k].got > 0
    /\ IF conn[k].refused THEN UNCHANGED allVars
       ELSE IF conn[k].done
            THEN /\ conn' = [conn EXCEPT ![k] = Continued(@)]
                 /\ UNCHANGED <<log, raw, call, counters>>
       ELSE \/ NoTableYet(k)
            \/ /\ Published # NoTable
               /\ \/ Incomplete(k)
                  \/ NotProxyProtocol(k)
                  \/ RelabelFails(k)
                  \/ Label(k)

\* permits_unscoped begins: a second, later read of the published table.
CallPermits(k) ==
    /\ k \in Accepted
    /\ conn[k].pc = "judge"
    /\ Begin(conn[k].worker, conn[k].cfg, <<NoName, conn[k].remote>>)
    /\ conn' = [conn EXCEPT ![k].pc = "permits"]
    /\ UNCHANGED counters

-----------------------------------------------------------------------------
(* AuthFilter.                                                             *)

\* on_accept of auth, up to its call of permits.
AuthAccept(k) ==
    /\ Callable(k, "auth")
    /\ ~conn[k].settled
    /\ IF LabelledIdentity(conn[k]) = NoIdentity
       THEN /\ Bump("auth", "denied")
            /\ conn' = [conn EXCEPT ![k] =
                           [@ EXCEPT !.settled = TRUE,
                                     !.reason = "no_identity_label"]]
            /\ UNCHANGED <<log, raw, call>>
       ELSE /\ Begin(conn[k].worker, conn[k].cfg,
                     <<conn[k].sni, LabelledIdentity(conn[k])>>)
            /\ conn' = [conn EXCEPT ![k] =
                           [@ EXCEPT !.settled = TRUE, !.pc = "permits"]]
            /\ UNCHANGED counters

-----------------------------------------------------------------------------

\* permits() computes its answer.
PermitsAnswers(k) ==
    /\ k \in Accepted
    /\ conn[k].pc = "permits"
    /\ Answer(conn[k].worker)
    /\ conn' = [conn EXCEPT ![k].window = Window(call[conn[k].worker])]
    /\ UNCHANGED counters

\* permits() has answered: either filter admits or refuses.
Settle(k) ==
    LET x == [conn[k] EXCEPT !.pc = "wait"] IN
    /\ k \in Accepted
    /\ conn[k].pc = "permits"
    /\ Return(conn[k].worker)
    /\ IF call[x.worker].verdict = "allow"
       THEN /\ Bump(FilterName(x), "allowed")
            /\ conn' = [conn EXCEPT ![k] =
                           Continued([x EXCEPT !.done = x.done \/ x.at = "ppv2"])]
       ELSE /\ Bump(FilterName(x), "denied")
            /\ conn' = [conn EXCEPT ![k] =
                           IF x.at = "ppv2" THEN Refused(x, "denied_by_allowlist")
                           ELSE [x EXCEPT !.reason = "denied_by_allowlist"]]

-----------------------------------------------------------------------------
(* Envoy.                                                                  *)

\* A connection on a listener whose Config is c; its filters are created.
Accept(k, w, c, s, peer) ==
    /\ conn[k] = NoConn
    /\ Free(w)
    /\ raw[c] # Unparsed
    /\ conn' = [conn EXCEPT ![k] =
          [worker |-> w, cfg |-> c, stream |-> s, got |-> 0, open |-> TRUE,
           at |-> IF Chain[c] = "auth" THEN "tls_inspector" ELSE "ppv2", pc |-> "wait",
           want |-> MAX_HEADER, peek |-> MAX_HEADER,
           done |-> FALSE, refused |-> FALSE, settled |-> FALSE,
           remote |-> peer, sni |-> NoName, drained |-> 0, reason |-> "none",
           born |-> Len(log), labelGen |-> 0, window |-> {}]]
    /\ UNCHANGED <<log, raw, call, counters>>

\* Bytes reach the socket; Envoy reads them for the first filter only.
Deliver(k, n) ==
    /\ k \in Accepted
    /\ conn[k].open /\ conn[k].at = "ppv2" /\ conn[k].reason = "none"
    /\ conn[k].got < n
    /\ conn' = [conn EXCEPT ![k].got = n]
    /\ UNCHANGED <<log, raw, call, counters>>

\* tls_inspector reads the ClientHello behind the drained header.
TlsInspect(k, name) ==
    /\ Callable(k, "tls_inspector")
    /\ conn' = [conn EXCEPT ![k] = [@ EXCEPT !.sni = name, !.at = "auth"]]
    /\ UNCHANGED <<log, raw, call, counters>>

\* The refusal carried out, the client gone, or the filter timeout.
Close(k) ==
    /\ k \in Accepted
    /\ conn[k].open /\ conn[k].at # "through"
    /\ Free(conn[k].worker)
    /\ conn' = [conn EXCEPT ![k].open = FALSE]
    /\ UNCHANGED <<log, raw, call, counters>>

-----------------------------------------------------------------------------

FilterInit ==
    /\ Init
    /\ conn = [k \in Conns |-> NoConn]
    /\ counters = [f \in Filters |-> [stat \in Stats |-> 0]]

\* A worker goes on with the connection.
Progress(k) ==
    \/ OnData(k)
    \/ CallPermits(k)
    \/ AuthAccept(k)
    \/ PermitsAnswers(k)
    \/ Settle(k)

FilterNext ==
    \/ Len(log) < MaxPublish /\ (\E t \in Tables : Publish(t)) /\ UNCHANGED filterVars
    \/ (\E c \in Configs, r \in Rules : Parse(c, r)) /\ UNCHANGED filterVars
    \/ \E k \in Conns, w \in Workers, c \in Configs, s \in Streams,
          peer \in Peers : Accept(k, w, c, s, peer)
    \/ \E k \in Conns :
          \/ \E n \in Cuts : Deliver(k, n)
          \/ Progress(k)
          \/ \E name \in Names \union {NoName} : TlsInspect(k, name)
          \/ Close(k)

FilterSpec == FilterInit /\ [][FilterNext]_allVars

\* A worker thread that can run does; clients, carriers and the ClientHello
\* tls_inspector waits for promise nothing.
FairFilterSpec ==
    /\ FilterSpec
    /\ \A k \in Conns : WF_allVars(Progress(k))

-----------------------------------------------------------------------------

\* Permits under the table of generation g, for the connection's Config.
Allows(x, g) == <<x.sni, x.remote>> \in JudgeAgainst(raw[x.cfg], TableAt(log, g))

\* ADMISSION.  A connection that ran through a chain with a ppv2 filter sent a
\* whole valid header, lost exactly that header from its bytes, was labelled
\* with the identity of that header under a table current during its life, and
\* that identity and its SNI are allowed by a table permits() could have read
\* (tcp.rs 197-249, 287-306).
AdmittedIsLawful ==
    \A k \in Accepted :
        LET x == conn[k]
            p == Ppv2Parse(x.stream, x.got)
        IN x.at = "through" /\ Chain[x.cfg] # "auth" =>
              /\ p.tag = "ok"
              /\ x.drained = p.header.len
              /\ x.labelGen # 0 /\ x.labelGen \in x.born .. Len(log)
              /\ x.remote = Synthesize(TableAt(log, x.labelGen), p.header)
              /\ \E g \in x.window : Allows(x, g)

\* DENIAL.  A connection is denied by the allowlist only if a table permits()
\* could have read really does not allow it: no connection is lost to the
\* filters' own bookkeeping (tcp.rs 240-243, 299-305).
DeniedIsJustified ==
    \A k \in Accepted :
        conn[k].reason = "denied_by_allowlist" =>
            \E g \in conn[k].window : ~Allows(conn[k], g)

\* REFUSAL IS FINAL.  Once a filter has refused, no later callback, however
\* often Envoy calls, admits the connection or changes the reason
\* (tcp.rs 82-84, 198-201, 272-273).
RefusalIsFinal ==
    [][\A k \in Accepted :
          conn[k].reason # "none" =>
              /\ conn'[k].reason = conn[k].reason
              /\ conn'[k].at = conn[k].at]_allVars

\* What filter f has to have counted of connection x.
Counts(f, stat, x) ==
    /\ CASE f = "ppv2_auth" -> Chain[x.cfg] = "ppv2_auth"
         [] f = "ppv2" -> Chain[x.cfg] = "tls"
         [] f = "auth" -> Chain[x.cfg] # "ppv2_auth"
    /\ CASE stat = "allowed" -> IF f = "ppv2" THEN x.done ELSE x.at = "through"
         [] stat = "denied" ->
               f # "ppv2" /\ x.reason \in {"denied_by_allowlist", "no_identity_label"}
         [] stat = "not_ppv2" -> f # "auth" /\ x.reason = "not_proxy_protocol"

\* COUNTERS TALLY.  Each filter's counters are exactly the numbers of
\* connections it admitted, judged against and found headerless: none counted
\* twice when a callback runs again, none lost (tcp.rs 219, 241, 244, 291-303).
CountersTally ==
    \A f \in Filters, stat \in Stats :
        counters[f][stat] = Cardinality({k \in Accepted : Counts(f, stat, conn[k])})

\* EVERY HEADER IS SETTLED.  A connection on which a whole header, or enough to
\* know there is none, has arrived, and every connection that reaches auth, is
\* admitted, refused or handed to tls_inspector, unless it is closed first: no
\* wait for bytes that change nothing, no filter that stalls instead of
\* refusing, no worker stuck in permits (tcp.rs 197-249, 287-306).
EveryHeaderSettles ==
    LET Due(k) ==
            /\ k \in Accepted
            /\ \/ /\ conn[k].at = "ppv2"
                  /\ Ppv2Parse(conn[k].stream, conn[k].got).tag # "need"
               \/ conn[k].at = "auth"
        Settled(k) ==
            /\ k \in Accepted
            /\ \/ conn[k].at \in {"tls_inspector", "through"}
               \/ conn[k].reason # "none"
               \/ ~conn[k].open
    IN \A k \in Conns : Due(k) ~> Settled(k)

\* What config.rs 54-56 says of rules and traffic: "so a rule and the wire meet
\* on the same address by construction".  An admitted connection is admitted by
\* one table: the identity that table gives its header is one that table's
\* expansion of the rules allows.
RuleAndWireMeet ==
    \A k \in Accepted :
        LET x == conn[k] IN
        x.at = "through" /\ Chain[x.cfg] # "auth" =>
            \E g \in 1 .. Len(log) :
                LET id == Synthesize(TableAt(log, g),
                                     Ppv2Parse(x.stream, x.got).header)
                IN <<x.sni, id>> \in JudgeAgainst(raw[x.cfg], TableAt(log, g))

\* What README.md 338 says of auth: no_identity_label means "auth ran without a
\* ppv2 filter ahead of it".  So where no ppv2 filter ran, auth admits nothing.
AuthNeedsPpv2 ==
    \A k \in Accepted :
        conn[k].at = "through" => Chain[conn[k].cfg] # "auth"

=============================================================================
