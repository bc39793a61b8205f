------------------------------- MODULE MCUdp --------------------------------
(***************************************************************************)
(* Udp with one UDP listener and one TCP listener, which may carry the     *)
(* table, and updates of every kind: lawful ones, ones that misplace a     *)
(* rule or a field, a carrier ahead of a filter that is rejected.          *)
(***************************************************************************)
EXTENDS Udp, TLC

CONSTANTS d1, d2, w1, w2, t1, t2, r1, r2, i1, i2, a1, v1

\* A header of 28 bytes, and something that is not a header.
Proxied == [sig |-> SIGNATURE, proxy |-> TRUE, len |-> 28, fam |-> "v4",
            src |-> a1, tlvs |-> <<>>]
Direct == [Proxied EXCEPT !.sig = 3]

\* In one chunk, cut inside the header, empty, without header.
MCPackets == {[stream |-> Proxied, chunks |-> c] : c \in {<<40>>, <<20, 20>>, <<>>}}
             \union {[stream |-> Direct, chunks |-> <<40>>]}

MCQueries == {NoName} \X Identities
MCSynthesize(t, h) == IF t = t1 THEN i1 ELSE i2

\* r1 admits whom t1 calls i1 and stops under t2; r2 admits i2 under both.
MCExpand(r, t) ==
    IF r = r2 THEN {<<NoName, i2>>} ELSE IF t = t1 THEN {<<NoName, i1>>} ELSE {}

-----------------------------------------------------------------------------

Ula == [width |-> 48, ip |-> TRUE, local |-> TRUE, clean |-> TRUE]
Source(reads, width) == [reads |-> reads, width |-> width]
Site(key, sources) == [key |-> key, sources |-> sources]

Rule(fields, r) == [text |-> "json", fields |-> fields, allow |-> TRUE,
                    scopes |-> <<1, 2>>, ula |-> Ula, sites |-> <<>>,
                    rules |-> r, table |-> NoTable]
Carrier(t) == [Rule({"ula", "sites", "groups"}, Unparsed) EXCEPT !.table = t,
                  !.sites = <<Site(1, <<Source("v4", 32), Source("v6", 128),
                                        Source("id", 8), Source("blank", Absent)>>),
                              Site(65535, <<Source("v4", Absent)>>)>>]

BadCarriers ==
    {[Carrier(t2) EXCEPT !.ula = u] : u \in
        {[Ula EXCEPT !.width = 64], [Ula EXCEPT !.width = Malformed],
         [Ula EXCEPT !.local = FALSE], [Ula EXCEPT !.clean = FALSE]}}
    \union {[Carrier(t2) EXCEPT !.sites = <<Site(k, <<>>)>>] : k \in {0, 65536, Malformed}}
    \union {[Carrier(t2) EXCEPT !.sites = <<Site(1, <<s>>)>>] : s \in
               {Source("v4", 33), Source("v6", 129), Source("id", Malformed)}}
    \union {[Carrier(t2) EXCEPT !.fields = f] : f \in {{"sites"}, {"ula", "allow"}}}

BadTexts(b) == {[b EXCEPT !.text = t] : t \in {"bad_utf8", "blank", "not_json"}}

\* Every filter name with every combination of rule fields, and with a field that
\* is not known.
RuleBodies(r) ==
    {Rule(f, r) : f \in SUBSET {"allow", "scopes"} \union {{"allow", "unknown"}, {"ula"}}}
    \union {[Rule({"allow", "scopes"}, r) EXCEPT !.allow = FALSE],
            [Rule({"scopes"}, r) EXCEPT !.scopes = <<1, 0>>]}

One(name, bodies) == {<<[name |-> name, body |-> b]>> : b \in bodies}
Two(n, b, m, c) == <<[name |-> n, body |-> b], [name |-> m, body |-> c]>>

TcpChains ==
    One("table", {Carrier(t1)} \union BadCarriers)
    \union UNION {One(n, RuleBodies(r1)) : n \in {"ppv2_auth", "ppv2", "auth"}}
    \union One("other", {Rule({"allow"}, r1)})
    \union { Two("ppv2", Rule({}, r1), "auth", Rule({"scopes"}, r1)),
             Two("table", Carrier(t2), "auth", Rule({"allow"}, r1)),
             Two("table", Carrier(t2), "table", Carrier(t1)) }
UdpChains ==
    One("ppv2_auth", RuleBodies(r1) \union {Rule({"allow"}, r2)}
                     \union BadTexts(Rule({"allow"}, r1)))
    \union One("ppv2", {Rule({}, r1)})
    \union One("table", {Carrier(t2)} \union BadTexts(Carrier(t2)) \union BadCarriers)

MCUpdates == [of : {"tcp"}, chain : TcpChains] \union [of : {"udp"}, chain : UdpChains]
MCProtocol == [l \in {"tcp", "udp"} |-> l]

Symmetry == Permutations(Datagrams) \union Permutations(Workers)
=============================================================================
