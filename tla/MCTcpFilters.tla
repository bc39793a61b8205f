---------------------------- MODULE MCTcpFilters ----------------------------
(***************************************************************************)
(* TcpFilters on small instances: one header whose identity differs from   *)
(* table to table, one stream without a header, a read that ends inside    *)
(* the header and one that ends in the payload.                            *)
(***************************************************************************)
EXTENDS TcpFilters, TLC

CONSTANTS k1, k2, w1, w2, c1, c2, c3, t1, t2, r1, r2, i1, i2, p6, n1, a1, v1

\* A header of 40 bytes, and something that is not a header.
Proxied == [sig |-> SIGNATURE, proxy |-> TRUE, len |-> 40, fam |-> "v4",
            src |-> a1, tlvs |-> <<>>]
Direct == [Proxied EXCEPT !.sig = 0]

BothStreams == {Proxied, Direct}
ProxiedOnly == {Proxied}

MCQueries == (Names \union {NoName}) \X Identities

MCSynthesize(t, h) == IF t = t1 THEN i1 ELSE i2

\* r1 admits whom t1 calls i1, by name, and stops doing so under t2.  r2 names
\* a group that moved from i2 to i1 between the tables, while the client moved
\* from i1 to i2.
MCExpand(r, t) ==
    CASE r = r1 /\ t = t1 -> {<<NoName, i1>>, <<n1, i1>>}
      [] r = r1 /\ t = t2 -> {<<n1, i2>>}
      [] r = r2 /\ t = t1 -> {<<NoName, i2>>, <<n1, i2>>}
      [] OTHER -> {<<NoName, i1>>, <<n1, i1>>, <<n1, p6>>}

TcpChain == (c1 :> "ppv2_auth")
TlsChains == (c1 :> "tls") @@ (c2 :> "auth")
EveryChain == (c1 :> "ppv2_auth") @@ (c2 :> "tls") @@ (c3 :> "auth")
AllChains == (c1 :> "ppv2_auth") @@ (c2 :> "tls")

Symmetry == Permutations(Conns) \union Permutations(Workers)
=============================================================================
