------------------------------ MODULE Ppv2Peek ------------------------------
(***************************************************************************)
(* The peek loop around ppv2::parse (src/tcp.rs inspect, on_data): bytes   *)
(* arrive, the filter parses everything received so far, and goes on       *)
(* waiting for as many bytes as parse asked for.                           *)
(***************************************************************************)
EXTENDS Ppv2

CONSTANTS
    Streams,    \* what peers send
    Cuts        \* the byte counts a read can end at

ASSUME StreamsAssumption == Streams \subseteq Stream
ASSUME CutsAssumption == Cuts \subseteq Nat

VARIABLES
    stream,     \* what the peer sends
    got,        \* bytes received so far
    result      \* what parse made of them

vars == <<stream, got, result>>

TypeOK ==
    /\ stream \in Streams
    /\ got \in Cuts \union {0}
    /\ result = Ppv2Parse(stream, got)

Init ==
    /\ stream \in Streams
    /\ got = 0
    /\ result = Ppv2Parse(stream, 0)

\* More bytes arrive, in a chunk of any size.
Receive(n) ==
    /\ got < n
    /\ got' = n
    /\ result' = Ppv2Parse(stream, n)
    /\ UNCHANGED stream

Next == \E n \in Cuts : Receive(n)

Spec == Init /\ [][Next]_vars

\* CHUNKING DOES NOT MATTER.  Once parse has accepted or rejected a prefix, no
\* further bytes change the outcome, so how the network cuts the header into
\* reads cannot decide who is admitted (ppv2.rs 49-98).
ChunkingIrrelevant == [][result.tag # "need" => result' = result]_vars

\* NEVER STUCK, NEVER GREEDY.  parse asks only for bytes it has not got, at
\* most MAX_HEADER of them, and once it has as many as it asked for it asks no
\* further than the declared length: no wait for bytes that would change
\* nothing, no peek buffer above the cap (ppv2.rs 24-25, 51-69).
NeedIsAhead ==
    result.tag = "need" =>
        /\ got < result.want
        /\ result.want <= MAX_HEADER
        /\ LET next == Ppv2Parse(stream, result.want) IN
           next.tag = "need" => result.want = PREAMBLE /\ next.want = stream.len

\* The bytes up to the end of each TLV.
Ends(tlvs) ==
    LET size[k \in 0 .. Len(tlvs)] ==
            IF k = 0 THEN 0 ELSE size[k - 1] + TLV_HEADER + tlvs[k].size
    IN size

\* The TLVs in the room that carry a vpce-id.
Named(tlvs, room) ==
    {k \in DOMAIN tlvs : /\ Ends(tlvs)[k] <= room
                         /\ tlvs[k].aws /\ tlvs[k].vpce /\ tlvs[k].size > 1}

\* FIRST VPCE-ID WINS.  The label of an accepted header is the first vpce-id
\* among the TLVs that fit: a later one cannot replace it, an overlong TLV
\* hides whatever follows (ppv2.rs 100-116).
LabelIsFirst ==
    result.tag = "ok" =>
        LET named == Named(stream.tlvs, stream.len - PREAMBLE - BlockLen(stream.fam))
        IN IF named = {} THEN result.header.vpce = NoLabel
           ELSE \E k \in named : /\ \A j \in named : k <= j
                                 /\ result.header.vpce = stream.tlvs[k].id

=============================================================================
