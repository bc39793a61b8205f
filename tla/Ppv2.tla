-------------------------------- MODULE Ppv2 --------------------------------
(***************************************************************************)
(* Reading a PROXY protocol v2 header off a byte stream (src/ppv2.rs).     *)
(*                                                                         *)
(* A stream is kept as what parse can tell about it: how many of its first *)
(* bytes agree with the signature, whether the command byte is 0x21, the   *)
(* total length the preamble declares, the family, the source and the      *)
(* TLVs of the body.  A prefix of n bytes of it is just n.                 *)
(***************************************************************************)
EXTENDS Integers, Sequences

CONSTANTS
    Sources,        \* source addresses a header can carry
    Labels,         \* PrivateLink endpoint ids a TLV can carry
    NoLabel         \* the empty vpce-id

ASSUME NoLabelAssumption == NoLabel \notin Labels

SIGNATURE == 12     \* length of the signature
PREAMBLE == 16      \* signature, command, family, length
TLV_HEADER == 3
MAX_HEADER == 256
PORTS == 4
U16Max == 65535

\* size is the TLV's declared value length; id follows the subtype byte.
Tlv == [aws : BOOLEAN, vpce : BOOLEAN, size : 0 .. U16Max, id : Labels]

Stream == [sig : 0 .. SIGNATURE, proxy : BOOLEAN,
           len : PREAMBLE .. PREAMBLE + U16Max,
           fam : {"v4", "v6", "other"}, src : Sources, tlvs : Seq(Tlv)]

Need(n) == [tag |-> "need", want |-> n]
Invalid == [tag |-> "invalid"]
Ok(h) == [tag |-> "ok", header |-> h]

\* Source and destination address, then the two ports.
BlockLen(fam) == (IF fam = "v6" THEN 32 ELSE 8) + PORTS

-----------------------------------------------------------------------------
\* A variant with one mistake, to show that it is noticed: the last vpce-id wins.
WalkTlvLast(at, t, room) ==
    LET end == at.i + TLV_HEADER + t.size IN
    IF at.stop \/ end > room THEN [at EXCEPT !.stop = TRUE]
    ELSE IF t.aws /\ t.size > 1 /\ t.vpce
         THEN [i |-> end, found |-> t.id, stop |-> FALSE]
         ELSE [at EXCEPT !.i = end]

\* One round of find_vpce: stop at a TLV that overruns the room, and at the first
\* AWS vpce-id with at least one byte.
WalkTlv(at, t, room) ==
    LET end == at.i + TLV_HEADER + t.size IN
    IF at.stop \/ end > room THEN [at EXCEPT !.stop = TRUE]
    ELSE IF t.aws /\ t.size > 1 /\ t.vpce
         THEN [i |-> end, found |-> t.id, stop |-> TRUE]
         ELSE [at EXCEPT !.i = end]

\* The walk of find_vpce, after each TLV.
VpceWalk(tlvs, room) ==
    LET walk[k \in 0 .. Len(tlvs)] ==
            IF k = 0 THEN [i |-> 0, found |-> NoLabel, stop |-> FALSE]
            ELSE WalkTlv(walk[k - 1], tlvs[k], room)
    IN walk

FindVpce(tlvs, room) == VpceWalk(tlvs, room)[Len(tlvs)].found

\* A variant with one mistake: the declared length waited for before it is capped.
Ppv2ParseUncapped(s, n) ==
    IF n < PREAMBLE THEN
        IF s.sig < n /\ s.sig < SIGNATURE THEN Invalid ELSE Need(PREAMBLE)
    ELSE IF s.sig < SIGNATURE \/ ~s.proxy THEN Invalid
    ELSE IF n < s.len THEN Need(s.len)
    ELSE IF \/ s.len > MAX_HEADER \/ s.fam = "other"
            \/ s.len < PREAMBLE + BlockLen(s.fam) THEN Invalid
    ELSE Ok([len |-> s.len, src |-> s.src, fam |-> s.fam,
             vpce |-> FindVpce(s.tlvs, s.len - PREAMBLE - BlockLen(s.fam))])

\* A variant with one mistake: the address block measured on the bytes at hand,
\* before the header is complete.
Ppv2ParseEager(s, n) ==
    IF n < PREAMBLE THEN
        IF s.sig < n /\ s.sig < SIGNATURE THEN Invalid ELSE Need(PREAMBLE)
    ELSE IF s.sig < SIGNATURE \/ ~s.proxy \/ s.len > MAX_HEADER THEN Invalid
    ELSE IF \/ s.fam = "other" \/ s.len < PREAMBLE + BlockLen(s.fam)
            \/ n < PREAMBLE + BlockLen(s.fam) THEN Invalid
    ELSE IF n < s.len THEN Need(s.len)
    ELSE Ok([len |-> s.len, src |-> s.src, fam |-> s.fam,
             vpce |-> FindVpce(s.tlvs, s.len - PREAMBLE - BlockLen(s.fam))])

\* parse, on the first n bytes of stream s.
Ppv2Parse(s, n) ==
    IF n < PREAMBLE THEN
        IF s.sig < n /\ s.sig < SIGNATURE THEN Invalid ELSE Need(PREAMBLE)
    ELSE IF s.sig < SIGNATURE \/ ~s.proxy \/ s.len > MAX_HEADER THEN Invalid
    ELSE IF n < s.len THEN Need(s.len)
    ELSE IF s.fam = "other" \/ s.len < PREAMBLE + BlockLen(s.fam) THEN Invalid
    ELSE Ok([len |-> s.len, src |-> s.src, fam |-> s.fam,
             vpce |-> FindVpce(s.tlvs, s.len - PREAMBLE - BlockLen(s.fam))])

=============================================================================
