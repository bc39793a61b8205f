----------------------------- MODULE MCPpv2Peek -----------------------------
(***************************************************************************)
(* Ppv2Peek on streams around every boundary of the format: signatures     *)
(* that break early, late or not at all; declared lengths below, at and    *)
(* above what the family needs and MAX_HEADER; TLVs that are short, repeat *)
(* the vpce-id or overrun the header.                                      *)
(***************************************************************************)
EXTENDS Ppv2Peek

CONSTANTS a1, v1, v2

T(aws, vpce, size, id) == [aws |-> aws, vpce |-> vpce, size |-> size, id |-> id]

MCTlvs == {
    <<>>,
    <<T(TRUE, TRUE, 4, v1)>>,
    <<T(FALSE, FALSE, 4, v2), T(TRUE, TRUE, 4, v1), T(TRUE, TRUE, 4, v2)>>,
    <<T(TRUE, TRUE, 1, v1), T(TRUE, FALSE, 3, v1), T(TRUE, TRUE, 2, v2)>>,
    <<T(FALSE, FALSE, U16Max, v1), T(TRUE, TRUE, 4, v1)>> }

MCStreams ==
    { [sig |-> g, proxy |-> p, len |-> n, fam |-> f, src |-> a1, tlvs |-> t] :
        g \in {0, 11, 12}, p \in BOOLEAN, f \in {"v4", "v6", "other"},
        n \in {16, 27, 28, 35, 51, 52, 84, 256, 257, PREAMBLE + U16Max},
        t \in MCTlvs }

MCCuts == {1, 11, 12, 15, 16, 17, 27, 28, 52, 83, 84, 256, 257, 400}
=============================================================================
