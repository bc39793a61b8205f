------------------------------ MODULE MCScheme ------------------------------
(***************************************************************************)
(* Scheme on a space of 16 addresses: two IPv6 addresses below the IPv4    *)
(* block, two IPv4 addresses, and a ULA of three sites, two digests and    *)
(* the address kind, of two machines each.  The sites are every choice of  *)
(* two or three from the sources below.                                    *)
(***************************************************************************)
EXTENDS Scheme
LOCAL INSTANCE SequencesExt

CONSTANTS v1, v2

MCHash(l) == IF l = v1 THEN 0 ELSE 1

P(addr, bits) == [addr |-> addr, bits |-> bits]

\* Nothing, one address, adjacent blocks, the IPv4 block and its two halves, a
\* block of the ULA that ends at u128::MAX, a block inside everything.
PrefixSets == { {}, {P(0, 4)}, {P(1, 3), P(2, 4)}, {P(3, 2)}, {P(2, 4), P(3, 4)},
                {P(2, 3), P(8, 1)}, {P(0, 0), P(4, 2)} }

\* As cidr::build_from leaves them.
RangeLists == { FoldLeft(MergeInto, <<>>,
                    SetToSortSeq({RangeOf(p) : p \in S}, LAMBDA a, b : a.start < b.start)) :
                S \in PrefixSets }
VpceLists == { <<>>, <<v1>>, <<v1, v2>> }

MCSites(id) == [id : {id}, vpce : VpceLists, ranges : RangeLists]

\* A second list for site 2 stands for two keys that parse to one id.
MCSiteLists == {<<a, b>> : a \in MCSites(1), b \in MCSites(2)}
    \union {<<a, b, c>> : a \in [id : {1}, vpce : {<<v1>>}, ranges : RangeLists],
                          b \in [id : {2}, vpce : {<<v2>>}, ranges : RangeLists],
                          c \in [id : {2}, vpce : {<<v1>>, <<v2>>}, ranges : RangeLists]}
=============================================================================
