----------------------------- MODULE Ppv2Proofs -----------------------------
(***************************************************************************)
(* The header parser is a function of the stream, not of how it is cut:    *)
(* proved for every stream, every label set and every chunking.            *)
(***************************************************************************)
EXTENDS Ppv2Peek, Ppv2Lemmas, TLAPS

\* What the filter knows is what parse makes of the bytes received (tcp.rs
\* 156-173).
LEMMA PeekTypes == Spec => []TypeOK
<1>1. Init => TypeOK
  BY DEF Init, TypeOK
<1>2. TypeOK /\ [Next]_vars => TypeOK'
  BY DEF TypeOK, Next, Receive, vars
<1> QED
  BY <1>1, <1>2, PTL DEF Spec

\* The filter never waits for bytes it has, nor for more than MAX_HEADER.
THEOREM NeverStuck == Spec => []NeedIsAhead
<1>1. TypeOK => NeedIsAhead
  <2> SUFFICES ASSUME TypeOK, result.tag = "need"
               PROVE  /\ got < result.want
                      /\ result.want <= MAX_HEADER
                      /\ Ppv2Parse(stream, result.want).tag = "need" =>
                            /\ result.want = PREAMBLE
                            /\ Ppv2Parse(stream, result.want).want = stream.len
    BY DEF NeedIsAhead
  <2>1. stream \in Stream /\ got \in Nat /\ result = Ppv2Parse(stream, got)
    BY StreamsAssumption, CutsAssumption DEF TypeOK
  <2> QED
    BY <2>1, NeedAsksAhead
<1> QED
  BY <1>1, PeekTypes, PTL

\* However the bytes arrive, the first verdict on them is the only one.
THEOREM ChunkingNeverMatters == Spec => ChunkingIrrelevant
<1>1. TypeOK /\ [Next]_vars => [result.tag # "need" => result' = result]_vars
  <2> SUFFICES ASSUME TypeOK, Next, result.tag # "need"
               PROVE  result' = result
    BY DEF vars
  <2>1. PICK n \in Cuts : Receive(n)
    BY DEF Next
  <2>2. /\ stream \in Stream /\ got \in Nat /\ n \in Nat /\ got < n
        /\ result = Ppv2Parse(stream, got) /\ result' = Ppv2Parse(stream, n)
    BY <2>1, StreamsAssumption, CutsAssumption DEF TypeOK, Receive
  <2>3. got <= n
    BY <2>2
  <2> QED
    BY <2>2, <2>3, VerdictIsStable
<1> QED
  BY <1>1, PeekTypes, PTL DEF Spec, ChunkingIrrelevant
-----------------------------------------------------------------------------
(* The walk over the TLVs.                                                 *)

WalkStart == [i |-> 0, found |-> NoLabel, stop |-> FALSE]
WalkState == [i : Nat, found : Labels \union {NoLabel}, stop : BOOLEAN]

LEMMA TlvFields ==
    ASSUME NEW t \in Tlv
    PROVE  /\ t.aws \in BOOLEAN /\ t.vpce \in BOOLEAN /\ t.id \in Labels
           /\ t.size \in Nat /\ TLV_HEADER \in Nat /\ TLV_HEADER > 0
<1>1. t.aws \in BOOLEAN /\ t.vpce \in BOOLEAN /\ t.id \in Labels
  BY DEF Tlv
<1>2. t.size \in 0 .. U16Max
  BY DEF Tlv
<1>3. U16Max \in Nat
  BY DEF U16Max
<1>4. TLV_HEADER \in Nat /\ TLV_HEADER > 0
  BY DEF TLV_HEADER
<1>5. t.size \in Nat
  BY <1>2, <1>3
<1> QED
  BY <1>1, <1>4, <1>5

LEMMA RoundTypes ==
    ASSUME NEW at \in WalkState, NEW t \in Tlv, NEW room \in Int
    PROVE  WalkTlv(at, t, room) \in WalkState
<1>1. PICK end : end = at.i + TLV_HEADER + t.size
  OBVIOUS
<1>2. end \in Nat /\ t.id \in Labels
  BY <1>1, TlvFields DEF WalkState
<1>3. CASE at.stop \/ end > room
  BY <1>1, <1>3 DEF WalkTlv, WalkState
<1>4. CASE ~(at.stop \/ end > room) /\ t.aws /\ t.size > 1 /\ t.vpce
  <2>1. WalkTlv(at, t, room) = [i |-> end, found |-> t.id, stop |-> TRUE]
    BY <1>1, <1>4 DEF WalkTlv
  <2> QED
    BY <1>2, <2>1 DEF WalkState
<1>5. CASE ~(at.stop \/ end > room) /\ ~(t.aws /\ t.size > 1 /\ t.vpce)
  <2>1. WalkTlv(at, t, room) = [at EXCEPT !.i = end]
    BY <1>1, <1>5 DEF WalkTlv
  <2> QED
    BY <1>2, <2>1 DEF WalkState
<1> QED
  BY <1>3, <1>4, <1>5

Walked(tlvs, room, n, w) ==
    /\ w[0] = WalkStart
    /\ \A k \in 1 .. n : w[k] = WalkTlv(w[k - 1], tlvs[k], room)
    /\ \A k \in 0 .. n : w[k] \in WalkState

\* The walk exists, and each of its rounds is a round of the code.
LEMMA WalkIs ==
    ASSUME NEW tlvs \in Seq(Tlv), NEW room \in Int, NEW n, n = Len(tlvs),
           NEW w, w = VpceWalk(tlvs, room)
    PROVE  Walked(tlvs, room, n, w)
<1>1. n \in Nat /\ DOMAIN tlvs = 1 .. n /\ \A k \in 1 .. n : tlvs[k] \in Tlv
  OBVIOUS
<1>2. WalkStart \in WalkState
  BY DEF WalkStart, WalkState
<1>3. PICK step : step = [p \in WalkState \X (1 .. n) |-> WalkTlv(p[1], tlvs[p[2]], room)]
  OBVIOUS
<1>4. step \in [WalkState \X (1 .. n) -> WalkState]
  <2>1. ASSUME NEW p \in WalkState \X (1 .. n)
        PROVE  WalkTlv(p[1], tlvs[p[2]], room) \in WalkState
    BY <1>1, RoundTypes
  <2> QED
    BY <1>3, <2>1
<1>5. PICK u : Rounds(u, n, WalkState, WalkStart, step)
  BY <1>1, <1>2, <1>4, LoopRuns
<1>6. \A k \in 1 .. n : u[k] = WalkTlv(u[k - 1], tlvs[k], room)
  <2> SUFFICES ASSUME NEW k \in 1 .. n PROVE u[k] = WalkTlv(u[k - 1], tlvs[k], room)
    OBVIOUS
  <2>1. k - 1 \in 0 .. n
    BY <1>1
  <2>2. u[k - 1] \in WalkState
    BY <1>5, <2>1 DEF Rounds
  <2>3. step[<<u[k - 1], k>>] = WalkTlv(u[k - 1], tlvs[k], room)
    BY <1>3, <2>2
  <2> QED
    BY <1>5, <2>3 DEF Rounds
<1>7. u = [k \in 0 .. n |-> IF k = 0 THEN WalkStart ELSE WalkTlv(u[k - 1], tlvs[k], room)]
  <2>1. \A k \in 0 .. n : k = 0 \/ k \in 1 .. n
    BY <1>1
  <2>2. u \in [0 .. n -> WalkState] /\ u[0] = WalkStart
    BY <1>5 DEF Rounds
  <2> QED
    BY <1>6, <2>1, <2>2
<1>8. w = [k \in 0 .. n |-> IF k = 0 THEN WalkStart ELSE WalkTlv(w[k - 1], tlvs[k], room)]
  BY <1>7, Zenon DEF VpceWalk, WalkStart
<1>9. w[0] = WalkStart /\ \A k \in 1 .. n : w[k] = WalkTlv(w[k - 1], tlvs[k], room)
  <2>1. 0 \in 0 .. n /\ \A k \in 1 .. n : k \in 0 .. n /\ k # 0
    BY <1>1
  <2> QED
    BY <1>8, <2>1
<1>10. \A k \in 0 .. n : w[k] \in WalkState
  <2>1. PICK G : G = {k \in Nat : w[k] \in WalkState}
    OBVIOUS
  <2>2. 0 \in G
    BY <1>2, <1>9, <2>1
  <2>3. \A k \in 1 .. n : k - 1 \in G => k \in G
    BY <1>1, <1>9, <2>1, RoundTypes
  <2> QED
    BY <1>1, <2>1, <2>2, <2>3, EveryRound
<1> QED
  BY <1>9, <1>10 DEF Walked

LEMMA EndsAre ==
    ASSUME NEW tlvs \in Seq(Tlv), NEW n, n = Len(tlvs), NEW e, e = Ends(tlvs)
    PROVE  /\ e[0] = 0
           /\ \A k \in 1 .. n : e[k] = e[k - 1] + TLV_HEADER + tlvs[k].size
           /\ \A k \in 0 .. n : e[k] \in Nat
<1>1. n \in Nat /\ DOMAIN tlvs = 1 .. n /\ \A k \in 1 .. n : tlvs[k] \in Tlv
  OBVIOUS
<1>2. \A k \in 1 .. n : tlvs[k].size \in Nat /\ TLV_HEADER \in Nat
  BY <1>1, TlvFields
<1>3. PICK step : step = [p \in Nat \X (1 .. n) |-> p[1] + TLV_HEADER + tlvs[p[2]].size]
  OBVIOUS
<1>4. step \in [Nat \X (1 .. n) -> Nat]
  <2>1. ASSUME NEW p \in Nat \X (1 .. n) PROVE p[1] + TLV_HEADER + tlvs[p[2]].size \in Nat
    BY <1>2
  <2> QED
    BY <1>3, <2>1
<1>5. PICK u : Rounds(u, n, Nat, 0, step)
  BY <1>1, <1>4, LoopRuns
<1>6. \A k \in 1 .. n : u[k] = u[k - 1] + TLV_HEADER + tlvs[k].size
  <2> SUFFICES ASSUME NEW k \in 1 .. n PROVE u[k] = u[k - 1] + TLV_HEADER + tlvs[k].size
    OBVIOUS
  <2>1. k - 1 \in 0 .. n
    BY <1>1
  <2>2. u[k - 1] \in Nat
    BY <1>5, <2>1 DEF Rounds
  <2>3. step[<<u[k - 1], k>>] = u[k - 1] + TLV_HEADER + tlvs[k].size
    BY <1>3, <2>2
  <2> QED
    BY <1>5, <2>3 DEF Rounds
<1>7. u = [k \in 0 .. n |-> IF k = 0 THEN 0 ELSE u[k - 1] + TLV_HEADER + tlvs[k].size]
  <2>1. \A k \in 0 .. n : k = 0 \/ k \in 1 .. n
    BY <1>1
  <2>2. u \in [0 .. n -> Nat] /\ u[0] = 0
    BY <1>5 DEF Rounds
  <2> QED
    BY <1>6, <2>1, <2>2
<1>8. e = [k \in 0 .. n |-> IF k = 0 THEN 0 ELSE e[k - 1] + TLV_HEADER + tlvs[k].size]
  BY <1>7, Zenon DEF Ends
<1>9. e[0] = 0 /\ \A k \in 1 .. n : e[k] = e[k - 1] + TLV_HEADER + tlvs[k].size
  <2>1. 0 \in 0 .. n /\ \A k \in 1 .. n : k \in 0 .. n /\ k # 0
    BY <1>1
  <2> QED
    BY <1>8, <2>1
<1>10. \A k \in 0 .. n : e[k] \in Nat
  <2>1. PICK G : G = {k \in Nat : e[k] \in Nat}
    OBVIOUS
  <2>2. 0 \in G
    BY <1>9, <2>1
  <2>3. ASSUME NEW k \in 1 .. n, k - 1 \in G PROVE k \in G
    <3>1. e[k - 1] \in Nat /\ tlvs[k].size \in Nat /\ TLV_HEADER \in Nat /\ k \in Nat
      BY <1>1, <1>2, <2>1, <2>3
    <3>2. e[k] \in Nat
      BY <1>9, <3>1
    <3> QED
      BY <2>1, <3>1, <3>2
  <2> QED
    BY <1>1, <2>1, <2>2, <2>3, EveryRound
<1> QED
  BY <1>9, <1>10

LEMMA EndsGrow ==
    ASSUME NEW tlvs \in Seq(Tlv), NEW n, n = Len(tlvs), NEW e, e = Ends(tlvs),
           NEW j \in 0 .. n, NEW i \in 0 .. n, j <= i
    PROVE  e[j] <= e[i]
<1>1. n \in Nat /\ (\A k \in 1 .. n : tlvs[k] \in Tlv) /\ (\A k \in 0 .. n : e[k] \in Nat)
  BY EndsAre
<1>2. PICK G : G = {k \in Nat : j <= k => e[j] <= e[k]}
  OBVIOUS
<1>3. 0 \in G
  <2>1. j <= 0 => j = 0
    BY <1>1
  <2>2. e[j] <= e[j]
    BY <1>1
  <2> QED
    BY <1>2, <2>1, <2>2
<1>4. ASSUME NEW k \in 1 .. n, k - 1 \in G PROVE k \in G
  <2>1. k \in Nat /\ k \in 0 .. n /\ k - 1 \in 0 .. n /\ (j <= k => j <= k - 1 \/ j = k)
    BY <1>1
  <2>2. e[k] = e[k - 1] + TLV_HEADER + tlvs[k].size
    BY EndsAre
  <2>3. TLV_HEADER \in Nat /\ tlvs[k].size \in Nat /\ e[k - 1] \in Nat /\ e[k] \in Nat /\ e[j] \in Nat
    BY <1>1, <2>1, TlvFields
  <2>4. e[k - 1] <= e[k] /\ e[k] <= e[k]
    BY <2>2, <2>3
  <2>5. j <= k - 1 => e[j] <= e[k - 1]
    BY <1>2, <1>4
  <2>6. j <= k => e[j] <= e[k]
    BY <2>1, <2>3, <2>4, <2>5
  <2> QED
    BY <1>2, <2>1, <2>6
<1>5. i \in G
  BY <1>1, <1>3, <1>4, EveryRound
<1> QED
  BY <1>2, <1>5

\* The walk after k TLVs: it is at their end and has met no name; or it has
\* stopped at one that does not fit; or it has stopped at the first name.
WalkGood(tlvs, at, e, room, names, k) ==
    /\ ~at.stop => at.found = NoLabel /\ at.i = e[k] /\ \A j \in 1 .. k : j \notin names
    /\ at.stop /\ at.found = NoLabel =>
          \E j \in 1 .. k : e[j] > room /\ \A i \in 1 .. j : i \notin names
    /\ at.stop /\ at.found # NoLabel =>
          \E j \in 1 .. k : /\ j \in names /\ at.found = tlvs[j].id
                            /\ \A i \in 1 .. j : i \in names => i = j

LEMMA WalkStaysGood ==
    ASSUME NEW tlvs \in Seq(Tlv), NEW room \in Int, NEW n, n = Len(tlvs),
           NEW e, e = Ends(tlvs), NEW names, names = Named(tlvs, room),
           NEW k \in 1 .. n, NEW at \in WalkState, NEW next,
           next = WalkTlv(at, tlvs[k], room),
           WalkGood(tlvs, at, e, room, names, k - 1)
    PROVE  WalkGood(tlvs, next, e, room, names, k)
<1>1. n \in Nat /\ DOMAIN tlvs = 1 .. n /\ tlvs[k] \in Tlv /\ k \in Nat /\ k \in 0 .. n
  OBVIOUS
<1>2. PICK t : t = tlvs[k]
  OBVIOUS
<1>3. /\ t.aws \in BOOLEAN /\ t.vpce \in BOOLEAN /\ t.id \in Labels /\ t.size \in Nat
      /\ TLV_HEADER \in Nat
  BY <1>1, <1>2, TlvFields
<1>4. e[k] = e[k - 1] + TLV_HEADER + t.size /\ e[k] \in Nat
  BY <1>1, <1>2, EndsAre
<1>5. k \in names <=> e[k] <= room /\ t.aws /\ t.vpce /\ t.size > 1
  BY <1>1, <1>2 DEF Named
<1>6. /\ \A j \in 1 .. k - 1 : j \in 1 .. k
      /\ \A j \in 1 .. k : j = k \/ j \in 1 .. k - 1
      /\ k \in 1 .. k
  BY <1>1
<1>7. at.stop \in BOOLEAN /\ at.i \in Nat /\ at.found \in Labels \union {NoLabel}
  BY DEF WalkState
<1>8. PICK end : end = at.i + TLV_HEADER + t.size
  OBVIOUS
<1>9. CASE at.stop
  <2>1. next.stop /\ next.found = at.found
    BY <1>2, <1>9 DEF WalkTlv, WalkState
  <2> QED
    BY <1>6, <1>9, <2>1 DEF WalkGood
<1>10. CASE ~at.stop /\ end > room
  <2>1. next.stop /\ next.found = NoLabel
    BY <1>2, <1>8, <1>10 DEF WalkTlv, WalkState, WalkGood
  <2>2. end = e[k] /\ \A j \in 1 .. k - 1 : j \notin names
    BY <1>4, <1>8, <1>10 DEF WalkGood
  <2>3. e[k] > room /\ k \notin names
    BY <1>4, <1>5, <1>10, <2>2
  <2>4. \A i \in 1 .. k : i \notin names
    BY <1>6, <2>2, <2>3
  <2> QED
    BY <1>6, <2>1, <2>3, <2>4 DEF WalkGood
<1>11. CASE ~at.stop /\ ~(end > room) /\ t.aws /\ t.size > 1 /\ t.vpce
  <2>1. next = [i |-> end, found |-> t.id, stop |-> TRUE]
    BY <1>2, <1>8, <1>11 DEF WalkTlv
  <2>2. end = e[k] /\ \A j \in 1 .. k - 1 : j \notin names
    BY <1>4, <1>8, <1>11 DEF WalkGood
  <2>3. k \in names
    BY <1>4, <1>5, <1>11, <2>2
  <2>4. next.stop /\ next.found = t.id /\ next.found # NoLabel
    BY <1>3, <2>1, NoLabelAssumption
  <2>5. \A i \in 1 .. k : i \in names => i = k
    BY <1>6, <2>2
  <2> QED
    BY <1>2, <1>6, <2>3, <2>4, <2>5 DEF WalkGood
<1>12. CASE ~at.stop /\ ~(end > room) /\ ~(t.aws /\ t.size > 1 /\ t.vpce)
  <2>1. next = [at EXCEPT !.i = end]
    BY <1>2, <1>8, <1>12 DEF WalkTlv
  <2>2. end = e[k] /\ at.found = NoLabel /\ \A j \in 1 .. k - 1 : j \notin names
    BY <1>4, <1>8, <1>12 DEF WalkGood
  <2>3. ~next.stop /\ next.i = e[k] /\ next.found = NoLabel
    BY <1>12, <2>1, <2>2 DEF WalkState
  <2>4. k \notin names
    BY <1>5, <1>12
  <2>5. \A i \in 1 .. k : i \notin names
    BY <1>6, <2>2, <2>4
  <2> QED
    BY <2>3, <2>5 DEF WalkGood
<1> QED
  BY <1>9, <1>10, <1>11, <1>12

\* find_vpce returns the first vpce-id that fits (ppv2.rs 100-116).
LEMMA FirstIsFound ==
    ASSUME NEW tlvs \in Seq(Tlv), NEW room \in Int, NEW names, names = Named(tlvs, room),
           NEW found, found = FindVpce(tlvs, room)
    PROVE  IF names = {} THEN found = NoLabel
           ELSE \E k \in names : (\A j \in names : k <= j) /\ found = tlvs[k].id
<1>1. PICK n \in Nat : n = Len(tlvs)
  OBVIOUS
<1>2. PICK e, w : e = Ends(tlvs) /\ w = VpceWalk(tlvs, room)
  OBVIOUS
<1>3. /\ w[0] = WalkStart
      /\ \A k \in 1 .. n : w[k] = WalkTlv(w[k - 1], tlvs[k], room)
      /\ \A k \in 0 .. n : w[k] \in WalkState
  <2>1. Walked(tlvs, room, n, w)
    BY <1>1, <1>2, WalkIs
  <2> QED
    BY <2>1 DEF Walked
<1>4. names \subseteq 1 .. n
  BY <1>1 DEF Named
<1>5. e[0] = 0
  BY <1>1, <1>2, EndsAre
<1>6. PICK G : G = {k \in Nat : k <= n => WalkGood(tlvs, w[k], e, room, names, k)}
  OBVIOUS
<1>7. 0 \in G
  <2>1. ~w[0].stop /\ w[0].found = NoLabel /\ w[0].i = e[0] /\ 1 .. 0 = {}
    BY <1>3, <1>5 DEF WalkStart
  <2> QED
    BY <1>6, <2>1 DEF WalkGood
<1>8. ASSUME NEW k \in 1 .. n, k - 1 \in G PROVE k \in G
  <2>1. k \in Nat /\ k - 1 <= n /\ k - 1 \in 0 .. n
    BY <1>1
  <2>2. WalkGood(tlvs, w[k - 1], e, room, names, k - 1)
    BY <1>6, <1>8, <2>1
  <2>3. WalkGood(tlvs, w[k], e, room, names, k)
    BY <1>1, <1>2, <1>3, <2>1, <2>2, WalkStaysGood
  <2> QED
    BY <1>6, <2>1, <2>3
<1>9. WalkGood(tlvs, w[n], e, room, names, n) /\ w[n] \in WalkState
  <2>1. n \in 0 .. n /\ n <= n
    BY <1>1
  <2>2. n \in G
    BY <1>1, <1>7, <1>8, <2>1, EveryRound
  <2> QED
    BY <1>3, <1>6, <2>1, <2>2
<1>10. found = w[n].found
  BY <1>1, <1>2 DEF FindVpce
<1>11. CASE ~w[n].stop
  BY <1>4, <1>9, <1>10, <1>11 DEF WalkGood
<1>12. CASE w[n].stop /\ w[n].found = NoLabel
  <2>1. PICK j \in 1 .. n : e[j] > room /\ \A i \in 1 .. j : i \notin names
    BY <1>9, <1>12 DEF WalkGood
  <2>2. ASSUME NEW i \in names PROVE FALSE
    <3>1. i \in 1 .. n /\ e[i] <= room
      BY <1>2, <1>4, <2>2 DEF Named
    <3>2. CASE i <= j
      BY <2>1, <2>2, <3>1, <3>2
    <3>3. CASE j <= i
      <4>1. i \in 0 .. n /\ j \in 0 .. n
        BY <3>1
      <4>2. e[j] <= e[i] /\ e[i] \in Nat /\ e[j] \in Nat
        BY <1>1, <1>2, <3>3, <4>1, EndsGrow, EndsAre
      <4> QED
        BY <2>1, <3>1, <4>2
    <3> QED
      BY <3>1, <3>2, <3>3
  <2> QED
    BY <1>10, <1>12, <2>2
<1>13. CASE w[n].stop /\ w[n].found # NoLabel
  <2>1. PICK j \in 1 .. n : /\ j \in names /\ w[n].found = tlvs[j].id
                            /\ \A i \in 1 .. j : i \in names => i = j
    BY <1>9, <1>13 DEF WalkGood
  <2>2. ASSUME NEW i \in names PROVE j <= i
    <3>1. i \in 1 .. n
      BY <1>4
    <3>2. i < j => i \in 1 .. j
      BY <3>1
    <3> QED
      BY <2>1, <3>1, <3>2
  <2> QED
    BY <1>10, <2>1, <2>2
<1> QED
  BY <1>11, <1>12, <1>13

\* Whatever TLVs a header carries and however it arrives, its label is the first
\* vpce-id that fits (ppv2.rs 100-116).
THEOREM FirstLabelWins == Spec => []LabelIsFirst
<1>1. TypeOK => LabelIsFirst
  <2> SUFFICES ASSUME TypeOK, result.tag = "ok" PROVE LabelIsFirst
    BY DEF LabelIsFirst
  <2>1. stream \in Stream /\ got \in Nat /\ result = Ppv2Parse(stream, got)
    BY StreamsAssumption, CutsAssumption DEF TypeOK
  <2>2. PICK s \in Stream : s = stream
    BY <2>1
  <2>3. PICK room : room = s.len - PREAMBLE - BlockLen(s.fam)
    OBVIOUS
  <2>4. room \in Int /\ s.tlvs \in Seq(Tlv)
    <3>1. s.tlvs \in Seq(Tlv) /\ s.len \in Nat
      BY StreamFields DEF Stream
    <3>2. BlockLen(s.fam) \in Int /\ PREAMBLE \in Int
      BY DEF BlockLen, PORTS, PREAMBLE
    <3> QED
      BY <2>3, <3>1, <3>2
  <2>5. result.header.vpce = FindVpce(s.tlvs, room)
    BY <2>1, <2>2, <2>3 DEF Ppv2Parse, Need, Invalid, Ok
  <2> QED
    BY <2>2, <2>3, <2>4, <2>5, FirstIsFound DEF LabelIsFirst
<1> QED
  BY <1>1, PeekTypes, PTL

=============================================================================
