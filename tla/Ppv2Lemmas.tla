----------------------------- MODULE Ppv2Lemmas -----------------------------
(***************************************************************************)
(* What ppv2::parse says of two prefixes of one stream (src/ppv2.rs).      *)
(***************************************************************************)
EXTENDS Ppv2, WellFoundedInduction, TLAPS

-----------------------------------------------------------------------------
(* Loops.  What a loop over n things computes is a function of the round.  *)

LEMMA LeastNatural ==
    ASSUME NEW T \in SUBSET Nat, T # {}
    PROVE  \E x \in T : \A y \in T : x <= y
<1>1. PICK R : R = OpToRel(<, Nat)
  OBVIOUS
<1>2. PICK x \in T : \A y \in T : ~(<<y, x>> \in R)
  BY <1>1, NatLessThanWellFounded, WFMin
<1>3. \A y \in Nat : <<y, x>> \in R <=> y < x
  BY <1>1 DEF OpToRel
<1>4. \A y \in T : x \in Nat /\ y \in Nat /\ ~(y < x)
  BY <1>2, <1>3
<1>5. \A y \in T : x <= y
  BY <1>4
<1> QED
  BY <1>5

\* What holds before the first round and is kept by every round.
LEMMA EveryRound ==
    ASSUME NEW n \in Nat, NEW G, 0 \in G, \A k \in 1 .. n : k - 1 \in G => k \in G
    PROVE  \A k \in 0 .. n : k \in G
<1>1. PICK T : T = {k \in Nat : k <= n /\ k \notin G}
  OBVIOUS
<1> SUFFICES ASSUME T # {} PROVE FALSE
  BY <1>1
<1>2. PICK m \in T : \A y \in T : m <= y
  BY <1>1, LeastNatural
<1>3. m \in Nat /\ m <= n /\ m \notin G /\ m # 0
  BY <1>1
<1>4. m \in 1 .. n /\ m - 1 \in Nat /\ m - 1 <= n /\ ~(m <= m - 1)
  BY <1>3
<1>5. m - 1 \in G
  BY <1>1, <1>2, <1>4
<1> QED
  BY <1>3, <1>4, <1>5

\* w is what m rounds of step make of first, round by round.
Rounds(w, m, S, first, step) ==
    /\ w \in [0 .. m -> S]
    /\ w[0] = first
    /\ \A k \in 1 .. m : w[k] = step[<<w[k - 1], k>>]

LEMMA OneMoreRound ==
    ASSUME NEW m \in Nat, NEW S, NEW first, NEW n \in Nat, m + 1 <= n,
           NEW step \in [S \X (1 .. n) -> S],
           NEW g, Rounds(g, m, S, first, step)
    PROVE  \E w : Rounds(w, m + 1, S, first, step)
<1>1. PICK last : last = step[<<g[m], m + 1>>]
  OBVIOUS
<1> m \in 0 .. m /\ m + 1 \in 1 .. n /\ 0 \in 0 .. m
  OBVIOUS
<1>2. \A k \in 0 .. m : g[k] \in S
  BY DEF Rounds
<1>3. last \in S
  BY <1>1, <1>2
<1>4. PICK w : w = [k \in 0 .. m + 1 |-> IF k <= m THEN g[k] ELSE last]
  OBVIOUS
<1>5. \A k \in 0 .. m : w[k] = g[k] /\ w[k] \in S
  <2>1. \A k \in 0 .. m : k \in 0 .. m + 1 /\ k <= m
    OBVIOUS
  <2> QED
    BY <1>2, <1>4, <2>1
<1>6. w[m + 1] = last
  BY <1>4
<1>7. w \in [0 .. m + 1 -> S]
  <2>1. \A k \in 0 .. m + 1 : k \in 0 .. m \/ k = m + 1
    OBVIOUS
  <2> QED
    BY <1>3, <1>4, <1>5, <1>6, <2>1
<1>8. ASSUME NEW k \in 1 .. m + 1 PROVE w[k] = step[<<w[k - 1], k>>]
  <2>1. CASE k = m + 1
    <3>1. k - 1 = m /\ m \in 0 .. m
      BY <2>1
    <3> QED
      BY <1>1, <1>5, <1>6, <2>1, <3>1
  <2>2. CASE k # m + 1
    <3>1. k \in 1 .. m /\ k \in 0 .. m /\ k - 1 \in 0 .. m
      BY <2>2
    <3> QED
      BY <1>5, <3>1 DEF Rounds
  <2> QED
    BY <2>1, <2>2
<1>9. w[0] = first
  BY <1>5 DEF Rounds
<1> QED
  BY <1>7, <1>8, <1>9 DEF Rounds

LEMMA LoopRuns ==
    ASSUME NEW n \in Nat, NEW S, NEW first \in S, NEW step \in [S \X (1 .. n) -> S]
    PROVE  \E w : Rounds(w, n, S, first, step)
<1>1. PICK T : T = {m \in Nat : m <= n /\ ~\E w : Rounds(w, m, S, first, step)}
  OBVIOUS
<1> SUFFICES ASSUME n \in T PROVE FALSE
  BY <1>1
<1>2. PICK m \in T : \A y \in T : m <= y
  BY <1>1, LeastNatural
<1>3. m \in Nat /\ m <= n /\ ~\E w : Rounds(w, m, S, first, step)
  BY <1>1
<1>4. m # 0
  <2>1. PICK w : w = [k \in 0 .. 0 |-> first]
    OBVIOUS
  <2>2. w \in [0 .. 0 -> S] /\ w[0] = first /\ 1 .. 0 = {}
    BY <2>1
  <2>3. Rounds(w, 0, S, first, step)
    BY <2>2 DEF Rounds
  <2> QED
    BY <1>3, <2>3
<1>5. m - 1 \in Nat /\ m - 1 <= n /\ ~(m <= m - 1) /\ (m - 1) + 1 = m
  BY <1>3, <1>4
<1>6. PICK g : Rounds(g, m - 1, S, first, step)
  BY <1>1, <1>2, <1>5
<1>7. \E w : Rounds(w, (m - 1) + 1, S, first, step)
  BY <1>3, <1>5, <1>6, OneMoreRound
<1> QED
  BY <1>3, <1>5, <1>7

-----------------------------------------------------------------------------
(* parse.                                                                  *)

\* The two fields of a stream that parse compares.
LEMMA StreamFields ==
    ASSUME NEW s \in Stream
    PROVE  s.sig \in 0 .. SIGNATURE /\ s.len \in Nat /\ PREAMBLE <= s.len
<1>1. s.sig \in 0 .. SIGNATURE /\ s.len \in PREAMBLE .. PREAMBLE + U16Max
  BY DEF Stream
<1>2. U16Max \in Nat
  BY DEF U16Max
<1> QED
  BY <1>1, <1>2 DEF PREAMBLE

\* parse on a longer prefix agrees with any verdict on a shorter one
\* (ppv2.rs 49-98).
LEMMA VerdictIsStable ==
    ASSUME NEW s \in Stream, NEW n \in Nat, NEW m \in Nat, n <= m,
           Ppv2Parse(s, n).tag # "need"
    PROVE  Ppv2Parse(s, m) = Ppv2Parse(s, n)
<1>1. s.sig \in 0 .. SIGNATURE /\ s.len \in Nat
  BY StreamFields
<1>2. CASE n < PREAMBLE
  <2>1. s.sig < n /\ s.sig < SIGNATURE
    BY <1>2 DEF Ppv2Parse, Need
  <2> QED
    BY <1>1, <1>2, <2>1 DEF Ppv2Parse, PREAMBLE, SIGNATURE
<1>3. CASE ~(n < PREAMBLE)
  <2>1. ~(m < PREAMBLE)
    BY <1>3 DEF PREAMBLE
  <2>2. CASE s.sig < SIGNATURE \/ ~s.proxy \/ s.len > MAX_HEADER
    BY <1>3, <2>1, <2>2 DEF Ppv2Parse
  <2>3. CASE ~(s.sig < SIGNATURE \/ ~s.proxy \/ s.len > MAX_HEADER)
    <3>1. ~(n < s.len)
      BY <1>3, <2>3 DEF Ppv2Parse, Need
    <3>2. ~(m < s.len)
      BY <1>1, <3>1
    <3> QED
      BY <1>3, <2>1, <2>3, <3>1, <3>2 DEF Ppv2Parse
  <2> QED
    BY <2>2, <2>3
<1> QED
  BY <1>2, <1>3

\* What a Need asks for: more than is there, never above the cap, and the
\* declared length next (ppv2.rs 51-69).
LEMMA NeedAsksAhead ==
    ASSUME NEW s \in Stream, NEW n \in Nat, Ppv2Parse(s, n).tag = "need"
    PROVE  LET want == Ppv2Parse(s, n).want
               next == Ppv2Parse(s, want)
           IN /\ want \in Nat /\ n < want /\ want <= MAX_HEADER
              /\ next.tag = "need" => want = PREAMBLE /\ next.want = s.len
<1>1. s.sig \in 0 .. SIGNATURE /\ s.len \in Nat /\ PREAMBLE <= s.len
  BY StreamFields
<1>2. CASE n < PREAMBLE
  <2>1. Ppv2Parse(s, n) = Need(PREAMBLE)
    BY <1>2 DEF Ppv2Parse, Invalid
  <2>2. Ppv2Parse(s, PREAMBLE).tag = "need" => Ppv2Parse(s, PREAMBLE) = Need(s.len)
    BY <1>1 DEF Ppv2Parse, PREAMBLE, Invalid, Ok
  <2> QED
    BY <1>2, <2>1, <2>2 DEF Need, PREAMBLE, MAX_HEADER
<1>3. CASE ~(n < PREAMBLE)
  <2>1. /\ ~(s.sig < SIGNATURE \/ ~s.proxy \/ s.len > MAX_HEADER)
        /\ n < s.len
        /\ Ppv2Parse(s, n) = Need(s.len)
    BY <1>3 DEF Ppv2Parse, Invalid, Ok
  <2>2. Ppv2Parse(s, s.len).tag # "need"
    BY <1>1, <2>1 DEF Ppv2Parse, Invalid, Ok, PREAMBLE
  <2> QED
    BY <1>1, <2>1, <2>2 DEF Need, MAX_HEADER
<1> QED
  BY <1>2, <1>3

\* An accepted header is the one at its declared length, and has that length
\* (ppv2.rs 66-98).
LEMMA OkIsWhole ==
    ASSUME NEW s \in Stream, NEW n \in Nat, Ppv2Parse(s, n).tag = "ok"
    PROVE  /\ Ppv2Parse(s, n) = Ppv2Parse(s, s.len)
           /\ Ppv2Parse(s, n).header.len \in Nat
<1>1. s.sig \in 0 .. SIGNATURE /\ s.len \in Nat /\ PREAMBLE <= s.len
  BY StreamFields
<1>2. /\ ~(n < PREAMBLE) /\ ~(s.sig < SIGNATURE \/ ~s.proxy \/ s.len > MAX_HEADER)
      /\ ~(n < s.len) /\ ~(s.fam = "other" \/ s.len < PREAMBLE + BlockLen(s.fam))
  BY DEF Ppv2Parse, Need, Invalid
<1>3. ~(s.len < PREAMBLE) /\ ~(s.len < s.len)
  BY <1>1 DEF PREAMBLE
<1>4. Ppv2Parse(s, n) = Ppv2Parse(s, s.len)
  BY <1>2, <1>3 DEF Ppv2Parse
<1>5. Ppv2Parse(s, n).header.len = s.len
  BY <1>2 DEF Ppv2Parse, Ok
<1> QED
  BY <1>1, <1>4, <1>5

=============================================================================
