------------------------------ MODULE UdpProofs -----------------------------
(***************************************************************************)
(* Loading and the UDP filter for any number of listeners, updates,        *)
(* workers and datagrams: what listeners run, forwarding, dropping and the *)
(* counters.                                                               *)
(*                                                                         *)
(* Two invariants side by side: what a listener runs and what an update    *)
(* under way is going to make of it (LoadGood), and one record of facts    *)
(* per datagram (GoodDatagram), with a worker in one callback at a time.   *)
(***************************************************************************)
EXTENDS Udp, EnforcementProofs, Ppv2Lemmas, FiniteSetTheorems, TLAPS

-----------------------------------------------------------------------------
(* What is known of filters, with tables L and rules R.                    *)

\* A judging filter has rules; a carrier has published its table.
GoodFilter(f, L, R) ==
    /\ f.cfg # NoConfig => R[f.cfg] # Unparsed
    /\ f.name \in {"ppv2_auth", "ppv2", "auth"} => f.cfg # NoConfig
    /\ f.name = "table" => Len(L) # 0

AllGood(s, L, R) == \A i \in DOMAIN s : GoodFilter(s[i], L, R)

\* A filter as RunsWhatWasLawful shows it, and a config as an update means it.
Shown(f, R) == [name |-> f.name, rules |-> IF f.cfg = NoConfig THEN Unparsed ELSE R[f.cfg]]
Wanted(l, f) == IF Lawful(l, f) THEN Promised(f) ELSE Denying

ShownAll(s, R) == [i \in DOMAIN s |-> Shown(s[i], R)]

\* What listener l runs once an update is through: filters built, filters to go.
Outcome(l, built, todo, R) ==
    [i \in 1 .. Len(built) + Len(todo) |->
        IF i <= Len(built) THEN Shown(built[i], R) ELSE Wanted(l, todo[i - Len(built)])]

\* The update is not going to be rejected.
GoesThrough(l, todo) ==
    Protocol[l] = "udp" \/ \A i \in DOMAIN todo : Lawful(l, todo[i])

Changing(l) == loading # NoLoad /\ loading.of = l /\ GoesThrough(l, loading.todo)

LoadType ==
    /\ listener \in [Listeners -> Seq(Filters)]
    /\ loading \in Load \union {NoLoad}
    /\ due = [l \in Listeners |-> due[l]]

LoadFilters ==
    /\ \A l \in Listeners : AllGood(listener[l], log, raw)
    /\ loading # NoLoad => AllGood(loading.built, log, raw)

LoadDue ==
    \A l \in Listeners :
        due[l] = IF Changing(l) THEN Outcome(l, loading.built, loading.todo, raw)
                 ELSE ShownAll(listener[l], raw)

\* The table due is in force, or will be when the carriers to go have landed.
LoadCarried ==
    carried = IF loading = NoLoad THEN Published
              ELSE InForce(loading.of, loading.todo, Published)

LoadGood == LoadType /\ LoadFilters /\ LoadDue /\ LoadCarried

-----------------------------------------------------------------------------
(* Packets.                                                                *)

LEMMA SumIsNumber ==
    ASSUME NEW c \in Seq(Nat)
    PROVE  Sums(c)[Len(c)] \in Nat
<1>1. PICK n \in Nat : n = Len(c)
  OBVIOUS
<1>2. \A k \in 1 .. n : c[k] \in Nat
  BY <1>1
<1>3. PICK step : step = [p \in Nat \X (1 .. n) |-> p[1] + c[p[2]]]
  OBVIOUS
<1>4. step \in [Nat \X (1 .. n) -> Nat]
  <2>1. ASSUME NEW p \in Nat \X (1 .. n) PROVE p[1] + c[p[2]] \in Nat
    BY <1>2
  <2> QED
    BY <1>3, <2>1
<1>5. PICK u : Rounds(u, n, Nat, 0, step)
  BY <1>4, LoopRuns
<1>6. ASSUME NEW k \in 1 .. n PROVE u[k] = u[k - 1] + c[k]
  <2>1. k - 1 \in 0 .. n
    OBVIOUS
  <2>2. u[k - 1] \in Nat
    BY <1>5, <2>1 DEF Rounds
  <2>3. step[<<u[k - 1], k>>] = u[k - 1] + c[k]
    BY <1>3, <2>2
  <2> QED
    BY <1>5, <2>3 DEF Rounds
<1>7. u = [k \in 0 .. n |-> IF k = 0 THEN 0 ELSE u[k - 1] + c[k]]
  <2>1. \A k \in 0 .. n : k = 0 \/ k \in 1 .. n
    OBVIOUS
  <2>2. u \in [0 .. n -> Nat] /\ u[0] = 0
    BY <1>5 DEF Rounds
  <2> QED
    BY <1>6, <2>1, <2>2
<1>8. PICK s : s = Sums(c)
  OBVIOUS
<1>9. s = [k \in 0 .. n |-> IF k = 0 THEN 0 ELSE s[k - 1] + c[k]]
  BY <1>1, <1>7, <1>8, Zenon DEF Sums
<1>10. s[0] = 0 /\ \A k \in 1 .. n : s[k] = s[k - 1] + c[k]
  <2>1. 0 \in 0 .. n /\ \A k \in 1 .. n : k \in 0 .. n /\ k # 0
    OBVIOUS
  <2> QED
    BY <1>9, <2>1
<1>11. PICK G : G = {k \in Nat : s[k] \in Nat}
  OBVIOUS
<1>12. 0 \in G
  BY <1>10, <1>11
<1>13. ASSUME NEW k \in 1 .. n, k - 1 \in G PROVE k \in G
  <2>1. s[k - 1] \in Nat /\ c[k] \in Nat /\ k \in Nat
    BY <1>2, <1>11, <1>13
  <2>2. s[k] \in Nat
    BY <1>10, <2>1
  <2> QED
    BY <1>11, <2>1, <2>2
<1>14. n \in G
  <2>1. n \in 0 .. n
    OBVIOUS
  <2> QED
    BY <1>12, <1>13, <2>1, EveryRound
<1> QED
  BY <1>1, <1>8, <1>11, <1>14

LEMMA PacketIs == ASSUME NEW p \in Packets PROVE p.stream \in Stream /\ Total(p) \in Nat
BY PacketsAssumption, SumIsNumber DEF Total

-----------------------------------------------------------------------------
(* What is known of datagrams.                                             *)

\* A whole header was read and turned into the identity under a table L has.
HeaderKept(x, L) ==
    /\ Parsed(x.packet).tag = "ok"
    /\ x.labelGen # 0 /\ x.labelGen \in x.born .. Len(L)
    /\ x.id = Synthesize(TableAt(L, x.labelGen), Parsed(x.packet).header)

AllowsIn(x, L, R, g) == <<NoName, x.id>> \in JudgeAgainst(R[x.cfg], TableAt(L, g))

\* What was labelled, forwarded and dropped so far.
History(d, x, L, R) ==
    /\ x.born <= Len(L) /\ x.window \subseteq 0 .. Len(L)
    /\ x.pc # "done" <=> x.fate = "none"
    /\ x.pc # "done" => x.why = "none"
    /\ x.pc # "done" \/ x.why \in {"allowed", "denied"} =>
          x.cfg \in Configs /\ R[x.cfg] # Unparsed
    /\ x.pc # "done" \/ x.why = "allowed" => HeaderKept(x, L)
    /\ x.why = "allowed" =>
          /\ x.sent = <<Bytes(d, Parsed(x.packet).header.len, Total(x.packet))>>
          /\ \E g \in x.window : AllowsIn(x, L, R, g)
    /\ x.why = "not_ppv2" => Parsed(x.packet).tag # "ok"
    /\ x.why = "denied" => \E g \in x.window : ~AllowsIn(x, L, R, g)
    /\ x.why = "no_table" => x.born = 0
    /\ x.fate = "forwarded" => Len(L) # 0

\* The call c of permits() asks for this datagram.
Asking(x, L, R, c) ==
    x.pc = "permits" =>
        /\ c \in Call /\ c.cfg = x.cfg /\ c.query = <<NoName, x.id>>
        /\ c.verdict = "allow" => \E g \in x.window : AllowsIn(x, L, R, g)
        /\ c.verdict = "deny" => \E g \in x.window : ~AllowsIn(x, L, R, g)

GoodDatagram(d, x, L, R, c) == History(d, x, L, R) /\ Asking(x, L, R, c)

\* No other datagram of worker w is in a callback.
Alone(d, w) == \A e \in Arrived : e # d /\ dgram[e].worker = w => dgram[e].pc = "done"

Exclusive == \A d \in Arrived : dgram[d].pc # "done" => Alone(d, dgram[d].worker)

Core ==
    /\ filter \in [Workers -> Instance \union {NoFilter}]
    /\ dgram \in [Datagrams -> Datagram \union {NotSent}]
    /\ \A w \in Workers : filter[w] # NoFilter => GoodFilter(filter[w], log, raw)
    /\ Exclusive
    /\ \A d \in Arrived :
          /\ filter[dgram[d].worker] # NoFilter
          /\ GoodDatagram(d, dgram[d], log, raw, call[dgram[d].worker])

Counting == counters \in [Stats -> Nat] /\ UdpCountersTally

UInv == EnforceInv /\ LoadGood /\ Core /\ Counting

-----------------------------------------------------------------------------
(* Filters and rules.                                                      *)

\* The loaders accept exactly what the documentation allows.
LEMMA AcceptsIsLawful ==
    ASSUME NEW l \in Listeners, NEW f \in Entries
    PROVE  Accepts(l, f) <=> Lawful(l, f)
<1>1. FilterNames(l) \subseteq {"ppv2_auth", "ppv2", "auth", "table"}
  BY DEF FilterNames
<1>2. \A i \in DOMAIN f.body.scopes : f.body.scopes[i] \in Nat
  BY EntriesAssumption
<1>3. CASE f.name = "table"
  BY <1>3 DEF Accepts, Lawful, ParseTable, Readable, TableFields, Written, Applied
<1>4. CASE f.name = "ppv2_auth"
  BY <1>4 DEF Accepts, Lawful, Readable, RuleFields, Validates, HasScopes, Written, Applied
<1>5. CASE f.name = "ppv2"
  BY <1>5 DEF Accepts, Lawful, Readable, RuleFields, Validates, HasScopes, HasAllow,
              Written, Applied
<1>6. CASE f.name = "auth"
  BY <1>2, <1>6 DEF Accepts, Lawful, Readable, RuleFields, Validates, HasScopes, HasAllow,
                    HasNamelessScope, Written, Applied
<1>7. CASE f.name \notin {"ppv2_auth", "ppv2", "auth", "table"}
  BY <1>1, <1>7 DEF Accepts, Lawful
<1> QED
  BY <1>3, <1>4, <1>5, <1>6, <1>7

\* More tables and more Configs change nothing of a filter that is there.
LEMMA FilterGrows ==
    ASSUME EnforceInv, EnforceInv', Grows, NEW f,
           f.cfg \in Configs \union {NoConfig}, GoodFilter(f, log, raw)
    PROVE  GoodFilter(f, log', raw') /\ Shown(f, raw') = Shown(f, raw)
<1>1. Len(log) \in Nat /\ Len(log') \in Nat /\ Len(log) <= Len(log')
  BY LenLog DEF EnforceInv, Grows
<1>2. f.cfg # NoConfig => raw[f.cfg] # Unparsed /\ raw'[f.cfg] = raw[f.cfg]
  BY DEF GoodFilter, Grows
<1> QED
  BY <1>1, <1>2 DEF GoodFilter, Shown

LEMMA FiltersGrow ==
    ASSUME EnforceInv, EnforceInv', Grows, NEW s \in Seq(Filters), AllGood(s, log, raw)
    PROVE  /\ AllGood(s, log', raw')
           /\ \A i \in DOMAIN s : Shown(s[i], raw') = Shown(s[i], raw)
<1>1. ASSUME NEW i \in DOMAIN s
      PROVE  GoodFilter(s[i], log', raw') /\ Shown(s[i], raw') = Shown(s[i], raw)
  <2>1. s[i] \in Filters
    OBVIOUS
  <2>2. s[i].cfg \in Configs \union {NoConfig}
    BY <2>1 DEF Filters
  <2> QED
    BY <2>2, FilterGrows DEF AllGood
<1> QED
  BY <1>1 DEF AllGood

LEMMA OutcomeGrows ==
    ASSUME EnforceInv, EnforceInv', Grows, NEW s \in Seq(Filters), AllGood(s, log, raw),
           NEW l, NEW S, NEW todo \in Seq(S)
    PROVE  /\ ShownAll(s, raw') = ShownAll(s, raw)
           /\ Outcome(l, s, todo, raw') = Outcome(l, s, todo, raw)
<1>1. \A i \in DOMAIN s : Shown(s[i], raw') = Shown(s[i], raw)
  BY FiltersGrow
<1>2. /\ Len(s) \in Nat /\ Len(todo) \in Nat /\ DOMAIN s = 1 .. Len(s)
      /\ \A i \in 1 .. Len(s) + Len(todo) : i <= Len(s) => i \in DOMAIN s
  OBVIOUS
<1> QED
  BY <1>1, <1>2 DEF ShownAll, Outcome

\* Calls and datagrams while nothing is loaded.
LEMMA LoadingGrows ==
    ASSUME EnforceInv, EnforceInv', Grows, LoadGood, UNCHANGED loadVars, log' = log
    PROVE  LoadGood'
<1>1. listener' = listener /\ loading' = loading /\ due' = due /\ carried' = carried
  BY DEF loadVars
<1>2. LoadType'
  BY <1>1 DEF LoadGood, LoadType
<1>3. \A l \in Listeners : listener[l] \in Seq(Filters) /\ AllGood(listener[l], log, raw)
  BY DEF LoadGood, LoadType, LoadFilters
<1>4. loading # NoLoad => /\ loading.built \in Seq(Filters) /\ loading.todo \in Seq(Entries)
                          /\ AllGood(loading.built, log, raw)
  BY DEF LoadGood, LoadType, LoadFilters, Load
<1>5. LoadFilters'
  BY <1>1, <1>3, <1>4, FiltersGrow DEF LoadFilters
<1>6. ASSUME NEW l \in Listeners
      PROVE  /\ ShownAll(listener[l], raw') = ShownAll(listener[l], raw)
             /\ loading # NoLoad => Outcome(l, loading.built, loading.todo, raw')
                                       = Outcome(l, loading.built, loading.todo, raw)
  <2>1. ShownAll(listener[l], raw') = ShownAll(listener[l], raw)
    <3>1. <<>> \in Seq(Entries)
      OBVIOUS
    <3> QED
      BY <1>3, <3>1, OutcomeGrows
  <2>2. loading # NoLoad => Outcome(l, loading.built, loading.todo, raw')
                                       = Outcome(l, loading.built, loading.todo, raw)
    BY <1>4, OutcomeGrows
  <2> QED
    BY <2>1, <2>2
<1>7. LoadDue'
  BY <1>1, <1>6 DEF LoadGood, LoadDue, Changing
<1>8. LoadCarried'
  BY <1>1 DEF LoadGood, LoadCarried, Published, TableAt
<1> QED
  BY <1>2, <1>5, <1>7, <1>8 DEF LoadGood

-----------------------------------------------------------------------------
(* Loading an update.                                                      *)

\* The update under way.
LEMMA LoadInHand ==
    ASSUME LoadGood, loading # NoLoad
    PROVE  /\ loading \in Load /\ loading.of \in Listeners
           /\ loading.todo \in Seq(Entries) /\ loading.built \in Seq(Filters)
           /\ AllGood(loading.built, log, raw)
BY DEF LoadGood, LoadType, LoadFilters, Load

\* The last carrier that lands is the one whose table stays.
LEMMA LastLands ==
    ASSUME NEW l, NEW chain, NEW t, DOMAIN chain \subseteq Nat,
           NEW b \in Lands(l, chain), \A j \in Lands(l, chain) : j <= b
    PROVE  InForce(l, chain, t) = chain[b].body.table
<1>1. PICK I : I = Lands(l, chain)
  OBVIOUS
<1>2. I \subseteq Nat
  BY <1>1 DEF Lands
<1>3. PICK c : c = CHOOSE i \in I : \A j \in I : j <= i
  OBVIOUS
<1>4. c \in I /\ \A j \in I : j <= c
  BY <1>1, <1>3, Zenon
<1>5. c = b
  BY <1>1, <1>2, <1>4
<1> QED
  BY <1>1, <1>3, <1>5, Zenon DEF InForce

\* The head of a chain, once built: what the chain leaves in force is what the rest
\* of it does, where the head's own table is already there.
LEMMA HeadLands ==
    ASSUME NEW l \in Listeners, NEW todo \in Seq(Entries), todo # <<>>, NEW t,
           Protocol[l] = "udp" \/ Lawful(l, todo[1])
    PROVE  InForce(l, todo, t) =
               InForce(l, Tail(todo),
                       IF todo[1].name = "table" /\ Lawful(l, todo[1])
                       THEN todo[1].body.table ELSE t)
<1>1. PICK n : n = Len(todo)
  OBVIOUS
<1>2. /\ n \in Nat /\ n # 0 /\ DOMAIN todo = 1 .. n /\ DOMAIN Tail(todo) = 1 .. n - 1
      /\ \A i \in 1 .. n - 1 : Tail(todo)[i] = todo[i + 1]
      /\ \A i \in 1 .. n - 1 : i + 1 \in 1 .. n /\ i + 1 # 1
      /\ \A i \in 1 .. n : i = 1 \/ i - 1 \in 1 .. n - 1
  BY <1>1
<1>3. PICK A : A = Lands(l, todo)
  OBVIOUS
<1>4. PICK B : B = Lands(l, Tail(todo))
  OBVIOUS
<1>5. A \subseteq 1 .. n /\ B \subseteq 1 .. n - 1
  BY <1>2, <1>3, <1>4 DEF Lands
<1>6. 1 \in A <=> todo[1].name = "table" /\ Lawful(l, todo[1])
  <2>1. 1 \in DOMAIN todo /\ \A j \in 1 .. 1 : j = 1
    BY <1>2
  <2> QED
    BY <1>3, <2>1 DEF Lands
<1>7. ASSUME NEW i \in 1 .. n - 1 PROVE i \in B <=> i + 1 \in A
  <2>1. (\A j \in 1 .. i : Lawful(l, Tail(todo)[j])) /\ Lawful(l, todo[1])
            <=> \A j \in 1 .. i + 1 : Lawful(l, todo[j])
    <3>1. \A j \in 1 .. i + 1 : j = 1 \/ (j - 1 \in 1 .. i /\ (j - 1) + 1 = j)
      BY <1>2
    <3>2. \A j \in 1 .. i : j + 1 \in 1 .. i + 1 /\ j \in 1 .. n - 1
      BY <1>2
    <3>3. 1 \in 1 .. i + 1
      BY <1>2
    <3>4. ASSUME \A j \in 1 .. i : Lawful(l, Tail(todo)[j]), Lawful(l, todo[1]),
                 NEW j \in 1 .. i + 1
          PROVE  Lawful(l, todo[j])
      <4>1. CASE j = 1
        BY <3>4, <4>1
      <4>2. CASE j # 1
        <5>1. j - 1 \in 1 .. i /\ (j - 1) + 1 = j /\ j - 1 \in 1 .. n - 1
          BY <3>1, <3>2, <4>2
        <5>2. Tail(todo)[j - 1] = todo[j]
          BY <1>2, <5>1
        <5>3. Lawful(l, Tail(todo)[j - 1])
          BY <3>4, <5>1
        <5> QED
          BY <5>2, <5>3
      <4> QED
        BY <4>1, <4>2
    <3>5. ASSUME \A j \in 1 .. i + 1 : Lawful(l, todo[j]), NEW j \in 1 .. i
          PROVE  Lawful(l, Tail(todo)[j])
      BY <1>2, <3>2, <3>5
    <3> QED
      BY <3>3, <3>4, <3>5
  <2>2. /\ i \in DOMAIN Tail(todo) /\ i + 1 \in DOMAIN todo
        /\ Tail(todo)[i] = todo[i + 1]
    BY <1>2
  <2>3. Protocol[l] = "tcp" => Lawful(l, todo[1])
    OBVIOUS
  <2> QED
    BY <1>3, <1>4, <2>1, <2>2, <2>3 DEF Lands
<1>8. CASE B = {}
  <2>1. A \subseteq {1}
    <3>1. ASSUME NEW i \in A, i # 1 PROVE FALSE
      <4>1. i - 1 \in 1 .. n - 1 /\ (i - 1) + 1 = i
        BY <1>2, <1>5, <3>1
      <4> QED
        BY <1>7, <1>8, <3>1, <4>1
    <3> QED
      BY <3>1
  <2>2. CASE 1 \in A
    <3>1. 1 \in A /\ \A j \in A : j <= 1
      BY <2>1, <2>2
    <3>2. InForce(l, todo, t) = todo[1].body.table
      BY <1>3, <3>1, LastLands
    <3>3. \A s : InForce(l, Tail(todo), s) = s
      BY <1>4, <1>8 DEF InForce
    <3> QED
      BY <1>6, <2>2, <3>2, <3>3
  <2>3. CASE 1 \notin A
    <3>1. A = {}
      BY <2>1, <2>3
    <3>2. \A s : InForce(l, todo, s) = s /\ InForce(l, Tail(todo), s) = s
      BY <1>3, <1>4, <1>8, <3>1 DEF InForce
    <3> QED
      BY <1>6, <2>3, <3>2
  <2> QED
    BY <2>2, <2>3
<1>9. CASE B # {}
  <2>1. PICK b \in B : \A j \in B : j <= b
    <3>1. PICK T : T = {k \in Nat : n - k \in B}
      OBVIOUS
    <3>2. \A i \in B : n - i \in T
      <4>1. \A i \in 1 .. n - 1 : n - i \in Nat /\ n - (n - i) = i
        BY <1>2
      <4> QED
        BY <1>5, <3>1, <4>1
    <3>3. PICK k \in T : \A y \in T : k <= y
      BY <1>9, <3>1, <3>2, LeastNatural
    <3>4. \A i \in B : i <= n - k
      <4>1. k \in Nat /\ \A i \in B : i \in 1 .. n - 1 /\ k <= n - i
        BY <1>5, <3>1, <3>2, <3>3
      <4> QED
        BY <1>2, <4>1
    <3>5. n - k \in B
      BY <3>1, <3>3
    <3>6. PICK b : b = n - k
      OBVIOUS
    <3> QED
      BY <3>4, <3>5, <3>6
  <2>2. ASSUME NEW s PROVE InForce(l, Tail(todo), s) = Tail(todo)[b].body.table
    <3>1. PICK rest : rest = Tail(todo)
      OBVIOUS
    <3>2. DOMAIN rest \subseteq Nat
      BY <1>2, <3>1
    <3>3. b \in Lands(l, rest) /\ \A j \in Lands(l, rest) : j <= b
      BY <1>4, <2>1, <3>1
    <3>4. InForce(l, rest, s) = rest[b].body.table
      BY <3>2, <3>3, LastLands
    <3> QED
      BY <3>1, <3>4
  <2>3. b \in 1 .. n - 1 /\ b + 1 \in A /\ \A j \in A : j \in 1 .. n /\ j <= b + 1
    <3>1. b \in 1 .. n - 1 /\ b + 1 \in A
      BY <1>5, <1>7, <2>1
    <3>2. ASSUME NEW j \in A PROVE j \in 1 .. n /\ j <= b + 1
      <4>1. j \in 1 .. n
        BY <1>5
      <4>2. CASE j = 1
        BY <1>2, <3>1, <4>2
      <4>3. CASE j # 1
        <5>1. j - 1 \in 1 .. n - 1 /\ (j - 1) + 1 = j
          BY <1>2, <4>1, <4>3
        <5>2. j - 1 \in B
          BY <1>7, <5>1
        <5>3. j - 1 <= b
          BY <2>1, <5>2
        <5> QED
          BY <1>2, <3>1, <4>1, <5>3
      <4> QED
        BY <4>1, <4>2, <4>3
    <3> QED
      BY <3>1, <3>2
  <2>4. InForce(l, todo, t) = todo[b + 1].body.table
    BY <1>2, <1>3, <2>3, LastLands
  <2>5. Tail(todo)[b] = todo[b + 1]
    BY <1>2, <2>3
  <2> QED
    BY <2>2, <2>4, <2>5
<1> QED
  BY <1>8, <1>9

\* No chain, or a TCP chain rejected at its head, leaves the table as it was.
LEMMA NothingLands ==
    ASSUME NEW l, NEW todo \in Seq(Entries), NEW t,
           todo = <<>> \/ (Protocol[l] = "tcp" /\ ~Lawful(l, todo[1]))
    PROVE  InForce(l, todo, t) = t
<1>1. ASSUME NEW i \in DOMAIN todo PROVE todo # <<>> /\ 1 \in 1 .. i
  OBVIOUS
<1>2. Lands(l, todo) = {}
  BY <1>1 DEF Lands
<1> QED
  BY <1>2 DEF InForce

LEMMA UpdateStep ==
    ASSUME LoadGood, NEW u \in Updates, Update(u)
    PROVE  LoadGood'
<1>1. u.of \in Listeners /\ u.chain \in Seq(Entries)
  BY UpdatesAssumption
<1>2. PICK n : n = [of |-> u.of, todo |-> u.chain, built |-> <<>>]
  OBVIOUS
<1>3. /\ n \in Load /\ n # NoLoad
      /\ n.of = u.of /\ n.todo = u.chain /\ n.built = <<>>
  <2>1. <<>> \in Seq(Filters)
    OBVIOUS
  <2>2. n \in Load /\ n.of = u.of /\ n.todo = u.chain /\ n.built = <<>>
    BY <1>1, <1>2, <2>1 DEF Load
  <2> QED
    BY <2>2, LoadAssumption
<1>4. /\ loading = NoLoad /\ loading' = n /\ listener' = listener /\ raw' = raw /\ log' = log
  BY <1>2 DEF Update
<1>5. PICK was : was = due[u.of]
  OBVIOUS
<1>6. PICK new : new =
          IF Protocol[u.of] = "udp"
          THEN [i \in DOMAIN u.chain |->
                   IF Lawful(u.of, u.chain[i]) THEN Promised(u.chain[i]) ELSE Denying]
          ELSE IF \A i \in DOMAIN u.chain : Lawful(u.of, u.chain[i])
               THEN [i \in DOMAIN u.chain |-> Promised(u.chain[i])]
               ELSE was
  OBVIOUS
<1>7. due' = [due EXCEPT ![u.of] = new]
  BY <1>5, <1>6 DEF Update
<1>8. /\ due'[u.of] = new /\ \A l \in Listeners : l # u.of => due'[l] = due[l]
      /\ due' = [l \in Listeners |-> due'[l]]
  BY <1>1, <1>7 DEF LoadGood, LoadType
<1>9. \A l \in Listeners : due[l] = ShownAll(listener[l], raw)
  BY <1>4 DEF LoadGood, LoadDue, Changing
<1>10. new = IF GoesThrough(u.of, u.chain) THEN Outcome(u.of, <<>>, u.chain, raw) ELSE was
  <2>1. Outcome(u.of, <<>>, u.chain, raw) = [i \in DOMAIN u.chain |-> Wanted(u.of, u.chain[i])]
    <3>1. Len(u.chain) \in Nat /\ DOMAIN u.chain = 1 .. Len(u.chain) /\ Len(<<>>) = 0
      BY <1>1
    <3>2. \A i \in 1 .. Len(u.chain) : ~(i <= 0) /\ i - 0 = i
      BY <3>1
    <3>3. 1 .. 0 + Len(u.chain) = 1 .. Len(u.chain)
      BY <3>1
    <3> QED
      BY <3>1, <3>2, <3>3 DEF Outcome
  <2> QED
    BY <1>6, <2>1 DEF GoesThrough, Wanted
<1>11. LoadType'
  BY <1>3, <1>4, <1>8 DEF LoadGood, LoadType
<1>12. LoadFilters'
  BY <1>3, <1>4 DEF LoadGood, LoadFilters, AllGood
<1>13. LoadDue'
  BY <1>3, <1>4, <1>5, <1>8, <1>9, <1>10 DEF LoadDue, Changing
<1>14. LoadCarried'
  <2>1. carried = Published /\ Published' = Published
    BY <1>4 DEF LoadGood, LoadCarried, Published, TableAt
  <2>2. carried' = InForce(u.of, u.chain, carried)
    BY DEF Update
  <2> QED
    BY <1>3, <1>4, <2>1, <2>2 DEF LoadCarried
<1> QED
  BY <1>11, <1>12, <1>13, <1>14 DEF LoadGood

\* A filter g is built for the next config; it shows what the config means.
LEMMA BuildStep ==
    ASSUME EnforceInv, EnforceInv', Grows, LoadGood, loading # NoLoad, loading.todo # <<>>,
           NEW g \in Filters, GoodFilter(g, log', raw'), Build(g),
           listener' = listener, due' = due, carried' = carried,
           Published' = (IF Loaded.name = "table" /\ Lawful(loading.of, Loaded)
                         THEN Loaded.body.table ELSE Published),
           Shown(g, raw') = Wanted(loading.of, Loaded),
           Protocol[loading.of] = "udp" \/ Lawful(loading.of, Loaded)
    PROVE  LoadGood'
<1>1. PICK l, built, todo : l = loading.of /\ built = loading.built /\ todo = loading.todo
  OBVIOUS
<1>2. /\ loading \in Load /\ l \in Listeners /\ todo \in Seq(Entries) /\ built \in Seq(Filters)
      /\ AllGood(built, log, raw) /\ todo # <<>>
  BY <1>1, LoadInHand
<1>3. PICK n : n = [loading EXCEPT !.built = Append(built, g), !.todo = Tail(todo)]
  OBVIOUS
<1>4. loading' = n
  BY <1>1, <1>3 DEF Build
<1>5. Append(built, g) \in Seq(Filters) /\ Tail(todo) \in Seq(Entries)
  BY <1>2
<1>6. /\ n \in Load /\ n.of = l /\ n.built = Append(built, g) /\ n.todo = Tail(todo)
  BY <1>1, <1>2, <1>3, <1>5 DEF Load
<1>7. n # NoLoad
  BY <1>6, LoadAssumption
<1>8. /\ Len(built) \in Nat /\ Len(todo) \in Nat /\ Len(todo) # 0
      /\ Len(Append(built, g)) = Len(built) + 1 /\ Len(Tail(todo)) = Len(todo) - 1
      /\ DOMAIN built = 1 .. Len(built)
      /\ DOMAIN todo = 1 .. Len(todo) /\ DOMAIN Tail(todo) = 1 .. Len(todo) - 1
      /\ \A i \in 1 .. Len(built) : Append(built, g)[i] = built[i]
      /\ Append(built, g)[Len(built) + 1] = g
      /\ DOMAIN Append(built, g) = 1 .. Len(built) + 1
      /\ \A i \in 1 .. Len(todo) - 1 : Tail(todo)[i] = todo[i + 1]
      /\ Loaded = todo[1]
  BY <1>1, <1>2 DEF Loaded
<1>9. /\ AllGood(built, log', raw')
      /\ \A i \in DOMAIN built : Shown(built[i], raw') = Shown(built[i], raw)
  BY <1>2, FiltersGrow
<1>10. AllGood(Append(built, g), log', raw')
  <2>1. \A i \in 1 .. Len(built) + 1 : i \in 1 .. Len(built) \/ i = Len(built) + 1
    BY <1>8
  <2> QED
    BY <1>8, <1>9, <2>1 DEF AllGood
<1>11. GoesThrough(l, Tail(todo)) <=> GoesThrough(l, todo)
  <2>1. CASE Protocol[l] = "udp"
    BY <2>1 DEF GoesThrough
  <2>2. CASE Protocol[l] # "udp"
    <3>1. Lawful(l, todo[1])
      BY <1>1, <1>8, <2>2
    <3>2. \A i \in 1 .. Len(todo) : i = 1 \/ (i - 1 \in 1 .. Len(todo) - 1 /\ (i - 1) + 1 = i)
      BY <1>8
    <3>3. \A i \in 1 .. Len(todo) - 1 : i + 1 \in 1 .. Len(todo)
      BY <1>8
    <3>4. ASSUME \A i \in DOMAIN Tail(todo) : Lawful(l, Tail(todo)[i]), NEW j \in DOMAIN todo
          PROVE  Lawful(l, todo[j])
      <4>1. CASE j = 1
        BY <3>1, <4>1
      <4>2. CASE j # 1
        <5>1. j - 1 \in DOMAIN Tail(todo) /\ Tail(todo)[j - 1] = todo[j]
          BY <1>8, <3>2, <4>2
        <5> QED
          BY <3>4, <5>1
      <4> QED
        BY <4>1, <4>2
    <3>5. ASSUME \A i \in DOMAIN todo : Lawful(l, todo[i]), NEW j \in DOMAIN Tail(todo)
          PROVE  Lawful(l, Tail(todo)[j])
      BY <1>8, <3>3, <3>5
    <3> QED
      BY <2>2, <3>4, <3>5 DEF GoesThrough
  <2> QED
    BY <2>1, <2>2
<1>12. Outcome(l, Append(built, g), Tail(todo), raw') = Outcome(l, built, todo, raw)
  <2>1. Len(Append(built, g)) + Len(Tail(todo)) = Len(built) + Len(todo)
    BY <1>8
  <2>2. ASSUME NEW i \in 1 .. Len(built) + Len(todo)
        PROVE  (IF i <= Len(Append(built, g)) THEN Shown(Append(built, g)[i], raw')
                ELSE Wanted(l, Tail(todo)[i - Len(Append(built, g))]))
               = (IF i <= Len(built) THEN Shown(built[i], raw)
                  ELSE Wanted(l, todo[i - Len(built)]))
    <3>1. CASE i <= Len(built)
      <4>1. i \in 1 .. Len(built) /\ i <= Len(built) + 1
        BY <1>8, <3>1
      <4> QED
        BY <1>8, <1>9, <3>1, <4>1
    <3>2. CASE i = Len(built) + 1
      <4>1. ~(i <= Len(built)) /\ i - Len(built) = 1 /\ i <= Len(built) + 1
        BY <1>8, <3>2
      <4>2. Shown(g, raw') = Wanted(l, todo[1])
        BY <1>1, <1>8
      <4> QED
        BY <1>8, <3>2, <4>1, <4>2
    <3>3. CASE i > Len(built) + 1
      <4>1. /\ ~(i <= Len(built)) /\ ~(i <= Len(built) + 1)
            /\ i - (Len(built) + 1) \in 1 .. Len(todo) - 1
            /\ (i - (Len(built) + 1)) + 1 = i - Len(built)
        BY <1>8, <3>3
      <4>2. Tail(todo)[i - (Len(built) + 1)] = todo[i - Len(built)]
        BY <1>8, <4>1
      <4> QED
        BY <1>8, <4>1, <4>2
    <3> QED
      BY <1>8, <3>1, <3>2, <3>3
  <2> QED
    BY <2>1, <2>2 DEF Outcome
<1>13. \A j \in Listeners : ShownAll(listener[j], raw') = ShownAll(listener[j], raw)
  <2>1. <<>> \in Seq(Entries)
    OBVIOUS
  <2> QED
    BY <2>1, OutcomeGrows DEF LoadGood, LoadType, LoadFilters
<1>14. LoadType'
  BY <1>4, <1>6 DEF LoadGood, LoadType
<1>15. LoadFilters'
  <2>1. \A j \in Listeners : AllGood(listener[j], log', raw')
    BY FiltersGrow DEF LoadGood, LoadType, LoadFilters
  <2> QED
    BY <1>4, <1>6, <1>10, <2>1 DEF LoadFilters
<1>16. LoadDue'
  BY <1>1, <1>2, <1>4, <1>6, <1>7, <1>11, <1>12, <1>13 DEF LoadGood, LoadDue, Changing
<1>17. LoadCarried'
  <2>1. carried = InForce(l, todo, Published)
    BY <1>1 DEF LoadGood, LoadCarried
  <2>2. InForce(l, todo, Published) = InForce(l, Tail(todo), Published')
    BY <1>1, <1>2, <1>8, HeadLands
  <2> QED
    BY <1>4, <1>6, <1>7, <2>1, <2>2 DEF LoadCarried
<1> QED
  BY <1>14, <1>15, <1>16, <1>17 DEF LoadGood

LEMMA LoadTableStep ==
    ASSUME EnforceInv, LoadGood, loading # NoLoad, loading.todo # <<>>, LoadTable
    PROVE  LoadGood' /\ EnforceInv' /\ Grows /\ call' = call
<1>1. loading.of \in Listeners /\ Loaded \in Entries /\ Loaded.name = "table"
  BY LoadInHand DEF Loaded, LoadTable
<1>2. Lawful(loading.of, Loaded)
  BY <1>1, AcceptsIsLawful DEF LoadTable
<1>3. Loaded.body.table \in Tables
  BY <1>1, EntriesAssumption DEF LoadTable, Accepts
<1>4. EnforceInv' /\ Grows /\ call' = call /\ log' = Append(log, Loaded.body.table)
  BY <1>3, PublishKeeps DEF LoadTable, Publish
<1>5. Len(log') # 0
  BY <1>3, <1>4 DEF EnforceInv
<1>6. PICK g : g = Filter("table", NoConfig)
  OBVIOUS
<1>7. g \in Filters /\ g.name = "table" /\ g.cfg = NoConfig
  BY <1>6 DEF Filter, Filters
<1>8. GoodFilter(g, log', raw')
  BY <1>5, <1>7 DEF GoodFilter
<1>9. Shown(g, raw') = Wanted(loading.of, Loaded)
  BY <1>1, <1>2, <1>7 DEF Shown, Wanted, Promised
<1>10. Build(g) /\ listener' = listener /\ due' = due /\ carried' = carried
  BY <1>6 DEF LoadTable
<1>11. Published' = Loaded.body.table
  <2>1. log \in Seq(Tables) /\ Len(log) \in Nat
    BY LenLog DEF EnforceInv
  <2>2. Len(log') = Len(log) + 1 /\ log'[Len(log) + 1] = Loaded.body.table
    BY <1>3, <1>4, <2>1
  <2> QED
    BY <2>1, <2>2 DEF Published, TableAt
<1> QED
  BY <1>1, <1>2, <1>4, <1>7, <1>8, <1>9, <1>10, <1>11, BuildStep

LEMMA LoadRulesStep ==
    ASSUME EnforceInv, LoadGood, loading # NoLoad, loading.todo # <<>>, LoadRules
    PROVE  LoadGood' /\ EnforceInv' /\ Grows /\ call' = call
<1>1. loading.of \in Listeners /\ Loaded \in Entries /\ Loaded.name # "table"
  BY LoadInHand DEF Loaded, LoadRules
<1>2. Lawful(loading.of, Loaded)
  BY <1>1, AcceptsIsLawful DEF LoadRules
<1>3. Loaded.body.rules \in Rules /\ Loaded.name \in {"ppv2_auth", "ppv2", "auth"}
  BY <1>1, EntriesAssumption DEF LoadRules, Accepts, FilterNames
<1>4. PICK c \in Configs : Parse(c, Loaded.body.rules) /\ Build(Filter(Loaded.name, c))
  BY DEF LoadRules
<1>5. EnforceInv' /\ Grows /\ call' = call /\ Published' = Published
  BY <1>3, <1>4, ParseKeeps DEF Published, TableAt
<1>6. raw'[c] = Loaded.body.rules
  BY <1>4 DEF Parse, EnforceInv
<1>7. PICK g : g = Filter(Loaded.name, c)
  OBVIOUS
<1>8. g \in Filters /\ g.name = Loaded.name /\ g.cfg = c
  BY <1>3, <1>7 DEF Filter, Filters
<1>9. c # NoConfig /\ raw'[c] # Unparsed
  BY <1>3, <1>6, LoadAssumption
<1>10. GoodFilter(g, log', raw')
  BY <1>1, <1>8, <1>9 DEF GoodFilter
<1>11. Shown(g, raw') = Wanted(loading.of, Loaded)
  BY <1>1, <1>2, <1>6, <1>8, <1>9 DEF Shown, Wanted, Promised
<1>12. Build(g) /\ listener' = listener /\ due' = due /\ carried' = carried
  BY <1>4, <1>7 DEF LoadRules
<1> QED
  BY <1>1, <1>2, <1>5, <1>8, <1>10, <1>11, <1>12, BuildStep

\* None from a loader: TCP keeps what it runs, UDP gets a filter that denies.
LEMMA RejectStep ==
    ASSUME EnforceInv, LoadGood, loading # NoLoad, loading.todo # <<>>, Reject
    PROVE  LoadGood' /\ EnforceInv' /\ Grows /\ call' = call
<1>1. /\ loading.of \in Listeners /\ Loaded \in Entries
      /\ 1 \in DOMAIN loading.todo /\ Loaded = loading.todo[1]
  BY LoadInHand DEF Loaded
<1>2. ~Lawful(loading.of, Loaded)
  BY <1>1, AcceptsIsLawful DEF Reject
<1>3. /\ call' = call /\ log' = log /\ raw' = raw /\ listener' = listener /\ due' = due
      /\ carried' = carried /\ Published' = Published /\ EnforceInv' /\ Grows
  BY EnforceUnchanged DEF Reject, vars, Published, TableAt
<1>4. CASE Protocol[loading.of] = "udp"
  <2>1. PICK g : g = Filter("deny_all", NoConfig)
    OBVIOUS
  <2>2. g \in Filters /\ g.name = "deny_all" /\ g.cfg = NoConfig
    BY <2>1 DEF Filter, Filters
  <2>3. GoodFilter(g, log', raw')
    BY <2>2 DEF GoodFilter
  <2>4. Shown(g, raw') = Wanted(loading.of, Loaded)
    BY <1>2, <2>2 DEF Shown, Wanted, Denying
  <2>5. Build(g)
    BY <1>4, <2>1 DEF Reject
  <2> QED
    BY <1>2, <1>3, <1>4, <2>2, <2>3, <2>4, <2>5, BuildStep
<1>5. CASE Protocol[loading.of] # "udp"
  <2>1. loading' = NoLoad
    BY <1>5 DEF Reject
  <2>2. \A l \in Listeners : ~Changing(l)
    BY <1>1, <1>2, <1>5 DEF Changing, GoesThrough
  <2>3. LoadCarried'
    <3>1. Protocol[loading.of] = "tcp"
      BY <1>1, <1>5, ProtocolAssumption
    <3>2. InForce(loading.of, loading.todo, Published) = Published
      BY <1>1, <1>2, <3>1, LoadInHand, NothingLands
    <3> QED
      BY <1>3, <2>1, <3>2 DEF LoadGood, LoadCarried
  <2> QED
    BY <1>3, <2>1, <2>2, <2>3 DEF LoadGood, LoadType, LoadFilters, LoadDue, Changing
<1> QED
  BY <1>4, <1>5

LEMMA InstallStep ==
    ASSUME EnforceInv, LoadGood, Install
    PROVE  LoadGood' /\ EnforceInv' /\ Grows /\ call' = call
<1>1. PICK l, built : l = loading.of /\ built = loading.built
  OBVIOUS
<1>2. /\ loading # NoLoad /\ l \in Listeners /\ built \in Seq(Filters)
      /\ AllGood(built, log, raw) /\ loading.todo = <<>>
  BY <1>1, LoadInHand DEF Install
<1>3. /\ call' = call /\ log' = log /\ raw' = raw /\ due' = due /\ loading' = NoLoad
      /\ carried' = carried /\ listener' = [listener EXCEPT ![l] = built]
      /\ EnforceInv' /\ Grows
  BY <1>1, EnforceUnchanged DEF Install, vars
<1>4. due[l] = Outcome(l, built, <<>>, raw)
  BY <1>1, <1>2 DEF LoadGood, LoadDue, Changing, GoesThrough
<1>5. Outcome(l, built, <<>>, raw) = ShownAll(built, raw)
  <2>1. Len(built) \in Nat /\ Len(<<>>) = 0 /\ DOMAIN built = 1 .. Len(built)
    BY <1>2
  <2>2. 1 .. Len(built) + 0 = DOMAIN built /\ \A i \in DOMAIN built : i <= Len(built)
    BY <2>1
  <2> QED
    BY <2>1, <2>2 DEF Outcome, ShownAll
<1>6. /\ listener' \in [Listeners -> Seq(Filters)] /\ listener'[l] = built
      /\ \A j \in Listeners : j # l => listener'[j] = listener[j]
  BY <1>2, <1>3 DEF LoadGood, LoadType
<1>7. LoadType' /\ LoadFilters'
  BY <1>2, <1>3, <1>6 DEF LoadGood, LoadType, LoadFilters
<1>8. LoadDue'
  BY <1>1, <1>3, <1>4, <1>5, <1>6 DEF LoadGood, LoadDue, Changing
<1>9. LoadCarried'
  <2>1. <<>> \in Seq(Entries)
    OBVIOUS
  <2>2. InForce(loading.of, loading.todo, Published) = Published
    BY <1>2, <2>1, NothingLands
  <2> QED
    BY <1>2, <1>3, <2>2 DEF LoadGood, LoadCarried, Published, TableAt
<1> QED
  BY <1>3, <1>7, <1>8, <1>9 DEF LoadGood

LEMMA LoadStep ==
    ASSUME EnforceInv, LoadGood, LoadNext
    PROVE  LoadGood' /\ EnforceInv' /\ Grows /\ call' = call
<1>1. ASSUME NEW u \in Updates, Update(u)
      PROVE  EnforceInv' /\ Grows /\ call' = call
  BY <1>1, EnforceUnchanged DEF Update, vars
<1> QED
  BY <1>1, UpdateStep, LoadTableStep, LoadRulesStep, RejectStep, InstallStep
     DEF LoadNext, LoadFilter

-----------------------------------------------------------------------------
(* Datagrams as records.                                                   *)

LEMMA DatagramFields ==
    ASSUME NEW x \in Datagram
    PROVE  /\ x.worker \in Workers /\ x.packet \in Packets
           /\ x.cfg \in Configs \union {NoConfig}
           /\ x.pc \in {"done", "judge", "permits"}
           /\ x.id \in Identities \union {NoName}
           /\ x.labelGen \in Nat /\ x.born \in Nat /\ x.window \in SUBSET Nat
BY DEF Datagram

LEMMA ArrivedDatagram ==
    ASSUME Core, NEW d \in Arrived
    PROVE  /\ dgram[d] \in Datagram /\ d \in Datagrams
           /\ GoodDatagram(d, dgram[d], log, raw, call[dgram[d].worker])
           /\ filter[dgram[d].worker] # NoFilter
           /\ dgram[d].pc # "done" => Alone(d, dgram[d].worker)
BY DEF Core, Arrived, Exclusive

\* More tables and more Configs change nothing of what is known of a datagram.
LEMMA GoodGrows ==
    ASSUME EnforceInv, EnforceInv', Grows, NEW d, NEW x \in Datagram, NEW c,
           GoodDatagram(d, x, log, raw, c)
    PROVE  GoodDatagram(d, x, log', raw', c)
<1>1. Len(log) \in Nat /\ Len(log') \in Nat /\ Len(log) <= Len(log')
  BY LenLog DEF EnforceInv, Grows
<1>2. x.born \in Nat /\ x.labelGen \in Nat /\ x.pc \in {"done", "judge", "permits"}
  BY DatagramFields
<1>3. x.window \subseteq 0 .. Len(log)
  BY DEF GoodDatagram, History
<1>4. x.cfg \in Configs /\ raw[x.cfg] # Unparsed => raw'[x.cfg] = raw[x.cfg]
  BY DEF Grows
<1>5. x.cfg \in Configs /\ raw[x.cfg] # Unparsed =>
          \A g \in x.window : AllowsIn(x, log', raw', g) <=> AllowsIn(x, log, raw, g)
  BY <1>3, <1>4 DEF AllowsIn, Grows
<1>6. HeaderKept(x, log) => HeaderKept(x, log')
  <2> SUFFICES ASSUME HeaderKept(x, log) PROVE HeaderKept(x, log')
    OBVIOUS
  <2>1. x.labelGen \in 0 .. Len(log) /\ x.labelGen \in x.born .. Len(log')
    BY <1>1, <1>2 DEF HeaderKept
  <2>2. TableAt(log', x.labelGen) = TableAt(log, x.labelGen)
    BY <2>1 DEF Grows
  <2> QED
    BY <2>1, <2>2 DEF HeaderKept
<1>7. x.pc = "permits" => x.cfg \in Configs /\ raw[x.cfg] # Unparsed
  BY DEF GoodDatagram, History
<1>8. Asking(x, log', raw', c)
  BY <1>5, <1>7 DEF GoodDatagram, Asking
<1>9. History(d, x, log', raw')
  <2>1. /\ x.window \subseteq 0 .. Len(log') /\ x.born <= Len(log')
        /\ Len(log) # 0 => Len(log') # 0
    BY <1>1, <1>2, <1>3 DEF GoodDatagram, History
  <2>2. History(d, x, log, raw)
    BY DEF GoodDatagram
  <2> QED
    BY <1>4, <1>5, <1>6, <2>1, <2>2 DEF History
<1> QED
  BY <1>8, <1>9 DEF GoodDatagram

\* What a step may do to the workers' instances.
FiltersKept ==
    /\ filter' \in [Workers -> Instance \union {NoFilter}]
    /\ \A w \in Workers :
          /\ filter'[w] # NoFilter => GoodFilter(filter'[w], log', raw')
          /\ filter[w] # NoFilter => filter'[w] # NoFilter

LEMMA SameFilters ==
    ASSUME EnforceInv, EnforceInv', Grows, Core, filter' = filter
    PROVE  FiltersKept
<1>1. ASSUME NEW w \in Workers, filter[w] # NoFilter
      PROVE  GoodFilter(filter[w], log', raw')
  <2>1. filter[w] \in Instance /\ GoodFilter(filter[w], log, raw)
    BY <1>1 DEF Core
  <2>2. filter[w].cfg \in Configs \union {NoConfig}
    BY <2>1 DEF Instance
  <2> QED
    BY <2>1, <2>2, FilterGrows
<1> QED
  BY <1>1 DEF FiltersKept, Core

\* A step that writes one datagram d, to y.
LEMMA OneDatagram ==
    ASSUME EnforceInv, EnforceInv', Grows, Core, FiltersKept,
           NEW d \in Datagrams, NEW y \in Datagram, dgram' = [dgram EXCEPT ![d] = y],
           filter[y.worker] # NoFilter,
           \A v \in Workers : v # y.worker => call'[v] = call[v],
           call'[y.worker] = call[y.worker] \/ Alone(d, y.worker),
           y.pc # "done" => Alone(d, y.worker),
           GoodDatagram(d, y, log', raw', call'[y.worker])
    PROVE  Core'
<1>1. /\ dgram \in [Datagrams -> Datagram \union {NotSent}]
      /\ dgram' \in [Datagrams -> Datagram \union {NotSent}]
      /\ dgram'[d] = y /\ \A e \in Datagrams : e # d => dgram'[e] = dgram[e]
      /\ y.worker \in Workers
  BY DatagramFields DEF Core
<1>2. Arrived' = Arrived \union {d}
  BY <1>1, InstanceAssumption DEF Arrived
<1>3. ASSUME NEW e \in Arrived, e # d
      PROVE  GoodDatagram(e, dgram[e], log', raw', call'[dgram[e].worker])
  <2>1. dgram[e] \in Datagram /\ GoodDatagram(e, dgram[e], log, raw, call[dgram[e].worker])
    BY ArrivedDatagram
  <2>2. GoodDatagram(e, dgram[e], log', raw', call[dgram[e].worker])
    BY <2>1, GoodGrows
  <2>3. CASE call'[dgram[e].worker] = call[dgram[e].worker]
    BY <2>2, <2>3
  <2>4. CASE call'[dgram[e].worker] # call[dgram[e].worker]
    <3>1. dgram[e].worker = y.worker /\ dgram[e].pc = "done"
      BY <1>3, <2>1, <2>4, DatagramFields DEF Alone
    <3> QED
      BY <2>2, <3>1 DEF GoodDatagram, Asking
  <2> QED
    BY <2>3, <2>4
<1>4. \A e \in Arrived' : GoodDatagram(e, dgram'[e], log', raw', call'[dgram'[e].worker])
  BY <1>1, <1>2, <1>3 DEF Arrived
<1>5. ASSUME NEW i \in Arrived', NEW j \in Arrived', i # j,
             dgram'[i].pc # "done", dgram'[j].worker = dgram'[i].worker
      PROVE  dgram'[j].pc = "done"
  <2>1. i \in Datagrams /\ j \in Datagrams
    BY DEF Arrived
  <2>2. CASE i = d
    BY <1>1, <1>2, <1>5, <2>1, <2>2 DEF Alone
  <2>3. CASE j = d
    <3>1. i \in Arrived /\ dgram[i].pc # "done" /\ dgram[i].worker = y.worker
      BY <1>1, <1>2, <1>5, <2>1, <2>3
    <3>2. ~Alone(d, y.worker)
      BY <1>5, <2>3, <3>1 DEF Alone
    <3> QED
      BY <1>1, <2>3, <3>2
  <2>4. CASE i # d /\ j # d
    BY <1>1, <1>2, <1>5, <2>1, <2>4 DEF Core, Exclusive, Alone
  <2> QED
    BY <2>2, <2>3, <2>4
<1>6. Exclusive'
  BY <1>5 DEF Exclusive, Alone
<1>7. \A e \in Arrived' : filter'[dgram'[e].worker] # NoFilter
  <2>1. \A e \in Arrived : dgram[e].worker \in Workers /\ filter[dgram[e].worker] # NoFilter
    BY ArrivedDatagram, DatagramFields
  <2> QED
    BY <1>1, <1>2, <2>1 DEF FiltersKept, Arrived
<1> QED
  BY <1>1, <1>4, <1>6, <1>7 DEF Core, FiltersKept

-----------------------------------------------------------------------------
(* The counters.                                                           *)

\* Nothing was decided of d before this step.
Undecided(d) == d \in Arrived => dgram[d].why = "none"

LEMMA NoneUncounted == \A stat \in Stats : "none" \notin CountedAs(stat)
BY DEF Stats, CountedAs

LEMMA TallyKept ==
    ASSUME Core, Counting, NEW d \in Datagrams, NEW y \in Datagram,
           dgram' = [dgram EXCEPT ![d] = y], counters' = counters, Undecided(d),
           \A stat \in Stats : y.why \notin CountedAs(stat)
    PROVE  Counting'
<1>1. /\ dgram \in [Datagrams -> Datagram \union {NotSent}]
      /\ dgram'[d] = y /\ \A e \in Datagrams : e # d => dgram'[e] = dgram[e]
  BY DEF Core
<1>2. Arrived' = Arrived \union {d}
  BY <1>1, InstanceAssumption DEF Arrived
<1>3. ASSUME NEW stat \in Stats
      PROVE  {e \in Arrived' : dgram'[e].why \in CountedAs(stat)}
                 = {e \in Arrived : dgram[e].why \in CountedAs(stat)}
  BY <1>1, <1>2, NoneUncounted DEF Arrived, Undecided
<1> QED
  BY <1>3 DEF Counting, UdpCountersTally

\* y counts in stat0 and in nothing else.
CountsOnly(y, stat0) == \A stat \in Stats : y.why \in CountedAs(stat) <=> stat = stat0

LEMMA TallyBumped ==
    ASSUME Core, Counting, NEW d \in Datagrams, NEW y \in Datagram,
           dgram' = [dgram EXCEPT ![d] = y], NEW stat0 \in Stats, Bump(stat0),
           Undecided(d), CountsOnly(y, stat0)
    PROVE  Counting'
<1>1. /\ dgram \in [Datagrams -> Datagram \union {NotSent}]
      /\ dgram'[d] = y /\ \A e \in Datagrams : e # d => dgram'[e] = dgram[e]
  BY DEF Core
<1>2. Arrived' = Arrived \union {d}
  BY <1>1, InstanceAssumption DEF Arrived
<1>3. /\ counters' \in [Stats -> Nat] /\ counters'[stat0] = counters[stat0] + 1
      /\ \A stat \in Stats : stat # stat0 => counters'[stat] = counters[stat]
  BY DEF Counting, Bump
<1>4. ASSUME NEW stat \in Stats
      PROVE  counters'[stat] = Cardinality({e \in Arrived' : dgram'[e].why \in CountedAs(stat)})
  <2> DEFINE S == {e \in Arrived : dgram[e].why \in CountedAs(stat)}
  <2>1. counters[stat] = Cardinality(S)
    BY DEF Counting, UdpCountersTally
  <2>2. d \notin S
    BY NoneUncounted DEF Undecided
  <2>3. CASE stat = stat0
    <3>1. {e \in Arrived' : dgram'[e].why \in CountedAs(stat)} = S \union {d}
      BY <1>1, <1>2, <2>3 DEF Arrived, CountsOnly
    <3>2. IsFiniteSet(S)
      <4>1. S \in SUBSET Datagrams
        BY DEF Arrived
      <4> QED
        BY <4>1, InstanceAssumption, FS_Subset
    <3> HIDE DEF S
    <3>3. Cardinality(S \union {d}) = Cardinality(S) + 1
      BY <2>2, <3>2, FS_AddElement
    <3> QED
      BY <1>3, <2>1, <2>3, <3>1, <3>3
  <2>4. CASE stat # stat0
    <3>1. {e \in Arrived' : dgram'[e].why \in CountedAs(stat)} = S
      BY <1>1, <1>2, <2>2, <2>4 DEF Arrived, CountsOnly
    <3> HIDE DEF S
    <3> QED
      BY <1>3, <2>1, <2>4, <3>1
  <2> QED
    BY <2>3, <2>4
<1> QED
  BY <1>3, <1>4 DEF Counting, UdpCountersTally

-----------------------------------------------------------------------------
(* on_data.                                                                *)

Fates == {"none", "forwarded", "dropped"}
Whys == {"none", "carrier", "deny_all", "no_table", "set_failed"} \union Stats

LEMMA DoneFields ==
    ASSUME NEW x \in Datagram, NEW fate \in Fates, NEW why \in Whys
    PROVE  LET y == Done(x, fate, why) IN
           /\ y \in Datagram /\ y.worker = x.worker /\ y.packet = x.packet
           /\ y.cfg = x.cfg /\ y.pc = x.pc /\ y.id = x.id /\ y.labelGen = x.labelGen
           /\ y.window = x.window /\ y.born = x.born /\ y.sent = x.sent
           /\ y.fate = fate /\ y.why = why
BY DEF Datagram, Done, Fates, Whys

LEMMA SentFields ==
    ASSUME NEW x \in Datagram, NEW s \in Seq(Span)
    PROVE  LET y == [x EXCEPT !.sent = s] IN
           /\ y \in Datagram /\ y.worker = x.worker /\ y.packet = x.packet
           /\ y.cfg = x.cfg /\ y.pc = x.pc /\ y.id = x.id /\ y.labelGen = x.labelGen
           /\ y.window = x.window /\ y.born = x.born /\ y.sent = s
           /\ y.fate = x.fate /\ y.why = x.why
BY DEF Datagram

\* A step of worker w that is not one of permits(), on a datagram of its own.
LEMMA QuietStep ==
    ASSUME UInv, NEW d \in Datagrams, NEW y \in Datagram, dgram' = [dgram EXCEPT ![d] = y],
           UNCHANGED <<log, raw, call, loadVars, filter>>,
           filter[y.worker] # NoFilter, Alone(d, y.worker),
           y.pc # "permits", History(d, y, log, raw), Counting'
    PROVE  UInv'
<1>1. EnforceInv' /\ Grows /\ log' = log /\ raw' = raw /\ call' = call /\ filter' = filter
  BY EnforceUnchanged DEF UInv, vars
<1>2. LoadGood'
  BY <1>1, LoadingGrows DEF UInv
<1>3. FiltersKept
  BY <1>1, SameFilters DEF UInv
<1>4. GoodDatagram(d, y, log', raw', call'[y.worker])
  BY <1>1 DEF GoodDatagram, Asking
<1>5. Core'
  BY <1>1, <1>3, <1>4, OneDatagram DEF UInv
<1> QED
  BY <1>1, <1>2, <1>5 DEF UInv

LEMMA OnDataStep ==
    ASSUME UInv, NEW w \in Workers, NEW d \in Datagrams, NEW p \in Packets, OnData(w, d, p)
    PROVE  UInv'
<1>1. PICK x : x = [worker |-> w, packet |-> p, cfg |-> filter[w].cfg,
                    pc |-> "done", id |-> NoName, labelGen |-> 0, window |-> {},
                    born |-> Len(log), sent |-> <<>>, fate |-> "none", why |-> "none"]
  OBVIOUS
<1>2. /\ Core /\ EnforceInv /\ Counting /\ dgram[d] = NotSent /\ filter[w] # NoFilter
      /\ UNCHANGED <<log, raw, call, loadVars, filter>>
  BY DEF UInv, OnData
<1>3. Passes(w, d, x) \/ Denies(w, d, x) \/ Inspects(w, d, x)
  BY <1>1 DEF OnData
<1>4. filter[w] \in Instance /\ GoodFilter(filter[w], log, raw)
  BY <1>2 DEF Core
<1>5. Len(log) \in Nat
  BY <1>2, LenLog
<1>6. x \in Datagram
  <2>1. filter[w].cfg \in Configs \union {NoConfig} /\ <<>> \in Seq(Span)
    BY <1>4 DEF Instance
  <2> QED
    BY <1>1, <1>5, <2>1 DEF Datagram
<1>7. /\ x.worker = w /\ x.packet = p /\ x.cfg = filter[w].cfg /\ x.pc = "done"
      /\ x.window = {} /\ x.born = Len(log) /\ x.sent = <<>> /\ x.fate = "none"
      /\ x.why = "none"
  BY <1>1
<1>8. Alone(d, w)
  <2>1. ASSUME NEW e \in Arrived, dgram[e].worker = w
        PROVE  dgram[e].pc = "done"
    <3>1. dgram[e].fate # "none"
      BY <2>1 DEF OnData, Busy
    <3>2. History(e, dgram[e], log, raw)
      BY <1>2 DEF Core, GoodDatagram
    <3> QED
      BY <3>1, <3>2 DEF History
  <2> QED
    BY <2>1 DEF Alone
<1>9. Undecided(d)
  BY <1>2 DEF Undecided, Arrived
<1>10. p.stream \in Stream /\ Total(p) \in Nat
  BY PacketIs
<1>11. ASSUME NEW fate \in Fates, NEW why \in Whys, fate # "none",
              why \in {"carrier", "deny_all", "no_table", "not_ppv2"},
              why = "no_table" => Len(log) = 0, why = "not_ppv2" => Parsed(p).tag # "ok",
              fate = "forwarded" => Len(log) # 0,
              NEW y \in Datagram, dgram' = [dgram EXCEPT ![d] = y], Counting',
              y.worker = w, y.packet = p, y.pc = "done", y.window = {}, y.born = Len(log),
              y.fate = fate, y.why = why
       PROVE  UInv'
  <2>1. History(d, y, log, raw)
    BY <1>5, <1>11 DEF History
  <2> QED
    BY <1>2, <1>8, <1>11, <2>1, QuietStep
<1>12. \A stat \in Stats : CountedAs(stat) \subseteq {"allowed", "denied", "not_ppv2", "set_failed"}
  BY DEF Stats, CountedAs
<1>13. CASE Passes(w, d, x)
  <2>1. PICK fate, why : fate = "forwarded" /\ why = "carrier"
    OBVIOUS
  <2>2. fate \in Fates /\ why \in Whys
    BY <2>1 DEF Fates, Whys
  <2>3. PICK z : z = Done(x, fate, why)
    OBVIOUS
  <2>4. PICK s : s = <<Bytes(d, 0, Total(p))>>
    OBVIOUS
  <2>5. PICK y : y = [z EXCEPT !.sent = s]
    OBVIOUS
  <2>6. s \in Seq(Span)
    BY <1>10, <2>4 DEF Bytes, Span
  <2>7. /\ z \in Datagram /\ z.worker = x.worker /\ z.packet = x.packet /\ z.pc = x.pc
        /\ z.window = x.window /\ z.born = x.born /\ z.fate = fate /\ z.why = why
    BY <1>6, <2>2, <2>3, DoneFields
  <2>8. /\ y \in Datagram /\ y.worker = w /\ y.packet = p /\ y.pc = "done"
        /\ y.window = {} /\ y.born = Len(log) /\ y.fate = fate /\ y.why = why
    BY <1>7, <2>5, <2>6, <2>7, SentFields
  <2>9. dgram' = [dgram EXCEPT ![d] = y] /\ counters' = counters
    BY <1>7, <1>13, <2>1, <2>3, <2>4, <2>5 DEF Passes
  <2>10. Len(log) # 0
    BY <1>4, <1>13 DEF Passes, GoodFilter
  <2>11. \A stat \in Stats : y.why \notin CountedAs(stat)
    BY <1>12, <2>1, <2>8
  <2>12. Counting'
    BY <1>2, <1>9, <2>8, <2>9, <2>11, TallyKept
  <2>13. /\ why \in {"carrier", "deny_all", "no_table", "not_ppv2"} /\ fate # "none"
         /\ why # "no_table" /\ why # "not_ppv2"
    BY <2>1
  <2> QED
    BY <1>11, <2>2, <2>8, <2>9, <2>10, <2>12, <2>13
<1>14. ASSUME NEW why \in Whys, why \in {"deny_all", "no_table"}, why = "no_table" => Len(log) = 0,
              dgram' = [dgram EXCEPT ![d] = Done(x, "dropped", why)], counters' = counters
       PROVE  UInv'
  <2>1. PICK fate : fate = "dropped"
    OBVIOUS
  <2>2. fate \in Fates /\ fate # "none" /\ fate # "forwarded"
    BY <2>1 DEF Fates
  <2>3. PICK y : y = Done(x, fate, why)
    OBVIOUS
  <2>4. /\ y \in Datagram /\ y.worker = w /\ y.packet = p /\ y.pc = "done"
        /\ y.window = {} /\ y.born = Len(log) /\ y.fate = fate /\ y.why = why
    BY <1>6, <1>7, <2>2, <2>3, DoneFields
  <2>5. dgram' = [dgram EXCEPT ![d] = y]
    BY <1>14, <2>1, <2>3
  <2>6. \A stat \in Stats : y.why \notin CountedAs(stat)
    BY <1>12, <1>14, <2>4
  <2>7. Counting'
    BY <1>2, <1>9, <1>14, <2>4, <2>5, <2>6, TallyKept
  <2>8. why \in {"carrier", "deny_all", "no_table", "not_ppv2"} /\ why # "not_ppv2"
    BY <1>14
  <2> QED
    BY <1>11, <1>14, <2>2, <2>4, <2>5, <2>7, <2>8
<1>15. CASE Denies(w, d, x)
  <2>1. PICK why : why = "deny_all"
    OBVIOUS
  <2>2. why \in Whys /\ why \in {"deny_all", "no_table"} /\ why # "no_table"
    BY <2>1 DEF Whys
  <2>3. dgram' = [dgram EXCEPT ![d] = Done(x, "dropped", why)] /\ counters' = counters
    BY <1>15, <2>1 DEF Denies
  <2> QED
    BY <1>14, <2>2, <2>3
<1>16. CASE NoTableYet(d, x)
  <2>1. PICK why : why = "no_table"
    OBVIOUS
  <2>2. why \in Whys /\ why \in {"deny_all", "no_table"}
    BY <2>1 DEF Whys
  <2>3. dgram' = [dgram EXCEPT ![d] = Done(x, "dropped", why)] /\ counters' = counters
    BY <1>16, <2>1 DEF NoTableYet
  <2>4. Len(log) = 0
    BY <1>2, <1>16, PublishedThere DEF NoTableYet
  <2> QED
    BY <1>14, <2>2, <2>3, <2>4
<1>17. CASE /\ Parsed(p).tag # "ok" /\ NotPpv2(p)
            /\ dgram' = [dgram EXCEPT ![d] = Done(x, "dropped", "not_ppv2")]
  <2>1. PICK fate, why : fate = "dropped" /\ why = "not_ppv2"
    OBVIOUS
  <2>2. /\ fate \in Fates /\ why \in Whys /\ why \in Stats /\ fate # "none" /\ fate # "forwarded"
        /\ why \in {"carrier", "deny_all", "no_table", "not_ppv2"} /\ why # "no_table"
    BY <2>1 DEF Fates, Whys, Stats
  <2>3. PICK y : y = Done(x, fate, why)
    OBVIOUS
  <2>4. /\ y \in Datagram /\ y.worker = w /\ y.packet = p /\ y.pc = "done"
        /\ y.window = {} /\ y.born = Len(log) /\ y.fate = fate /\ y.why = why
    BY <1>6, <1>7, <2>2, <2>3, DoneFields
  <2>5. dgram' = [dgram EXCEPT ![d] = y] /\ Bump(why)
    BY <1>17, <2>1, <2>3 DEF NotPpv2
  <2>6. CountsOnly(y, why)
    BY <2>1, <2>4 DEF CountsOnly, CountedAs, Stats
  <2>7. Counting'
    BY <1>2, <1>9, <2>2, <2>4, <2>5, <2>6, TallyBumped
  <2> QED
    BY <1>11, <1>17, <2>2, <2>4, <2>5, <2>7
<1>18. CASE /\ Published # NoTable /\ Parsed(p).tag = "ok" /\ filter[w].name = "ppv2_auth"
            /\ dgram' = [dgram EXCEPT ![d] =
                  [x EXCEPT !.pc = "judge", !.labelGen = Len(log),
                            !.id = Synthesize(Published, Parsed(p).header)]]
            /\ counters' = counters
  <2>1. PICK id : id = Synthesize(Published, Parsed(p).header)
    OBVIOUS
  <2>2. PICK y : y = [x EXCEPT !.pc = "judge", !.labelGen = Len(log), !.id = id]
    OBVIOUS
  <2>3. Published \in Tables /\ Len(log) # 0 /\ Published = TableAt(log, Len(log))
    BY <1>2, <1>18, PublishedThere DEF Published
  <2>4. id \in Identities
    BY <1>18, <2>1, <2>3, PacketsAssumption
  <2>5. /\ y \in Datagram /\ y.worker = w /\ y.packet = p /\ y.cfg = filter[w].cfg
        /\ y.pc = "judge" /\ y.id = id /\ y.labelGen = Len(log) /\ y.window = {}
        /\ y.born = Len(log) /\ y.fate = "none" /\ y.why = "none"
    BY <1>5, <1>6, <1>7, <2>2, <2>4 DEF Datagram
  <2>6. dgram' = [dgram EXCEPT ![d] = y] /\ counters' = counters
    BY <1>18, <2>1, <2>2
  <2>7. HeaderKept(y, log)
    BY <1>5, <1>18, <2>1, <2>3, <2>5 DEF HeaderKept
  <2>8. filter[w].cfg \in Configs /\ raw[filter[w].cfg] # Unparsed
    BY <1>4, <1>18 DEF GoodFilter, Instance
  <2>9. History(d, y, log, raw)
    BY <1>5, <2>5, <2>7, <2>8 DEF History
  <2>10. \A stat \in Stats : y.why \notin CountedAs(stat)
    BY <2>5, NoneUncounted
  <2>11. y \in Datagram /\ y.worker = w /\ y.pc # "permits"
    BY <2>5
  <2>12. Counting'
    BY <1>2, <1>9, <2>6, <2>10, <2>11, TallyKept
  <2> QED
    BY <1>2, <1>8, <2>6, <2>9, <2>11, <2>12, QuietStep
<1> QED
  BY <1>3, <1>7, <1>13, <1>15, <1>16, <1>17, <1>18 DEF Inspects

-----------------------------------------------------------------------------
(* The call of permits_unscoped().                                         *)

\* A step of permits() for datagram d.
LEMMA CallStep ==
    ASSUME UInv, EnforceInv', Grows, NEW d \in Datagrams, NEW y \in Datagram,
           dgram' = [dgram EXCEPT ![d] = y], UNCHANGED loadVars, log' = log, FiltersKept,
           filter[y.worker] # NoFilter, Alone(d, y.worker),
           \A v \in Workers : v # y.worker => call'[v] = call[v],
           GoodDatagram(d, y, log', raw', call'[y.worker]), Counting'
    PROVE  UInv'
<1>1. LoadGood'
  BY LoadingGrows DEF UInv
<1>2. Core'
  BY OneDatagram DEF UInv
<1> QED
  BY <1>1, <1>2 DEF UInv

\* A datagram in the middle of a callback.
LEMMA BusyDatagram ==
    ASSUME Core, NEW d \in Arrived, dgram[d].pc # "done"
    PROVE  /\ d \in Datagrams /\ dgram[d] \in Datagram /\ dgram[d].worker \in Workers
           /\ filter[dgram[d].worker] # NoFilter /\ Alone(d, dgram[d].worker)
           /\ GoodDatagram(d, dgram[d], log, raw, call[dgram[d].worker])
           /\ dgram[d].cfg \in Configs /\ raw[dgram[d].cfg] # Unparsed
           /\ HeaderKept(dgram[d], log) /\ dgram[d].why = "none" /\ dgram[d].fate = "none"
           /\ Undecided(d)
<1>1. /\ d \in Datagrams /\ dgram[d] \in Datagram /\ filter[dgram[d].worker] # NoFilter
      /\ Alone(d, dgram[d].worker)
      /\ GoodDatagram(d, dgram[d], log, raw, call[dgram[d].worker])
  BY ArrivedDatagram
<1>2. dgram[d].worker \in Workers
  BY <1>1, DatagramFields
<1> QED
  BY <1>1, <1>2 DEF GoodDatagram, History, Undecided

LEMMA CallPermitsStep ==
    ASSUME UInv, NEW d \in Datagrams, CallPermits(d)
    PROVE  UInv'
<1>1. PICK x : x = dgram[d]
  OBVIOUS
<1>2. /\ d \in Arrived /\ x.pc = "judge" /\ x \in Datagram /\ x.worker \in Workers
      /\ filter[x.worker] # NoFilter /\ Alone(d, x.worker)
      /\ GoodDatagram(d, x, log, raw, call[x.worker]) /\ x.cfg \in Configs
      /\ HeaderKept(x, log) /\ x.why = "none" /\ Undecided(d)
  BY <1>1, BusyDatagram DEF UInv, CallPermits
<1>3. PICK q : q = <<NoName, x.id>>
  OBVIOUS
<1>4. PICK y : y = [x EXCEPT !.pc = "permits"]
  OBVIOUS
<1>5. /\ dgram' = [dgram EXCEPT ![d] = y] /\ Begin(x.worker, x.cfg, q)
      /\ UNCHANGED loadVars /\ filter' = filter /\ counters' = counters
  BY <1>1, <1>3, <1>4 DEF CallPermits
<1>6. q \in Queries
  <2>1. x.packet \in Packets /\ x.labelGen \in Nat /\ x.born \in Nat /\ Len(log) \in Nat
    BY <1>2, DatagramFields, LenLog DEF UInv
  <2>2. x.labelGen \in 0 .. Len(log) /\ x.labelGen # 0
    BY <1>2, <2>1 DEF HeaderKept
  <2>3. TableAt(log, x.labelGen) \in Tables
    BY <2>2, PublishedThere DEF UInv
  <2>4. x.id \in Identities
    BY <1>2, <2>1, <2>3, PacketsAssumption DEF HeaderKept
  <2> QED
    BY <1>3, <2>4, UdpAssumption
<1>7. /\ EnforceInv' /\ Grows /\ log' = log /\ raw' = raw
      /\ \A v \in Workers : v # x.worker => call'[v] = call[v]
      /\ call'[x.worker] \in Call /\ call'[x.worker].cfg = x.cfg
      /\ call'[x.worker].query = q /\ call'[x.worker].verdict = "none"
  BY <1>2, <1>5, <1>6, BeginKeeps DEF UInv
<1>8. /\ y \in Datagram /\ y.pc = "permits" /\ y.worker = x.worker /\ y.packet = x.packet
      /\ y.cfg = x.cfg /\ y.id = x.id /\ y.labelGen = x.labelGen /\ y.window = x.window
      /\ y.born = x.born /\ y.sent = x.sent /\ y.fate = x.fate /\ y.why = x.why
  BY <1>2, <1>4 DEF Datagram
<1>9. GoodDatagram(d, y, log', raw', call'[y.worker])
  <2>1. History(d, y, log, raw)
    BY <1>2, <1>8 DEF GoodDatagram, History, HeaderKept
  <2>2. Asking(y, log, raw, call'[y.worker])
    BY <1>3, <1>7, <1>8 DEF Asking
  <2> QED
    BY <1>7, <2>1, <2>2 DEF GoodDatagram
<1>10. FiltersKept
  BY <1>5, <1>7, SameFilters DEF UInv
<1>11. \A stat \in Stats : y.why \notin CountedAs(stat)
  BY <1>2, <1>8, NoneUncounted
<1>12. /\ y \in Datagram /\ filter[y.worker] # NoFilter /\ Alone(d, y.worker)
       /\ \A v \in Workers : v # y.worker => call'[v] = call[v]
  BY <1>2, <1>7, <1>8
<1>13. Counting'
  BY <1>2, <1>5, <1>11, <1>12, TallyKept DEF UInv
<1> QED
  BY <1>5, <1>7, <1>9, <1>10, <1>12, <1>13, CallStep

LEMMA PermitsAnswersStep ==
    ASSUME UInv, NEW d \in Datagrams, PermitsAnswers(d)
    PROVE  UInv'
<1>1. PICK x : x = dgram[d]
  OBVIOUS
<1>2. /\ d \in Arrived /\ x.pc = "permits" /\ x \in Datagram /\ x.worker \in Workers
      /\ filter[x.worker] # NoFilter /\ Alone(d, x.worker)
      /\ GoodDatagram(d, x, log, raw, call[x.worker])
      /\ HeaderKept(x, log) /\ x.why = "none" /\ x.fate = "none" /\ Undecided(d)
  BY <1>1, BusyDatagram DEF UInv, PermitsAnswers
<1>3. PICK u : u = Window(call[x.worker])
  OBVIOUS
<1>4. PICK y : y = [x EXCEPT !.window = u]
  OBVIOUS
<1>5. /\ dgram' = [dgram EXCEPT ![d] = y] /\ Answer(x.worker)
      /\ UNCHANGED loadVars /\ filter' = filter /\ counters' = counters
  BY <1>1, <1>3, <1>4 DEF PermitsAnswers
<1>6. /\ EnforceInv' /\ Grows /\ log' = log /\ raw' = raw
      /\ \A v \in Workers : v # x.worker => call'[v] = call[v]
      /\ call'[x.worker] \in Call /\ call'[x.worker].cfg = call[x.worker].cfg
      /\ call'[x.worker].query = call[x.worker].query
      /\ u \subseteq 0 .. Len(log)
      /\ \E g \in u :
            call'[x.worker].verdict =
                IF call[x.worker].query \in
                       JudgeAgainst(raw[call[x.worker].cfg], TableAt(log, g))
                THEN "allow" ELSE "deny"
  BY <1>2, <1>3, <1>5, AnswerKeeps DEF UInv
<1>7. u \in SUBSET Nat
  BY <1>6, LenLog DEF UInv
<1>8. /\ y \in Datagram /\ y.pc = x.pc /\ y.worker = x.worker /\ y.packet = x.packet
      /\ y.cfg = x.cfg /\ y.id = x.id /\ y.labelGen = x.labelGen /\ y.window = u
      /\ y.born = x.born /\ y.sent = x.sent /\ y.fate = x.fate /\ y.why = x.why
  BY <1>2, <1>4, <1>7 DEF Datagram
<1>9. GoodDatagram(d, y, log', raw', call'[y.worker])
  <2>1. History(d, y, log, raw)
    BY <1>2, <1>6, <1>8 DEF GoodDatagram, History, HeaderKept
  <2>2. call[x.worker].cfg = x.cfg /\ call[x.worker].query = <<NoName, x.id>>
    BY <1>2 DEF GoodDatagram, Asking
  <2>3. PICK g \in u :
            call'[x.worker].verdict = IF AllowsIn(y, log, raw, g) THEN "allow" ELSE "deny"
    BY <1>6, <1>8, <2>2 DEF AllowsIn
  <2>4. Asking(y, log, raw, call'[y.worker])
    BY <1>6, <1>8, <2>2, <2>3 DEF Asking
  <2> QED
    BY <1>6, <2>1, <2>4 DEF GoodDatagram
<1>10. FiltersKept
  BY <1>5, <1>6, SameFilters DEF UInv
<1>11. \A stat \in Stats : y.why \notin CountedAs(stat)
  BY <1>2, <1>8, NoneUncounted
<1>12. /\ y \in Datagram /\ filter[y.worker] # NoFilter /\ Alone(d, y.worker)
       /\ \A v \in Workers : v # y.worker => call'[v] = call[v]
  BY <1>2, <1>6, <1>8
<1>13. Counting'
  BY <1>2, <1>5, <1>11, <1>12, TallyKept DEF UInv
<1> QED
  BY <1>5, <1>6, <1>9, <1>10, <1>12, <1>13, CallStep

LEMMA SettleStep ==
    ASSUME UInv, NEW d \in Datagrams, Settle(d)
    PROVE  UInv'
<1>1. PICK x : x = dgram[d]
  OBVIOUS
<1>2. /\ d \in Arrived /\ x.pc = "permits" /\ x \in Datagram /\ x.worker \in Workers
      /\ filter[x.worker] # NoFilter /\ Alone(d, x.worker)
      /\ GoodDatagram(d, x, log, raw, call[x.worker])
      /\ x.cfg \in Configs /\ raw[x.cfg] # Unparsed
      /\ HeaderKept(x, log) /\ x.why = "none" /\ x.fate = "none" /\ Undecided(d)
  BY <1>1, BusyDatagram DEF UInv, Settle
<1>3. /\ EnforceInv' /\ Grows /\ log' = log /\ raw' = raw
      /\ \A v \in Workers : v # x.worker => call'[v] = call[v]
      /\ call[x.worker] \in Call /\ call[x.worker].verdict # "none"
  <2>1. Return(x.worker)
    <3>1. PICK z : z = [x EXCEPT !.pc = "done"]
      OBVIOUS
    <3>2. z.worker = x.worker
      BY <1>2, <3>1 DEF Datagram
    <3> QED
      BY <1>1, <3>1, <3>2 DEF Settle
  <2> QED
    BY <1>2, <2>1, ReturnKeeps DEF UInv
<1>4. PICK z : z = [x EXCEPT !.pc = "done"]
  OBVIOUS
<1>5. /\ z \in Datagram /\ z.pc = "done" /\ z.worker = x.worker /\ z.packet = x.packet
      /\ z.cfg = x.cfg /\ z.id = x.id /\ z.labelGen = x.labelGen /\ z.window = x.window
      /\ z.born = x.born /\ z.sent = x.sent /\ z.fate = x.fate /\ z.why = x.why
  BY <1>2, <1>4 DEF Datagram
<1>6. UNCHANGED loadVars
  BY DEF Settle
<1>7. ASSUME NEW y \in Datagram, dgram' = [dgram EXCEPT ![d] = y], FiltersKept,
             NEW stat0 \in Stats, Bump(stat0), CountsOnly(y, stat0),
             y.worker = x.worker, y.pc = "done", History(d, y, log, raw)
      PROVE  UInv'
  <2>1. GoodDatagram(d, y, log', raw', call'[y.worker])
    BY <1>3, <1>7 DEF GoodDatagram, Asking
  <2>2. Counting'
    BY <1>2, <1>7, TallyBumped DEF UInv
  <2>3. /\ filter[y.worker] # NoFilter /\ Alone(d, y.worker)
        /\ \A v \in Workers : v # y.worker => call'[v] = call[v]
    BY <1>2, <1>3, <1>7
  <2> QED
    BY <1>3, <1>6, <1>7, <2>1, <2>2, <2>3, CallStep
<1>8. /\ x.born \in Nat /\ x.labelGen \in Nat /\ Len(log) \in Nat /\ Len(log) # 0
      /\ x.packet \in Packets
  <2>1. x.born \in Nat /\ x.labelGen \in Nat /\ Len(log) \in Nat /\ x.packet \in Packets
    BY <1>2, DatagramFields, LenLog DEF UInv
  <2>2. Len(log) # 0
    BY <1>2, <2>1 DEF HeaderKept
  <2> QED
    BY <2>1, <2>2
<1>9. CASE call[x.worker].verdict = "allow"
  <2>1. PICK s : s = <<Bytes(d, Parsed(x.packet).header.len, Total(x.packet))>>
    OBVIOUS
  <2>2. s \in Seq(Span)
    <3>1. x.packet.stream \in Stream /\ Total(x.packet) \in Nat
      BY <1>8, PacketIs
    <3>2. Parsed(x.packet).header.len \in Nat
      <4>1. Ppv2Parse(x.packet.stream, Total(x.packet)).tag = "ok"
        BY <1>2 DEF HeaderKept, Parsed, Buffer
      <4>2. Ppv2Parse(x.packet.stream, Total(x.packet)).header.len \in Nat
        BY <3>1, <4>1, OkIsWhole
      <4> QED
        BY <4>2 DEF Parsed, Buffer
    <3> QED
      BY <2>1, <3>1, <3>2 DEF Bytes, Span
  <2>3. Forward(d, z)
    BY <1>1, <1>4, <1>5, <1>9 DEF Settle
  <2>4. /\ filter' = [filter EXCEPT ![x.worker].payload = s] /\ Bump("allowed")
        /\ \/ dgram' = [dgram EXCEPT ![d] =
                            [Done(z, "forwarded", "allowed") EXCEPT !.sent = s]]
           \/ dgram' = [dgram EXCEPT ![d] = Done(z, "dropped", "set_failed")]
    BY <1>5, <2>1, <2>3 DEF Forward, Staged, Buffer
  <2>5. FiltersKept
    <3>1. filter[x.worker] \in Instance /\ GoodFilter(filter[x.worker], log, raw)
      BY <1>2 DEF UInv, Core
    <3>2. PICK f : f = [filter[x.worker] EXCEPT !.payload = s]
      OBVIOUS
    <3>3. f \in Instance /\ f.name = filter[x.worker].name /\ f.cfg = filter[x.worker].cfg
      BY <2>2, <3>1, <3>2 DEF Instance
    <3>4. GoodFilter(f, log, raw) /\ f # NoFilter
      BY <3>1, <3>3, InstanceAssumption DEF GoodFilter
    <3>5. filter' = [filter EXCEPT ![x.worker] = f]
      BY <2>4, <3>2
    <3>6. filter \in [Workers -> Instance \union {NoFilter}]
      BY DEF UInv, Core
    <3>7. /\ filter' \in [Workers -> Instance \union {NoFilter}] /\ filter'[x.worker] = f
          /\ \A w \in Workers : w # x.worker => filter'[w] = filter[w]
      BY <1>2, <3>3, <3>5, <3>6
    <3> QED
      BY <1>3, <3>4, <3>7 DEF FiltersKept, UInv, Core
  <2>6. \E g \in x.window : AllowsIn(x, log, raw, g)
    BY <1>2, <1>9 DEF GoodDatagram, Asking
  <2>7. PICK stat0 : stat0 = "allowed"
    OBVIOUS
  <2>8. stat0 \in Stats /\ Bump(stat0)
    BY <2>4, <2>7 DEF Stats
  <2>9. CASE dgram' = [dgram EXCEPT ![d] = [Done(z, "forwarded", "allowed") EXCEPT !.sent = s]]
    <3>1. PICK fate, why : fate = "forwarded" /\ why = "allowed"
      OBVIOUS
    <3>2. fate \in Fates /\ why \in Whys
      BY <3>1 DEF Fates, Whys, Stats
    <3>3. PICK v : v = Done(z, fate, why)
      OBVIOUS
    <3>4. PICK y : y = [v EXCEPT !.sent = s]
      OBVIOUS
    <3>5. /\ v \in Datagram /\ v.worker = z.worker /\ v.packet = z.packet
          /\ v.cfg = z.cfg /\ v.pc = z.pc /\ v.id = z.id /\ v.labelGen = z.labelGen
          /\ v.window = z.window /\ v.born = z.born /\ v.fate = fate /\ v.why = why
      BY <1>5, <3>2, <3>3, DoneFields
    <3>6. /\ y \in Datagram /\ y.worker = v.worker /\ y.packet = v.packet
          /\ y.cfg = v.cfg /\ y.pc = v.pc /\ y.id = v.id /\ y.labelGen = v.labelGen
          /\ y.window = v.window /\ y.born = v.born /\ y.sent = s
          /\ y.fate = v.fate /\ y.why = v.why
      BY <2>2, <3>4, <3>5, SentFields
    <3>7. /\ y \in Datagram /\ y.worker = x.worker /\ y.packet = x.packet
          /\ y.cfg = x.cfg /\ y.pc = "done" /\ y.id = x.id /\ y.labelGen = x.labelGen
          /\ y.window = x.window /\ y.born = x.born /\ y.sent = s
          /\ y.fate = "forwarded" /\ y.why = "allowed"
      BY <1>5, <3>1, <3>5, <3>6
    <3>8. History(d, y, log, raw)
      BY <1>2, <1>8, <2>1, <2>6, <3>7 DEF GoodDatagram, History, HeaderKept, AllowsIn
    <3>9. CountsOnly(y, stat0)
      BY <2>7, <3>7 DEF CountsOnly, CountedAs, Stats
    <3>10. dgram' = [dgram EXCEPT ![d] = y]
      BY <2>9, <3>1, <3>3, <3>4
    <3> QED
      BY <1>7, <2>5, <2>8, <3>7, <3>8, <3>9, <3>10
  <2>10. CASE dgram' = [dgram EXCEPT ![d] = Done(z, "dropped", "set_failed")]
    <3>1. PICK fate, why : fate = "dropped" /\ why = "set_failed"
      OBVIOUS
    <3>2. fate \in Fates /\ why \in Whys
      BY <3>1 DEF Fates, Whys
    <3>3. PICK y : y = Done(z, fate, why)
      OBVIOUS
    <3>4. /\ y \in Datagram /\ y.worker = z.worker /\ y.packet = z.packet
          /\ y.pc = z.pc /\ y.window = z.window /\ y.born = z.born
          /\ y.fate = fate /\ y.why = why
      BY <1>5, <3>2, <3>3, DoneFields
    <3>5. /\ y \in Datagram /\ y.worker = x.worker /\ y.pc = "done"
          /\ y.window = x.window /\ y.born = x.born
          /\ y.fate = "dropped" /\ y.why = "set_failed"
      BY <1>5, <3>1, <3>4
    <3>6. History(d, y, log, raw)
      BY <1>2, <3>5 DEF GoodDatagram, History
    <3>7. CountsOnly(y, stat0)
      BY <2>7, <3>5 DEF CountsOnly, CountedAs, Stats
    <3>8. dgram' = [dgram EXCEPT ![d] = y]
      BY <2>10, <3>1, <3>3
    <3> QED
      BY <1>7, <2>5, <2>8, <3>5, <3>6, <3>7, <3>8
  <2> QED
    BY <2>4, <2>9, <2>10
<1>10. CASE call[x.worker].verdict # "allow"
  <2>1. PICK fate, why : fate = "dropped" /\ why = "denied"
    OBVIOUS
  <2>2. fate \in Fates /\ why \in Whys /\ why \in Stats
    BY <2>1 DEF Fates, Whys, Stats
  <2>3. PICK y : y = Done(z, fate, why)
    OBVIOUS
  <2>4. dgram' = [dgram EXCEPT ![d] = y] /\ Bump(why) /\ filter' = filter
    BY <1>1, <1>4, <1>5, <1>10, <2>1, <2>3 DEF Settle
  <2>5. /\ y \in Datagram /\ y.worker = z.worker /\ y.packet = z.packet
        /\ y.cfg = z.cfg /\ y.pc = z.pc /\ y.id = z.id
        /\ y.window = z.window /\ y.born = z.born
        /\ y.fate = fate /\ y.why = why
    BY <1>5, <2>2, <2>3, DoneFields
  <2>6. /\ y \in Datagram /\ y.worker = x.worker /\ y.pc = "done" /\ y.cfg = x.cfg
        /\ y.id = x.id /\ y.window = x.window /\ y.born = x.born
        /\ y.fate = "dropped" /\ y.why = "denied"
    BY <1>5, <2>1, <2>5
  <2>7. \E g \in x.window : ~AllowsIn(x, log, raw, g)
    <3>1. call[x.worker].verdict = "deny"
      BY <1>3, <1>10 DEF Call
    <3> QED
      BY <1>2, <3>1 DEF GoodDatagram, Asking
  <2>8. History(d, y, log, raw)
    BY <1>2, <2>6, <2>7 DEF GoodDatagram, History, AllowsIn
  <2>9. CountsOnly(y, why)
    BY <2>1, <2>6 DEF CountsOnly, CountedAs, Stats
  <2>10. FiltersKept
    BY <1>3, <2>4, SameFilters DEF UInv
  <2> QED
    BY <1>7, <2>2, <2>4, <2>6, <2>8, <2>9, <2>10
<1> QED
  BY <1>9, <1>10

\* A worker takes over the listener in force.
LEMMA AdoptStep ==
    ASSUME UInv, NEW w \in Workers, Adopt(w)
    PROVE  UInv'
<1>1. PICK f : f = listener[UdpListener][1]
  OBVIOUS
<1>2. PICK n : n = [name |-> f.name, cfg |-> f.cfg, payload |-> <<>>]
  OBVIOUS
<1>3. /\ filter' = [filter EXCEPT ![w] = n] /\ listener[UdpListener] # <<>>
      /\ log' = log /\ raw' = raw /\ call' = call /\ UNCHANGED loadVars
      /\ dgram' = dgram /\ counters' = counters
  BY <1>1, <1>2 DEF Adopt
<1>4. f \in Filters /\ GoodFilter(f, log, raw)
  <2>1. /\ listener[UdpListener] \in Seq(Filters)
        /\ AllGood(listener[UdpListener], log, raw)
    BY UdpAssumption DEF UInv, LoadGood, LoadType, LoadFilters
  <2>2. 1 \in DOMAIN listener[UdpListener] /\ f \in Filters
    BY <1>1, <1>3, <2>1
  <2> QED
    BY <1>1, <2>1, <2>2 DEF AllGood
<1>5. n \in Instance /\ n.name = f.name /\ n.cfg = f.cfg
  <2>1. <<>> \in Seq(Span)
    OBVIOUS
  <2> QED
    BY <1>2, <1>4, <2>1 DEF Instance, Filters
<1>6. n # NoFilter /\ GoodFilter(n, log, raw)
  BY <1>4, <1>5, InstanceAssumption DEF GoodFilter
<1>7. /\ filter' \in [Workers -> Instance \union {NoFilter}] /\ filter'[w] = n
      /\ \A v \in Workers : v # w => filter'[v] = filter[v]
  BY <1>3, <1>5 DEF UInv, Core
<1>8. EnforceInv' /\ Grows
  BY <1>3, EnforceUnchanged DEF UInv, vars
<1>9. LoadGood'
  BY <1>3, <1>8, LoadingGrows DEF UInv
<1>10. Arrived' = Arrived
  BY <1>3 DEF Arrived
<1>11. Exclusive'
  BY <1>3, <1>10 DEF UInv, Core, Exclusive, Alone
<1>12. \A d \in Arrived : dgram[d].worker \in Workers
  BY ArrivedDatagram, DatagramFields DEF UInv
<1>13. Core'
  BY <1>3, <1>6, <1>7, <1>10, <1>11, <1>12 DEF UInv, Core
<1>14. Counting'
  BY <1>3, <1>10 DEF UInv, Counting, UdpCountersTally
<1> QED
  BY <1>8, <1>9, <1>13, <1>14 DEF UInv

\* Loading touches no datagram, and no instance.
LEMMA LoadKeeps ==
    ASSUME UInv, LoadGood', EnforceInv', Grows, call' = call, UNCHANGED udpVars
    PROVE  UInv'
<1>1. filter' = filter /\ dgram' = dgram /\ counters' = counters
  BY DEF udpVars
<1>2. Arrived' = Arrived
  BY <1>1 DEF Arrived
<1>3. FiltersKept
  BY <1>1, SameFilters DEF UInv
<1>4. \A d \in Arrived : GoodDatagram(d, dgram[d], log', raw', call[dgram[d].worker])
  BY ArrivedDatagram, GoodGrows DEF UInv
<1>5. Exclusive'
  BY <1>1, <1>2 DEF UInv, Core, Exclusive, Alone
<1>6. Core'
  BY <1>1, <1>2, <1>3, <1>4, <1>5 DEF UInv, Core, FiltersKept
<1>7. Counting'
  BY <1>1, <1>2 DEF UInv, Counting, UdpCountersTally
<1> QED
  BY <1>6, <1>7 DEF UInv

-----------------------------------------------------------------------------
(* The theorems.                                                           *)

LEMMA UdpInitGood == UdpInit => UInv
<1> SUFFICES ASSUME UdpInit PROVE UInv
  OBVIOUS
<1>1. EnforceInv
  BY EnforceInit DEF UdpInit
<1>2. LoadGood
  <2>1. <<>> \in Seq(Filters) /\ DOMAIN <<>> = {}
    OBVIOUS
  <2>2. \A l \in Listeners : listener[l] = <<>> /\ due[l] = <<>>
    BY DEF UdpInit, LoadInit
  <2>3. ShownAll(<<>>, raw) = <<>>
    BY <2>1 DEF ShownAll
  <2>4. LoadType
    BY <2>1 DEF LoadType, UdpInit, LoadInit
  <2>5. LoadFilters
    BY <2>1, <2>2 DEF LoadFilters, AllGood, UdpInit, LoadInit
  <2>6. LoadDue
    BY <2>2, <2>3 DEF LoadDue, Changing, UdpInit, LoadInit
  <2>7. LoadCarried
    BY DEF LoadCarried, Published, TableAt, UdpInit, LoadInit, Init
  <2> QED
    BY <2>4, <2>5, <2>6, <2>7 DEF LoadGood
<1>3. Arrived = {}
  BY DEF UdpInit, Arrived
<1>4. Core
  BY <1>3 DEF Core, Exclusive, UdpInit
<1>5. Counting
  <2>1. \A stat \in Stats :
            {d \in Arrived : dgram[d].why \in CountedAs(stat)} = {} /\ counters[stat] = 0
    BY <1>3 DEF UdpInit
  <2>2. counters \in [Stats -> Nat]
    BY DEF UdpInit
  <2> QED
    BY <2>1, <2>2, FS_EmptySet DEF Counting, UdpCountersTally
<1> QED
  BY <1>1, <1>2, <1>4, <1>5 DEF UInv

LEMMA UdpStepKeeps ==
    ASSUME UInv, [UdpNext]_allVars
    PROVE  UInv'
<1>1. CASE LoadNext /\ UNCHANGED udpVars
  BY <1>1, LoadStep, LoadKeeps DEF UInv
<1>2. CASE UNCHANGED allVars
  <2>1. /\ UNCHANGED vars /\ UNCHANGED loadVars /\ UNCHANGED udpVars
        /\ call' = call /\ log' = log
    BY <1>2 DEF allVars, vars, loadVars, udpVars
  <2>2. EnforceInv' /\ Grows
    BY <2>1, EnforceUnchanged DEF UInv
  <2>3. LoadGood'
    BY <2>1, <2>2, LoadingGrows DEF UInv
  <2> QED
    BY <2>1, <2>2, <2>3, LoadKeeps
<1> QED
  BY <1>1, <1>2, AdoptStep, OnDataStep, CallPermitsStep, PermitsAnswersStep, SettleStep
     DEF UdpNext

LEMMA UdpInvariant == UdpSpec => []UInv
BY UdpInitGood, UdpStepKeeps, PTL DEF UdpSpec

\* LOADING, for any listeners and any updates: between updates a listener runs
\* what the last lawful update to it said, and a UDP listener whose last update
\* was not lawful denies (lib.rs 49-183, config.rs 251-411).
THEOREM ListenersRunWhatWasLawful == UdpSpec => []RunsWhatWasLawful
<1>1. UInv => RunsWhatWasLawful
  BY DEF UInv, LoadGood, LoadDue, Changing, ShownAll, Shown, RunsWhatWasLawful
<1> QED
  BY <1>1, UdpInvariant, PTL

\* THE TABLE, for any listeners and any updates: between updates the table in
\* force is the last lawful carrier's, whatever became of its listener, and no
\* update takes it away (lib.rs 71, 94, 128-141).
THEOREM TablesInForceAreDue == UdpSpec => []TableInForceIsDue
<1>1. UInv => TableInForceIsDue
  BY DEF UInv, LoadGood, LoadCarried, TableInForceIsDue
<1> QED
  BY <1>1, UdpInvariant, PTL

\* FORWARDING, for any number of workers, datagrams and tables: a datagram a
\* judging filter forwards carried a whole header, goes on as exactly its own
\* bytes behind it, and is allowed by a table permits() could have read
\* (udp.rs 94-137).
THEOREM ForwardingIsLawful == UdpSpec => []ForwardedIsLawful
<1>1. UInv => ForwardedIsLawful
  <2> SUFFICES ASSUME UInv, NEW d \in Arrived, dgram[d].why = "allowed"
               PROVE  LET x == dgram[d]
                          p == Ppv2Parse(x.packet.stream, Total(x.packet))
                      IN /\ p.tag = "ok"
                         /\ x.sent = <<Bytes(d, p.header.len, Total(x.packet))>>
                         /\ x.labelGen # 0 /\ x.labelGen \in x.born .. Len(log)
                         /\ x.id = Synthesize(TableAt(log, x.labelGen), p.header)
                         /\ \E g \in x.window : Allows(x, g)
    BY DEF ForwardedIsLawful
  <2>1. History(d, dgram[d], log, raw)
    BY DEF UInv, Core, GoodDatagram
  <2>2. /\ HeaderKept(dgram[d], log)
        /\ dgram[d].sent = <<Bytes(d, Parsed(dgram[d].packet).header.len,
                                    Total(dgram[d].packet))>>
        /\ \E g \in dgram[d].window : AllowsIn(dgram[d], log, raw, g)
    BY <2>1 DEF History
  <2> QED
    BY <2>2 DEF HeaderKept, Parsed, Buffer, AllowsIn, Allows
<1> QED
  BY <1>1, UdpInvariant, PTL

\* DROPPING: what is dropped as headerless, as denied or for want of a table is
\* dropped for that reason (udp.rs 94-96, 99-117, 127).
THEOREM DroppingIsJustified == UdpSpec => []DroppedIsJustified
<1>1. UInv => DroppedIsJustified
  <2> SUFFICES ASSUME UInv, NEW d \in Arrived
               PROVE  LET x == dgram[d] IN
                      /\ x.why = "not_ppv2" =>
                            Ppv2Parse(x.packet.stream, Total(x.packet)).tag # "ok"
                      /\ x.why = "denied" => \E g \in x.window : ~Allows(x, g)
                      /\ x.why = "no_table" => x.born = 0
    BY DEF DroppedIsJustified
  <2>1. History(d, dgram[d], log, raw)
    BY DEF UInv, Core, GoodDatagram
  <2> QED
    BY <2>1 DEF History, Parsed, Buffer, AllowsIn, Allows
<1> QED
  BY <1>1, UdpInvariant, PTL

\* BEFORE A CARRIER LANDS, whatever was loaded, rejected or replaced: no datagram
\* goes through (config.rs 12, udp.rs 92-96, lib.rs 85-102).
THEOREM NothingPassesBeforeCarrier == UdpSpec => []BeforeCarrierDenies
<1>1. UInv => BeforeCarrierDenies
  <2> SUFFICES ASSUME UInv, log = <<>>, NEW d \in Arrived
               PROVE  dgram[d].fate # "forwarded"
    BY DEF BeforeCarrierDenies
  <2>1. History(d, dgram[d], log, raw)
    BY DEF UInv, Core, GoodDatagram
  <2>2. Len(log) = 0
    OBVIOUS
  <2> QED
    BY <2>1, <2>2 DEF History
<1> QED
  BY <1>1, UdpInvariant, PTL

\* COUNTERS: allowed, denied and not_ppv2 are the datagrams judged so and the
\* headerless ones (udp.rs 131-149).
THEOREM UdpCountersAreExact == UdpSpec => []UdpCountersTally
<1>1. UInv => UdpCountersTally
  BY DEF UInv, Counting
<1> QED
  BY <1>1, UdpInvariant, PTL

=============================================================================
