------------------------------ MODULE TcpProofs -----------------------------
(***************************************************************************)
(* The TCP filters for any number of connections, workers, Configs and     *)
(* tables: admission, denial, the finality of refusals and the counters.   *)
(*                                                                         *)
(* The invariant is one record of facts per connection (GoodConn), stated  *)
(* over the record, the tables, the rules and the call of its worker, and  *)
(* the fact that a worker is in one callback at a time (Exclusive).        *)
(***************************************************************************)
EXTENDS TcpFilters, EnforcementProofs, Ppv2Lemmas, FiniteSetTheorems, TLAPS

\* What each filter of a chain leaves of the flags, the reason and the callback.
Shape(x) ==
    /\ Chain[x.cfg] = "auth" => x.at # "ppv2"
    /\ Chain[x.cfg] = "ppv2_auth" => x.at \in {"ppv2", "through"}
    /\ x.at = "ppv2" => ~x.done /\ x.sni = NoName /\ (x.reason # "none" => x.refused)
    /\ x.at = "tls_inspector" => x.reason = "none"
    /\ x.at = "auth" => (x.reason # "none" \/ x.pc = "permits" => x.settled)
    /\ x.at = "through" => x.reason = "none"
    /\ x.pc # "wait" => /\ x.at \in {"ppv2", "auth"}
                        /\ x.reason = "none"
                        /\ x.at = "ppv2" => Chain[x.cfg] = "ppv2_auth"
    /\ x.pc = "judge" => x.at = "ppv2"

\* A whole header was read, drained, and turned into the label under a table L has.
HeaderKept(x, L) ==
    LET p == Ppv2Parse(x.stream, x.got) IN
    /\ p.tag = "ok"
    /\ x.drained = p.header.len
    /\ x.labelGen # 0 /\ x.labelGen \in x.born .. Len(L)
    /\ x.remote = Synthesize(TableAt(L, x.labelGen), p.header)

AllowsIn(x, L, R, g) == <<x.sni, x.remote>> \in JudgeAgainst(R[x.cfg], TableAt(L, g))

\* What was labelled, admitted and denied so far, with tables L and rules R.
History(x, L, R) ==
    /\ R[x.cfg] # Unparsed
    /\ x.born <= Len(L)
    /\ x.window \subseteq 0 .. Len(L)
    /\ (x.at = "ppv2" /\ x.pc # "wait") \/ (x.at # "ppv2" /\ Chain[x.cfg] # "auth")
          => HeaderKept(x, L)
    /\ x.at = "through" => \E g \in x.window : AllowsIn(x, L, R, g)
    /\ x.reason = "denied_by_allowlist" => \E g \in x.window : ~AllowsIn(x, L, R, g)

\* The call c of permits() asks for this connection, and its answer is that of a
\* table of the window.
Asking(x, L, R, c) ==
    x.pc = "permits" =>
        /\ c \in Call /\ c.cfg = x.cfg /\ c.query = <<x.sni, x.remote>>
        /\ c.verdict = "allow" => \E g \in x.window : AllowsIn(x, L, R, g)
        /\ c.verdict = "deny" => \E g \in x.window : ~AllowsIn(x, L, R, g)

GoodConn(x, L, R, c) == Shape(x) /\ History(x, L, R) /\ Asking(x, L, R, c)

\* No other connection of worker w is in a callback.
Alone(k, w) == \A j \in Accepted : j # k /\ conn[j].worker = w => conn[j].pc = "wait"

Exclusive == \A k \in Accepted : conn[k].pc # "wait" => Alone(k, conn[k].worker)

Core ==
    /\ EnforceInv
    /\ conn \in [Conns -> Conn \union {NoConn}]
    /\ Exclusive
    /\ \A k \in Accepted : GoodConn(conn[k], log, raw, call[conn[k].worker])

Counting == counters \in [Filters -> [Stats -> Nat]] /\ CountersTally

CInv == Core /\ Counting

\* A refused connection keeps its reason and its place.
Final ==
    \A k \in Accepted :
        conn[k].reason # "none" =>
            conn'[k].reason = conn[k].reason /\ conn'[k].at = conn[k].at

-----------------------------------------------------------------------------
(* Connections as records.                                                 *)

LEMMA ConnFields ==
    ASSUME NEW x \in Conn
    PROVE  /\ x.worker \in Workers /\ x.cfg \in Configs /\ x.stream \in Stream
           /\ x.stream \in Streams /\ x.got \in Nat /\ x.peek \in Nat /\ x.want \in Nat
           /\ x.at \in {"ppv2", "tls_inspector", "auth", "through"}
           /\ x.pc \in {"wait", "judge", "permits"}
           /\ x.remote \in Identities \union {NoIdentity}
           /\ x.sni \in Names \union {NoName}
           /\ x.reason \in Reasons /\ x.born \in Nat /\ x.labelGen \in Nat
           /\ x.window \in SUBSET Nat
           /\ Chain[x.cfg] \in {"ppv2_auth", "tls", "auth"}
           /\ x.done \in BOOLEAN /\ x.refused \in BOOLEAN /\ x.settled \in BOOLEAN
<1>1. /\ x.worker \in Workers /\ x.cfg \in Configs /\ x.stream \in Streams
      /\ x.got \in Cuts \union {0} /\ x.peek \in Nat /\ x.want \in Nat
      /\ x.at \in {"ppv2", "tls_inspector", "auth", "through"}
      /\ x.pc \in {"wait", "judge", "permits"}
      /\ x.remote \in Identities \union {NoIdentity}
      /\ x.sni \in Names \union {NoName}
      /\ x.reason \in Reasons /\ x.born \in Nat /\ x.labelGen \in Nat
      /\ x.window \in SUBSET Nat
      /\ x.done \in BOOLEAN /\ x.refused \in BOOLEAN /\ x.settled \in BOOLEAN
  BY DEF Conn
<1>2. x.stream \in Stream
  BY <1>1, StreamsAssumption
<1>3. x.got \in Nat
  <2>1. \A n \in Cuts \union {0} : n \in Nat
    BY CutsAssumption
  <2> QED
    BY <1>1, <2>1
<1>4. Chain[x.cfg] \in {"ppv2_auth", "tls", "auth"}
  BY <1>1, ChainAssumption
<1> QED
  BY <1>1, <1>2, <1>3, <1>4

LEMMA AcceptedConn ==
    ASSUME Core, NEW k \in Accepted
    PROVE  conn[k] \in Conn /\ k \in Conns
BY DEF Core, Accepted

\* More tables and more Configs change nothing of what is known of a connection.
LEMMA GoodGrows ==
    ASSUME EnforceInv, EnforceInv', Grows, NEW x \in Conn, NEW c, GoodConn(x, log, raw, c)
    PROVE  GoodConn(x, log', raw', c)
<1>1. Len(log) \in Nat /\ Len(log') \in Nat /\ Len(log) <= Len(log')
  BY DEF EnforceInv, Grows
<1>2. x.cfg \in Configs /\ x.born \in Nat /\ x.labelGen \in Nat
  BY ConnFields
<1>3. /\ raw[x.cfg] # Unparsed /\ raw'[x.cfg] = raw[x.cfg]
      /\ x.window \subseteq 0 .. Len(log)
  BY <1>2 DEF GoodConn, History, Grows
<1>4. \A g \in x.window : AllowsIn(x, log', raw', g) <=> AllowsIn(x, log, raw, g)
  BY <1>3 DEF AllowsIn, Grows
<1>5. HeaderKept(x, log) => HeaderKept(x, log')
  <2> SUFFICES ASSUME HeaderKept(x, log) PROVE HeaderKept(x, log')
    OBVIOUS
  <2>1. x.labelGen \in 0 .. Len(log) /\ x.labelGen \in x.born .. Len(log')
    BY <1>1, <1>2 DEF HeaderKept
  <2>2. TableAt(log', x.labelGen) = TableAt(log, x.labelGen)
    BY <2>1 DEF Grows
  <2> QED
    BY <2>1, <2>2 DEF HeaderKept
<1>6. History(x, log', raw')
  <2>1. x.window \subseteq 0 .. Len(log') /\ x.born <= Len(log')
    BY <1>1, <1>2, <1>3 DEF GoodConn, History
  <2> QED
    BY <1>3, <1>4, <1>5, <2>1 DEF GoodConn, History
<1>7. Asking(x, log', raw', c)
  BY <1>4 DEF GoodConn, Asking
<1> QED
  BY <1>6, <1>7 DEF GoodConn

\* A step that writes one connection k, to y.
LEMMA OneConn ==
    ASSUME Core, EnforceInv', Grows, NEW k \in Conns, NEW y \in Conn,
           conn' = [conn EXCEPT ![k] = y],
           \A v \in Workers : v # y.worker => call'[v] = call[v],
           call'[y.worker] = call[y.worker] \/ Alone(k, y.worker),
           y.pc # "wait" => Alone(k, y.worker),
           GoodConn(y, log', raw', call'[y.worker])
    PROVE  Core'
<1>1. /\ conn \in [Conns -> Conn \union {NoConn}]
      /\ conn' \in [Conns -> Conn \union {NoConn}]
      /\ conn'[k] = y /\ \A j \in Conns : j # k => conn'[j] = conn[j]
  BY DEF Core
<1>2. Accepted' = Accepted \union {k}
  BY <1>1, MarkerAssumption DEF Accepted
<1>3. ASSUME NEW j \in Accepted, j # k
      PROVE  GoodConn(conn[j], log', raw', call'[conn[j].worker])
  <2>1. conn[j] \in Conn
    BY AcceptedConn
  <2>2. GoodConn(conn[j], log', raw', call[conn[j].worker])
    BY <2>1, GoodGrows DEF Core
  <2>3. CASE call'[conn[j].worker] = call[conn[j].worker]
    BY <2>2, <2>3
  <2>4. CASE call'[conn[j].worker] # call[conn[j].worker]
    <3>1. conn[j].worker = y.worker /\ conn[j].pc = "wait"
      BY <1>3, <2>1, <2>4, ConnFields DEF Alone
    <3> QED
      BY <2>2, <3>1 DEF GoodConn, Asking
  <2> QED
    BY <2>3, <2>4
<1>4. \A j \in Accepted' : GoodConn(conn'[j], log', raw', call'[conn'[j].worker])
  BY <1>1, <1>2, <1>3 DEF Accepted
<1>5. ASSUME NEW i \in Accepted', NEW j \in Accepted', i # j,
             conn'[i].pc # "wait", conn'[j].worker = conn'[i].worker
      PROVE  conn'[j].pc = "wait"
  <2>1. i \in Conns /\ j \in Conns
    BY DEF Accepted
  <2>2. CASE i = k
    BY <1>1, <1>2, <1>5, <2>1, <2>2 DEF Alone
  <2>3. CASE j = k
    <3>1. i \in Accepted /\ conn[i].pc # "wait" /\ conn[i].worker = y.worker
      BY <1>1, <1>2, <1>5, <2>1, <2>3
    <3>2. ~Alone(k, y.worker)
      BY <1>5, <2>3, <3>1 DEF Alone
    <3> QED
      BY <1>1, <2>3, <3>2
  <2>4. CASE i # k /\ j # k
    BY <1>1, <1>2, <1>5, <2>1, <2>4 DEF Core, Exclusive, Alone
  <2> QED
    BY <2>2, <2>3, <2>4
<1>6. Exclusive'
  BY <1>5 DEF Exclusive, Alone
<1> QED
  BY <1>1, <1>4, <1>6 DEF Core

LEMMA FinalOne ==
    ASSUME Core, NEW k \in Conns, NEW y, conn' = [conn EXCEPT ![k] = y],
           k \in Accepted => \/ conn[k].reason = "none"
                             \/ y.reason = conn[k].reason /\ y.at = conn[k].at
    PROVE  Final
<1>1. conn'[k] = y /\ \A j \in Conns : j # k => conn'[j] = conn[j]
  BY DEF Core
<1> QED
  BY <1>1 DEF Final, Accepted

-----------------------------------------------------------------------------
(* The counters.                                                           *)

LEMMA TallyKept ==
    ASSUME CInv, NEW k \in Conns, NEW y \in Conn, conn' = [conn EXCEPT ![k] = y],
           counters' = counters,
           \A f \in Filters, stat \in Stats :
               Counts(f, stat, y) <=> k \in Accepted /\ Counts(f, stat, conn[k])
    PROVE  Counting'
<1>1. /\ conn \in [Conns -> Conn \union {NoConn}]
      /\ conn'[k] = y /\ \A j \in Conns : j # k => conn'[j] = conn[j]
  BY DEF CInv, Core
<1>2. Accepted' = Accepted \union {k}
  BY <1>1, MarkerAssumption DEF Accepted
<1>3. ASSUME NEW f \in Filters, NEW stat \in Stats
      PROVE  {j \in Accepted' : Counts(f, stat, conn'[j])}
                 = {j \in Accepted : Counts(f, stat, conn[j])}
  BY <1>1, <1>2 DEF Accepted
<1> QED
  BY <1>3 DEF CInv, Counting, CountersTally

\* y counts where x does, and in f0's stat0 besides.
CountsOneMore(x, y, f0, stat0) ==
    /\ \A f \in Filters, stat \in Stats :
          Counts(f, stat, y) <=> Counts(f, stat, x) \/ (f = f0 /\ stat = stat0)
    /\ ~Counts(f0, stat0, x)

LEMMA TallyBumped ==
    ASSUME CInv, NEW k \in Conns, k \in Accepted, NEW y \in Conn,
           conn' = [conn EXCEPT ![k] = y],
           NEW f0 \in Filters, NEW s0 \in Stats, Bump(f0, s0),
           CountsOneMore(conn[k], y, f0, s0)
    PROVE  Counting'
<1>1. /\ conn \in [Conns -> Conn \union {NoConn}] /\ k \in Conns
      /\ conn'[k] = y /\ \A j \in Conns : j # k => conn'[j] = conn[j]
  BY DEF CInv, Core, Accepted
<1>2. Accepted' = Accepted
  BY <1>1, MarkerAssumption DEF Accepted
<1>3. /\ counters \in [Filters -> [Stats -> Nat]]
      /\ counters' = [counters EXCEPT ![f0] = [counters[f0] EXCEPT ![s0] = counters[f0][s0] + 1]]
  BY DEF CInv, Counting, Bump
<1>4. /\ counters' \in [Filters -> [Stats -> Nat]]
      /\ counters'[f0][s0] = counters[f0][s0] + 1
      /\ \A f \in Filters, stat \in Stats :
            ~(f = f0 /\ stat = s0) => counters'[f][stat] = counters[f][stat]
  BY <1>3
<1>5. ASSUME NEW f \in Filters, NEW stat \in Stats
      PROVE  counters'[f][stat] = Cardinality({j \in Accepted' : Counts(f, stat, conn'[j])})
  <2> DEFINE S == {j \in Accepted : Counts(f, stat, conn[j])}
  <2>1. counters[f][stat] = Cardinality(S)
    BY DEF CInv, Counting, CountersTally
  <2>2. CASE f = f0 /\ stat = s0
    <3>1. {j \in Accepted' : Counts(f, stat, conn'[j])} = S \union {k}
      BY <1>1, <1>2, <2>2 DEF Accepted, CountsOneMore
    <3>2. k \notin S
      BY <2>2 DEF CountsOneMore
    <3>3. IsFiniteSet(S)
      <4>1. S \in SUBSET Conns
        BY DEF Accepted
      <4> QED
        BY <4>1, ConnsAssumption, FS_Subset
    <3> HIDE DEF S
    <3>4. Cardinality(S \union {k}) = Cardinality(S) + 1
      BY <3>2, <3>3, FS_AddElement
    <3> QED
      BY <1>4, <2>1, <2>2, <3>1, <3>4
  <2>3. CASE ~(f = f0 /\ stat = s0)
    <3>1. {j \in Accepted' : Counts(f, stat, conn'[j])} = S
      BY <1>1, <1>2, <2>3 DEF Accepted, CountsOneMore
    <3> HIDE DEF S
    <3> QED
      BY <1>4, <2>1, <2>3, <3>1
  <2> QED
    BY <2>2, <2>3
<1> QED
  BY <1>4, <1>5 DEF Counting, CountersTally

-----------------------------------------------------------------------------
(* Steps that leave the tables, the rules and the calls alone.             *)

LEMMA QuietStep ==
    ASSUME Core, NEW k \in Conns, NEW y \in Conn, conn' = [conn EXCEPT ![k] = y],
           UNCHANGED <<log, raw, call>>,
           y.pc # "wait" => Alone(k, y.worker),
           GoodConn(y, log, raw, call[y.worker])
    PROVE  Core'
<1>1. EnforceInv
  BY DEF Core
<1>2. EnforceInv' /\ Grows
  BY <1>1, EnforceUnchanged DEF vars
<1> QED
  BY <1>2, OneConn

\* A connection whose filter Envoy may call.
LEMMA CallableConn ==
    ASSUME Core, NEW k, NEW f, Callable(k, f)
    PROVE  /\ k \in Accepted /\ k \in Conns /\ conn[k] \in Conn
           /\ conn[k].at = f /\ conn[k].pc = "wait"
           /\ call[conn[k].worker] = Idle
           /\ Alone(k, conn[k].worker)
           /\ GoodConn(conn[k], log, raw, call[conn[k].worker])
BY AcceptedConn DEF Callable, Free, Alone, Core

LEMMA FilterInitGood == FilterInit => CInv
<1> SUFFICES ASSUME FilterInit PROVE CInv
  OBVIOUS
<1>1. EnforceInv
  BY EnforceInit DEF FilterInit
<1>2. conn \in [Conns -> Conn \union {NoConn}] /\ Accepted = {}
  BY DEF FilterInit, Accepted
<1>3. counters \in [Filters -> [Stats -> Nat]]
  BY DEF FilterInit
<1>4. CountersTally
  <2>1. \A f \in Filters, stat \in Stats :
            {k \in Accepted : Counts(f, stat, conn[k])} = {} /\ counters[f][stat] = 0
    BY <1>2 DEF FilterInit
  <2> QED
    BY <2>1, FS_EmptySet DEF CountersTally
<1> QED
  BY <1>1, <1>2, <1>3, <1>4 DEF CInv, Core, Counting, Exclusive

\* Publishing a table and parsing a Config touch no connection.
LEMMA OthersStep ==
    ASSUME CInv, EnforceInv', Grows, call' = call, UNCHANGED filterVars
    PROVE  CInv' /\ Final
<1>1. conn' = conn /\ counters' = counters
  BY DEF filterVars
<1>2. Accepted' = Accepted
  BY <1>1 DEF Accepted
<1>3. \A k \in Accepted : GoodConn(conn[k], log', raw', call[conn[k].worker])
  BY GoodGrows, AcceptedConn DEF CInv, Core
<1>4. Exclusive'
  BY <1>1, <1>2 DEF CInv, Core, Exclusive, Alone
<1>5. Core'
  BY <1>1, <1>2, <1>3, <1>4 DEF CInv, Core
<1>6. Counting'
  BY <1>1, <1>2 DEF CInv, Counting, CountersTally
<1> QED
  BY <1>1, <1>5, <1>6 DEF CInv, Final

LEMMA AcceptStep ==
    ASSUME CInv, NEW k \in Conns, NEW w \in Workers, NEW c \in Configs,
           NEW s \in Streams, NEW peer \in Peers, Accept(k, w, c, s, peer)
    PROVE  CInv' /\ Final
<1>1. Core /\ conn[k] = NoConn /\ raw[c] # Unparsed /\ Len(log) \in Nat
  BY LenLog DEF CInv, Core, Accept
<1>2. PICK y : y =
          [worker |-> w, cfg |-> c, stream |-> s, got |-> 0, open |-> TRUE,
           at |-> IF Chain[c] = "auth" THEN "tls_inspector" ELSE "ppv2", pc |-> "wait",
           want |-> MAX_HEADER, peek |-> MAX_HEADER,
           done |-> FALSE, refused |-> FALSE, settled |-> FALSE,
           remote |-> peer, sni |-> NoName, drained |-> 0, reason |-> "none",
           born |-> Len(log), labelGen |-> 0, window |-> {}]
  OBVIOUS
<1>3. /\ conn' = [conn EXCEPT ![k] = y]
      /\ UNCHANGED <<log, raw, call, counters>>
  BY <1>2 DEF Accept
<1>4. peer \in Identities \union {NoIdentity} /\ MAX_HEADER \in Nat
  BY PeerAssumption DEF MAX_HEADER
<1>5. y \in Conn
  BY <1>1, <1>2, <1>4 DEF Conn, Reasons
<1>6. /\ y.cfg = c /\ y.pc = "wait" /\ y.reason = "none" /\ ~y.done /\ y.sni = NoName
      /\ y.at = IF Chain[c] = "auth" THEN "tls_inspector" ELSE "ppv2"
      /\ y.born = Len(log) /\ y.window = {}
  BY <1>2
<1>7. Chain[c] \in {"ppv2_auth", "tls", "auth"}
  BY ChainAssumption
<1>8. GoodConn(y, log, raw, call[y.worker])
  BY <1>1, <1>6, <1>7 DEF GoodConn, Shape, History, Asking
<1>9. Core'
  BY <1>1, <1>3, <1>5, <1>6, <1>8, QuietStep
<1>10. \A f \in Filters, stat \in Stats : ~Counts(f, stat, y)
  BY <1>6, <1>7 DEF Counts, Filters, Stats
<1>11. k \notin Accepted
  BY <1>1 DEF Accepted
<1>12. Counting'
  BY <1>3, <1>5, <1>10, <1>11, TallyKept
<1> QED
  BY <1>1, <1>3, <1>9, <1>11, <1>12, FinalOne DEF CInv

\* More bytes do not undo what was read of them.
LEMMA DeliverStep ==
    ASSUME CInv, NEW k \in Conns, NEW n \in Cuts, Deliver(k, n)
    PROVE  CInv' /\ Final
<1>1. Core /\ k \in Accepted /\ conn[k] \in Conn
  BY AcceptedConn DEF CInv, Deliver
<1>2. PICK x : x = conn[k]
  OBVIOUS
<1>3. PICK y : y = [x EXCEPT !.got = n]
  OBVIOUS
<1>4. /\ conn' = [conn EXCEPT ![k] = y]
      /\ x.got < n /\ x.at = "ppv2" /\ x.reason = "none"
      /\ UNCHANGED <<log, raw, call, counters>>
  BY <1>2, <1>3 DEF Deliver
<1>5. /\ y \in Conn /\ y.got = n /\ y.worker = x.worker /\ y.cfg = x.cfg
      /\ y.stream = x.stream /\ y.at = x.at /\ y.pc = x.pc /\ y.reason = x.reason
      /\ y.done = x.done /\ y.refused = x.refused /\ y.settled = x.settled
      /\ y.remote = x.remote /\ y.sni = x.sni /\ y.drained = x.drained
      /\ y.born = x.born /\ y.labelGen = x.labelGen /\ y.window = x.window
  BY <1>1, <1>2, <1>3 DEF Conn
<1>6. GoodConn(x, log, raw, call[x.worker])
  BY <1>1, <1>2 DEF Core
<1>7. HeaderKept(x, log) => HeaderKept(y, log)
  <2> SUFFICES ASSUME HeaderKept(x, log) PROVE HeaderKept(y, log)
    OBVIOUS
  <2>1. x.stream \in Stream /\ x.got \in Nat /\ n \in Nat /\ x.got <= n
    <3>1. x.stream \in Stream /\ x.got \in Nat
      BY <1>1, <1>2, ConnFields
    <3>2. n \in Nat
      BY CutsAssumption
    <3> QED
      BY <1>4, <3>1, <3>2
  <2>2. Ppv2Parse(x.stream, n) = Ppv2Parse(x.stream, x.got)
    BY <2>1, VerdictIsStable DEF HeaderKept
  <2> QED
    BY <1>5, <2>2 DEF HeaderKept
<1>8. GoodConn(y, log, raw, call[y.worker])
  BY <1>5, <1>6, <1>7 DEF GoodConn, Shape, History, Asking, AllowsIn
<1>9. y.pc # "wait" => Alone(k, y.worker)
  BY <1>1, <1>2, <1>5 DEF Core, Exclusive
<1>10. Core'
  BY <1>1, <1>4, <1>5, <1>8, <1>9, QuietStep
<1>11. \A f \in Filters, stat \in Stats : Counts(f, stat, y) <=> Counts(f, stat, x)
  BY <1>5 DEF Counts
<1>12. Counting'
  BY <1>1, <1>2, <1>4, <1>5, <1>11, TallyKept
<1> QED
  BY <1>1, <1>2, <1>4, <1>5, <1>10, <1>12, FinalOne DEF CInv

LEMMA TlsInspectStep ==
    ASSUME CInv, NEW k \in Conns, NEW name \in Names \union {NoName}, TlsInspect(k, name)
    PROVE  CInv' /\ Final
<1>1. PICK x : x = conn[k]
  OBVIOUS
<1>2. /\ Core /\ k \in Accepted /\ x \in Conn /\ x.at = "tls_inspector" /\ x.pc = "wait"
      /\ GoodConn(x, log, raw, call[x.worker])
  BY <1>1, CallableConn DEF CInv, TlsInspect
<1>3. PICK y : y = [x EXCEPT !.sni = name, !.at = "auth"]
  OBVIOUS
<1>4. conn' = [conn EXCEPT ![k] = y] /\ UNCHANGED <<log, raw, call, counters>>
  BY <1>1, <1>3 DEF TlsInspect
<1>5. /\ y \in Conn /\ y.at = "auth" /\ y.worker = x.worker /\ y.cfg = x.cfg
      /\ y.stream = x.stream /\ y.got = x.got /\ y.pc = x.pc /\ y.reason = x.reason
      /\ y.done = x.done /\ y.refused = x.refused
      /\ y.remote = x.remote /\ y.drained = x.drained
      /\ y.born = x.born /\ y.labelGen = x.labelGen /\ y.window = x.window
  BY <1>2, <1>3 DEF Conn
<1>6. x.reason = "none"
  BY <1>2 DEF GoodConn, Shape
<1>7. GoodConn(y, log, raw, call[y.worker])
  BY <1>2, <1>5, <1>6 DEF GoodConn, Shape, History, HeaderKept, Asking
<1>8. Core'
  BY <1>2, <1>4, <1>5, <1>7, QuietStep
<1>9. \A f \in Filters, stat \in Stats : Counts(f, stat, y) <=> Counts(f, stat, x)
  BY <1>2, <1>5 DEF Counts
<1>10. Counting'
  BY <1>1, <1>2, <1>4, <1>5, <1>9, TallyKept
<1> QED
  BY <1>1, <1>2, <1>4, <1>6, <1>8, <1>10, FinalOne DEF CInv

LEMMA CloseStep ==
    ASSUME CInv, NEW k \in Conns, Close(k)
    PROVE  CInv' /\ Final
<1>1. PICK x : x = conn[k]
  OBVIOUS
<1>2. Core /\ k \in Accepted /\ x \in Conn /\ GoodConn(x, log, raw, call[x.worker])
  BY <1>1, AcceptedConn DEF CInv, Core, Close
<1>3. PICK y : y = [x EXCEPT !.open = FALSE]
  OBVIOUS
<1>4. conn' = [conn EXCEPT ![k] = y] /\ UNCHANGED <<log, raw, call, counters>>
  BY <1>1, <1>3 DEF Close
<1>5. /\ y \in Conn /\ y.worker = x.worker /\ y.cfg = x.cfg /\ y.at = x.at
      /\ y.stream = x.stream /\ y.got = x.got /\ y.pc = x.pc /\ y.reason = x.reason
      /\ y.done = x.done /\ y.refused = x.refused /\ y.settled = x.settled
      /\ y.remote = x.remote /\ y.sni = x.sni /\ y.drained = x.drained
      /\ y.born = x.born /\ y.labelGen = x.labelGen /\ y.window = x.window
  BY <1>2, <1>3 DEF Conn
<1>6. GoodConn(y, log, raw, call[y.worker])
  BY <1>2, <1>5 DEF GoodConn, Shape, History, HeaderKept, Asking, AllowsIn
<1>7. y.pc # "wait" => Alone(k, y.worker)
  BY <1>1, <1>2, <1>5 DEF Core, Exclusive
<1>8. Core'
  BY <1>2, <1>4, <1>5, <1>6, <1>7, QuietStep
<1>9. \A f \in Filters, stat \in Stats : Counts(f, stat, y) <=> Counts(f, stat, x)
  BY <1>5 DEF Counts
<1>10. Counting'
  BY <1>1, <1>2, <1>4, <1>5, <1>9, TallyKept
<1> QED
  BY <1>1, <1>2, <1>4, <1>5, <1>8, <1>10, FinalOne DEF CInv

-----------------------------------------------------------------------------
(* Ppv2Filter.                                                             *)

\* What the filter can peek at is some of what was received.
LEMMA PeekIsPrefix ==
    ASSUME NEW x \in Conn
    PROVE  Buffered(x) \in Nat /\ Buffered(x) <= x.got
<1>1. x.got \in Nat /\ x.peek \in Nat
  BY ConnFields
<1> QED
  BY <1>1 DEF Buffered

RefuseReasons == {"no_identity_table", "not_proxy_protocol", "set_remote_address_failed"}

LEMMA RefusedFields ==
    ASSUME NEW x \in Conn, NEW why \in RefuseReasons
    PROVE  LET y == Refused(x, why) IN
           /\ y \in Conn /\ y.worker = x.worker /\ y.cfg = x.cfg /\ y.at = x.at
           /\ y.pc = x.pc /\ y.reason = why /\ y.done = x.done /\ y.refused = TRUE
           /\ y.sni = x.sni /\ y.born = x.born /\ y.window = x.window
<1>1. why \in Reasons
  BY DEF Reasons, RefuseReasons
<1> QED
  BY <1>1 DEF Conn, Refused

\* Ppv2Filter::refuse, for a reason that is not the allowlist.
LEMMA RefuseGood ==
    ASSUME Core, NEW k \in Conns, Callable(k, "ppv2"), ~conn[k].refused,
           NEW why \in RefuseReasons,
           conn' = [conn EXCEPT ![k] = Refused(conn[k], why)], UNCHANGED <<log, raw, call>>
    PROVE  Core' /\ Final /\ conn[k].reason = "none"
<1>1. PICK x : x = conn[k]
  OBVIOUS
<1>2. PICK y : y = Refused(x, why)
  OBVIOUS
<1>3. /\ k \in Accepted /\ x \in Conn /\ x.at = "ppv2" /\ x.pc = "wait" /\ ~x.refused
      /\ GoodConn(x, log, raw, call[x.worker])
  BY <1>1, CallableConn
<1>4. /\ y \in Conn /\ y.worker = x.worker /\ y.cfg = x.cfg /\ y.at = x.at
      /\ y.pc = x.pc /\ y.reason = why /\ y.done = x.done /\ y.refused = TRUE
      /\ y.sni = x.sni /\ y.born = x.born /\ y.window = x.window
  BY <1>2, <1>3, RefusedFields
<1>5. x.reason = "none"
  BY <1>3 DEF GoodConn, Shape
<1>6. GoodConn(y, log, raw, call[y.worker])
  BY <1>3, <1>4 DEF GoodConn, Shape, History, Asking, RefuseReasons
<1>7. conn' = [conn EXCEPT ![k] = y]
  BY <1>1, <1>2
<1>8. Core'
  <2>1. y.pc # "wait" => Alone(k, y.worker)
    BY <1>3, <1>4
  <2>2. y \in Conn
    BY <1>4
  <2> QED
    BY <1>6, <1>7, <2>1, <2>2, QuietStep
<1>9. Final
  BY <1>1, <1>5, <1>7, FinalOne
<1> QED
  BY <1>1, <1>5, <1>8, <1>9

\* ... and one that no counter counts.
LEMMA RefuseUncounted ==
    ASSUME CInv, NEW k \in Conns, Callable(k, "ppv2"), ~conn[k].refused,
           NEW why \in RefuseReasons, why # "not_proxy_protocol",
           conn' = [conn EXCEPT ![k] = Refused(conn[k], why)],
           UNCHANGED <<log, raw, call, counters>>
    PROVE  CInv' /\ Final
<1>1. Core' /\ Final /\ conn[k].reason = "none"
  BY RefuseGood DEF CInv
<1>2. PICK y : y = Refused(conn[k], why)
  OBVIOUS
<1>3. k \in Accepted /\ conn[k] \in Conn
  BY CallableConn DEF CInv
<1>4. /\ y \in Conn /\ y.cfg = conn[k].cfg /\ y.at = conn[k].at
      /\ y.reason = why /\ y.done = conn[k].done
  BY <1>2, <1>3, RefusedFields
<1>5. \A f \in Filters, stat \in Stats : Counts(f, stat, y) <=> Counts(f, stat, conn[k])
  BY <1>1, <1>4 DEF Counts, RefuseReasons
<1>6. Counting'
  BY <1>2, <1>3, <1>4, <1>5, TallyKept
<1> QED
  BY <1>1, <1>6 DEF CInv

LEMMA NotProxyProtocolStep ==
    ASSUME CInv, NEW k \in Conns, Callable(k, "ppv2"), ~conn[k].refused,
           NotProxyProtocol(k)
    PROVE  CInv' /\ Final
<1>1. PICK why : why = "not_proxy_protocol"
  OBVIOUS
<1>2. why \in RefuseReasons
  BY <1>1 DEF RefuseReasons
<1>3. PICK x : x = conn[k]
  OBVIOUS
<1>4. PICK y : y = Refused(x, why)
  OBVIOUS
<1>5. /\ conn' = [conn EXCEPT ![k] = Refused(conn[k], why)]
      /\ UNCHANGED <<log, raw, call>>
  BY <1>1 DEF NotProxyProtocol
<1>6. Core' /\ Final /\ x.reason = "none"
  BY <1>2, <1>3, <1>5, RefuseGood DEF CInv
<1>7. /\ k \in Accepted /\ x \in Conn /\ x.at = "ppv2"
      /\ GoodConn(x, log, raw, call[x.worker])
  BY <1>3, CallableConn DEF CInv
<1>8. /\ y \in Conn /\ y.cfg = x.cfg /\ y.at = x.at
      /\ y.reason = why /\ y.done = x.done
  BY <1>2, <1>4, <1>7, RefusedFields
<1>9. Chain[x.cfg] \in {"ppv2_auth", "tls"}
  BY <1>7, ConnFields DEF GoodConn, Shape
<1>10. PICK f0 : f0 = FilterName(x)
  OBVIOUS
<1>11. f0 = IF Chain[x.cfg] = "ppv2_auth" THEN "ppv2_auth" ELSE "ppv2"
  BY <1>7, <1>10 DEF FilterName
<1>12. PICK s0 : s0 = "not_ppv2"
  OBVIOUS
<1>13. f0 \in Filters /\ s0 \in Stats
  BY <1>11, <1>12 DEF Filters, Stats
<1>14. Bump(f0, s0)
  BY <1>3, <1>10, <1>12 DEF NotProxyProtocol
<1>15. CountsOneMore(x, y, f0, s0)
  BY <1>1, <1>6, <1>8, <1>9, <1>11, <1>12 DEF CountsOneMore, Counts, Filters, Stats
<1>16. conn' = [conn EXCEPT ![k] = y]
  BY <1>3, <1>4, <1>5
<1>17. Counting'
  BY <1>3, <1>7, <1>8, <1>13, <1>14, <1>15, <1>16, TallyBumped
<1> QED
  BY <1>6, <1>17 DEF CInv

\* Waiting for more bytes only widens the peek buffer.
LEMMA IncompleteStep ==
    ASSUME CInv, NEW k \in Conns, Callable(k, "ppv2"), Incomplete(k)
    PROVE  CInv' /\ Final
<1>1. PICK x : x = conn[k]
  OBVIOUS
<1>2. /\ Core /\ k \in Accepted /\ x \in Conn /\ x.at = "ppv2" /\ x.pc = "wait"
      /\ GoodConn(x, log, raw, call[x.worker])
  BY <1>1, CallableConn DEF CInv
<1>3. PICK n : n = Parsed(x).want
  OBVIOUS
<1>4. n \in Nat
  BY <1>1, <1>2, <1>3, ConnFields, PeekIsPrefix, NeedAsksAhead DEF Incomplete, Parsed
<1>5. PICK m : m = IF n > x.peek THEN n ELSE x.peek
  OBVIOUS
<1>6. m \in Nat
  BY <1>2, <1>4, <1>5, ConnFields
<1>7. PICK y : y = [x EXCEPT !.want = n, !.peek = m]
  OBVIOUS
<1>8. UNCHANGED <<log, raw, call, counters>>
  BY DEF Incomplete
<1>9. conn' = [conn EXCEPT ![k] = y]
  <2>1. conn' = [conn EXCEPT ![k].want = n,
                             ![k].peek = IF n > @ THEN n ELSE @]
    BY <1>1, <1>3 DEF Incomplete
  <2>2. conn \in [Conns -> Conn \union {NoConn}]
    BY <1>2 DEF Core
  <2> QED
    BY <1>1, <1>2, <1>5, <1>7, <2>1, <2>2 DEF Conn
<1>10. /\ y \in Conn /\ y.worker = x.worker /\ y.cfg = x.cfg /\ y.at = x.at
       /\ y.pc = x.pc /\ y.reason = x.reason /\ y.done = x.done
       /\ y.refused = x.refused /\ y.sni = x.sni /\ y.remote = x.remote
       /\ y.born = x.born /\ y.window = x.window
  BY <1>2, <1>4, <1>6, <1>7 DEF Conn
<1>11. GoodConn(y, log, raw, call[y.worker])
  BY <1>2, <1>10 DEF GoodConn, Shape, History, Asking, AllowsIn
<1>12. Core'
  BY <1>2, <1>8, <1>9, <1>10, <1>11, QuietStep
<1>13. \A f \in Filters, stat \in Stats : Counts(f, stat, y) <=> Counts(f, stat, x)
  BY <1>10 DEF Counts
<1>14. Counting'
  BY <1>1, <1>2, <1>8, <1>9, <1>10, <1>13, TallyKept
<1> QED
  BY <1>1, <1>2, <1>9, <1>10, <1>12, <1>14, FinalOne DEF CInv

LEMMA LabelledFields ==
    ASSUME NEW x \in Conn, NEW h, NEW g \in Nat, h.len \in Nat,
           Synthesize(TableAt(log, g), h) \in Identities
    PROVE  LET y == Labelled(x, h, g) IN
           /\ y \in Conn /\ y.worker = x.worker /\ y.cfg = x.cfg /\ y.at = x.at
           /\ y.stream = x.stream /\ y.got = x.got
           /\ y.pc = x.pc /\ y.reason = x.reason /\ y.done = x.done
           /\ y.refused = x.refused /\ y.sni = x.sni /\ y.born = x.born
           /\ y.window = x.window /\ y.labelGen = g /\ y.drained = h.len
           /\ y.remote = Synthesize(TableAt(log, g), h)
<1>1. Synthesize(TableAt(log, g), h) \in Identities \union {NoIdentity}
  OBVIOUS
<1> QED
  BY <1>1 DEF Conn, Labelled

LEMMA ContinuedFields ==
    ASSUME NEW x \in Conn
    PROVE  LET y == Continued(x) IN
           /\ y \in Conn /\ y.worker = x.worker /\ y.cfg = x.cfg
           /\ y.stream = x.stream /\ y.got = x.got
           /\ y.pc = x.pc /\ y.reason = x.reason /\ y.done = x.done
           /\ y.refused = x.refused /\ y.settled = x.settled /\ y.sni = x.sni
           /\ y.born = x.born /\ y.remote = x.remote /\ y.drained = x.drained
           /\ y.window = x.window /\ y.labelGen = x.labelGen
           /\ y.at = IF x.at = "ppv2" /\ Chain[x.cfg] = "tls"
                     THEN "tls_inspector" ELSE "through"
BY DEF Conn, Continued

\* The label is the identity of the header that is drained, under the table
\* published at that moment.
LEMMA LabelGood ==
    ASSUME Core, NEW k \in Conns, Callable(k, "ppv2"), ~conn[k].refused,
           Published # NoTable, Parsed(conn[k]).tag = "ok"
    PROVE  LET x == conn[k]
               z == Labelled(x, Parsed(x).header, Len(log))
           IN /\ z \in Conn /\ z.worker = x.worker /\ z.cfg = x.cfg /\ z.at = "ppv2"
              /\ z.pc = "wait" /\ z.reason = "none" /\ x.reason = "none"
              /\ ~z.done /\ ~x.done /\ ~z.refused /\ z.sni = NoName
              /\ z.born = x.born /\ z.window = x.window
              /\ HeaderKept(z, log)
<1>1. PICK x : x = conn[k]
  OBVIOUS
<1>2. /\ k \in Accepted /\ x \in Conn /\ x.at = "ppv2" /\ x.pc = "wait" /\ ~x.refused
      /\ GoodConn(x, log, raw, call[x.worker])
  BY <1>1, CallableConn
<1>3. /\ x.stream \in Stream /\ x.stream \in Streams /\ x.got \in Nat /\ x.born \in Nat
      /\ Buffered(x) \in Nat /\ Buffered(x) <= x.got
  BY <1>2, ConnFields, PeekIsPrefix
<1>4. PICK p : p = Ppv2Parse(x.stream, x.stream.len)
  OBVIOUS
<1>5. Parsed(x) = p /\ p.tag = "ok" /\ p.header.len \in Nat
  BY <1>1, <1>3, <1>4, OkIsWhole DEF Parsed
<1>6. Ppv2Parse(x.stream, x.got) = p
  BY <1>3, <1>5, VerdictIsStable DEF Parsed
<1>7. Len(log) \in Nat /\ Len(log) # 0 /\ TableAt(log, Len(log)) \in Tables
  BY LenLog, PublishedThere DEF Core, Published
<1>8. Synthesize(TableAt(log, Len(log)), p.header) \in Identities
  BY <1>3, <1>4, <1>5, <1>7, SynthesizeAssumption
<1>9. PICK z : z = Labelled(x, p.header, Len(log))
  OBVIOUS
<1>10. /\ z \in Conn /\ z.worker = x.worker /\ z.cfg = x.cfg /\ z.at = x.at
       /\ z.stream = x.stream /\ z.got = x.got
       /\ z.pc = x.pc /\ z.reason = x.reason /\ z.done = x.done
       /\ z.refused = x.refused /\ z.sni = x.sni /\ z.born = x.born
       /\ z.window = x.window /\ z.labelGen = Len(log) /\ z.drained = p.header.len
       /\ z.remote = Synthesize(TableAt(log, Len(log)), p.header)
  BY <1>2, <1>5, <1>7, <1>8, <1>9, LabelledFields
<1>11. x.reason = "none" /\ ~x.done /\ x.sni = NoName /\ x.born <= Len(log)
  BY <1>2 DEF GoodConn, Shape, History
<1>12. HeaderKept(z, log)
  BY <1>3, <1>5, <1>6, <1>7, <1>10, <1>11 DEF HeaderKept
<1> QED
  BY <1>1, <1>2, <1>5, <1>9, <1>10, <1>11, <1>12

LEMMA LabelStep ==
    ASSUME CInv, NEW k \in Conns, Callable(k, "ppv2"), ~conn[k].refused,
           Published # NoTable, Label(k)
    PROVE  CInv' /\ Final
<1>1. PICK x : x = conn[k]
  OBVIOUS
<1>2. PICK z : z = Labelled(x, Parsed(x).header, Len(log))
  OBVIOUS
<1>3. /\ Core /\ k \in Accepted /\ x \in Conn /\ x.at = "ppv2"
      /\ GoodConn(x, log, raw, call[x.worker]) /\ Alone(k, x.worker)
  BY <1>1, CallableConn DEF CInv
<1>4. /\ z \in Conn /\ z.worker = x.worker /\ z.cfg = x.cfg /\ z.at = "ppv2"
      /\ z.pc = "wait" /\ z.reason = "none" /\ x.reason = "none"
      /\ ~z.done /\ ~x.done /\ ~z.refused /\ z.sni = NoName
      /\ z.born = x.born /\ z.window = x.window
      /\ HeaderKept(z, log)
  BY <1>1, <1>2, <1>3, LabelGood DEF Label
<1>5. Chain[x.cfg] \in {"ppv2_auth", "tls"}
  BY <1>3, ConnFields DEF GoodConn, Shape
<1>6. UNCHANGED <<log, raw, call>>
  BY DEF Label
<1>7. CASE Chain[x.cfg] = "ppv2_auth"
  <2>1. PICK y : y = [z EXCEPT !.pc = "judge"]
    OBVIOUS
  <2>2. conn' = [conn EXCEPT ![k] = y] /\ counters' = counters
    BY <1>1, <1>2, <1>4, <1>7, <2>1 DEF Label, FilterName
  <2>3. /\ y \in Conn /\ y.pc = "judge" /\ y.worker = z.worker /\ y.cfg = z.cfg
        /\ y.at = z.at /\ y.reason = z.reason /\ y.done = z.done /\ y.refused = z.refused
        /\ y.sni = z.sni /\ y.born = z.born /\ y.window = z.window
        /\ y.stream = z.stream /\ y.got = z.got /\ y.drained = z.drained
        /\ y.labelGen = z.labelGen /\ y.remote = z.remote
    BY <1>4, <2>1 DEF Conn
  <2>4. HeaderKept(y, log)
    BY <1>4, <2>3 DEF HeaderKept
  <2>5. GoodConn(y, log, raw, call[y.worker])
    BY <1>3, <1>4, <1>7, <2>3, <2>4 DEF GoodConn, Shape, History, Asking
  <2>6. Alone(k, y.worker) /\ y \in Conn
    BY <1>3, <1>4, <2>3
  <2>7. Core'
    BY <1>3, <1>6, <2>2, <2>5, <2>6, QuietStep
  <2>8. \A f \in Filters, stat \in Stats : Counts(f, stat, y) <=> Counts(f, stat, x)
    <3>1. /\ y.cfg = x.cfg /\ y.at = x.at /\ y.reason = x.reason
          /\ y.done = FALSE /\ x.done = FALSE
      BY <1>3, <1>4, <2>3, ConnFields
    <3> QED
      BY <3>1 DEF Counts
  <2>9. Counting'
    BY <1>1, <1>3, <2>2, <2>6, <2>8, TallyKept
  <2>10. Final
    BY <1>1, <1>3, <1>4, <2>2, FinalOne
  <2> QED
    BY <2>7, <2>9, <2>10 DEF CInv
<1>8. CASE Chain[x.cfg] = "tls"
  <2>1. PICK u : u = [z EXCEPT !.done = TRUE]
    OBVIOUS
  <2>2. PICK y : y = Continued(u)
    OBVIOUS
  <2>3. /\ u \in Conn /\ u.pc = z.pc /\ u.worker = z.worker /\ u.cfg = z.cfg
        /\ u.at = z.at /\ u.reason = z.reason /\ u.done = TRUE /\ u.refused = z.refused
        /\ u.sni = z.sni /\ u.born = z.born /\ u.window = z.window
        /\ u.stream = z.stream /\ u.got = z.got /\ u.drained = z.drained
        /\ u.labelGen = z.labelGen /\ u.remote = z.remote
    BY <1>4, <2>1 DEF Conn
  <2>4. /\ y \in Conn /\ y.pc = u.pc /\ y.worker = u.worker /\ y.cfg = u.cfg
        /\ y.reason = u.reason /\ y.done = u.done /\ y.refused = u.refused
        /\ y.sni = u.sni /\ y.born = u.born /\ y.window = u.window
        /\ y.stream = u.stream /\ y.got = u.got /\ y.drained = u.drained
        /\ y.labelGen = u.labelGen /\ y.remote = u.remote
        /\ y.at = "tls_inspector"
    BY <1>4, <1>8, <2>2, <2>3, ContinuedFields
  <2>5. PICK f0, s0 : f0 = "ppv2" /\ s0 = "allowed"
    OBVIOUS
  <2>6. /\ conn' = [conn EXCEPT ![k] = y] /\ Bump(f0, s0)
        /\ f0 \in Filters /\ s0 \in Stats
    BY <1>1, <1>2, <1>4, <1>8, <2>1, <2>2, <2>5 DEF Label, FilterName, Filters, Stats
  <2>7. HeaderKept(y, log)
    BY <1>4, <2>3, <2>4 DEF HeaderKept
  <2>8. GoodConn(y, log, raw, call[y.worker])
    BY <1>3, <1>4, <1>8, <2>3, <2>4, <2>7 DEF GoodConn, Shape, History, Asking
  <2>9. y \in Conn /\ y.pc = "wait"
    BY <1>4, <2>3, <2>4
  <2>10. Core'
    BY <1>3, <1>6, <2>6, <2>8, <2>9, QuietStep
  <2>11. CountsOneMore(x, y, f0, s0)
    BY <1>3, <1>4, <1>8, <2>3, <2>4, <2>5 DEF CountsOneMore, Counts, Filters, Stats
  <2>12. Counting'
    BY <1>1, <1>3, <2>6, <2>9, <2>11, TallyBumped
  <2>13. Final
    BY <1>1, <1>3, <1>4, <2>6, FinalOne
  <2> QED
    BY <2>10, <2>12, <2>13 DEF CInv
<1> QED
  BY <1>5, <1>7, <1>8

\* on_data: a refused connection stays as it is; `done` never sees on_data again.
LEMMA OnDataStep ==
    ASSUME CInv, NEW k \in Conns, OnData(k)
    PROVE  CInv' /\ Final
<1>1. /\ Core /\ Callable(k, "ppv2") /\ conn[k] \in Conn
      /\ GoodConn(conn[k], log, raw, call[conn[k].worker]) /\ conn[k].at = "ppv2"
  BY CallableConn DEF CInv, OnData
<1>2. ~conn[k].done
  BY <1>1 DEF GoodConn, Shape
<1>3. CASE conn[k].refused
  <2>1. UNCHANGED allVars
    BY <1>3 DEF OnData
  <2>2. EnforceInv' /\ Grows
    BY <1>1, <2>1, EnforceUnchanged DEF Core, allVars, vars
  <2> QED
    BY <2>1, <2>2, OthersStep DEF allVars, filterVars
<1>4. CASE ~conn[k].refused
  <2>1. \/ NoTableYet(k)
        \/ Published # NoTable /\ (\/ Incomplete(k) \/ NotProxyProtocol(k)
                                   \/ RelabelFails(k) \/ Label(k))
    BY <1>2, <1>4 DEF OnData
  <2>2. CASE NoTableYet(k)
    <3>1. PICK why : why = "no_identity_table"
      OBVIOUS
    <3>2. why \in RefuseReasons /\ why # "not_proxy_protocol"
      BY <3>1 DEF RefuseReasons
    <3>3. /\ conn' = [conn EXCEPT ![k] = Refused(conn[k], why)]
          /\ UNCHANGED <<log, raw, call, counters>>
      BY <2>2, <3>1 DEF NoTableYet
    <3> QED
      BY <1>1, <1>4, <3>2, <3>3, RefuseUncounted
  <2>3. CASE RelabelFails(k)
    <3>1. PICK why : why = "set_remote_address_failed"
      OBVIOUS
    <3>2. why \in RefuseReasons /\ why # "not_proxy_protocol"
      BY <3>1 DEF RefuseReasons
    <3>3. /\ conn' = [conn EXCEPT ![k] = Refused(conn[k], why)]
          /\ UNCHANGED <<log, raw, call, counters>>
      BY <2>3, <3>1 DEF RelabelFails
    <3> QED
      BY <1>1, <1>4, <3>2, <3>3, RefuseUncounted
  <2> QED
    BY <1>1, <1>4, <2>1, <2>2, <2>3, IncompleteStep, NotProxyProtocolStep, LabelStep
<1> QED
  BY <1>3, <1>4

-----------------------------------------------------------------------------
(* The call of permits().                                                  *)

LEMMA LabelIsIdentity ==
    ASSUME EnforceInv, NEW x \in Conn, HeaderKept(x, log)
    PROVE  x.remote \in Identities
<1>1. PICK p : p = Ppv2Parse(x.stream, x.stream.len)
  OBVIOUS
<1>2. /\ x.stream \in Stream /\ x.stream \in Streams /\ x.got \in Nat
      /\ x.labelGen \in Nat /\ x.born \in Nat /\ Len(log) \in Nat
  BY ConnFields, LenLog
<1>3. Ppv2Parse(x.stream, x.got) = p /\ p.tag = "ok"
  BY <1>1, <1>2, OkIsWhole DEF HeaderKept
<1>4. x.labelGen \in 0 .. Len(log) /\ x.labelGen # 0
  BY <1>2 DEF HeaderKept
<1>5. TableAt(log, x.labelGen) \in Tables
  BY <1>4, PublishedThere
<1> QED
  BY <1>1, <1>2, <1>3, <1>5, SynthesizeAssumption DEF HeaderKept

\* A connection in the middle of a callback.
LEMMA BusyConn ==
    ASSUME Core, NEW k \in Accepted, conn[k].pc # "wait"
    PROVE  /\ k \in Conns /\ conn[k] \in Conn
           /\ GoodConn(conn[k], log, raw, call[conn[k].worker])
           /\ Alone(k, conn[k].worker)
           /\ conn[k].at \in {"ppv2", "auth"} /\ conn[k].reason = "none"
           /\ conn[k].at = "ppv2" => Chain[conn[k].cfg] = "ppv2_auth"
           /\ conn[k].at = "auth" => Chain[conn[k].cfg] # "ppv2_auth"
<1>1. /\ k \in Conns /\ conn[k] \in Conn /\ Alone(k, conn[k].worker)
      /\ GoodConn(conn[k], log, raw, call[conn[k].worker])
  BY AcceptedConn DEF Core, Exclusive
<1> QED
  BY <1>1 DEF GoodConn, Shape

LEMMA CallPermitsStep ==
    ASSUME CInv, NEW k \in Conns, CallPermits(k)
    PROVE  CInv' /\ Final
<1>1. PICK x : x = conn[k]
  OBVIOUS
<1>2. /\ Core /\ k \in Accepted /\ x.pc = "judge" /\ x \in Conn
      /\ GoodConn(x, log, raw, call[x.worker]) /\ Alone(k, x.worker)
      /\ x.reason = "none"
  BY <1>1, BusyConn DEF CInv, CallPermits
<1>3. x.at = "ppv2" /\ x.sni = NoName /\ HeaderKept(x, log)
  BY <1>2 DEF GoodConn, Shape, History
<1>4. PICK y : y = [x EXCEPT !.pc = "permits"]
  OBVIOUS
<1>5. PICK q : q = <<NoName, x.remote>>
  OBVIOUS
<1>6. /\ conn' = [conn EXCEPT ![k] = y] /\ counters' = counters
      /\ Begin(x.worker, x.cfg, q)
  BY <1>1, <1>4, <1>5 DEF CallPermits
<1>7. q \in Queries /\ x.worker \in Workers /\ x.cfg \in Configs
  <2>1. x.remote \in Identities
    BY <1>2, <1>3, LabelIsIdentity DEF Core
  <2> QED
    BY <1>2, <1>5, <2>1, ConnFields, QueriesAssumption
<1>8. /\ EnforceInv' /\ Grows /\ log' = log /\ raw' = raw
      /\ \A v \in Workers : v # x.worker => call'[v] = call[v]
      /\ call'[x.worker] \in Call /\ call'[x.worker].cfg = x.cfg
      /\ call'[x.worker].query = q /\ call'[x.worker].verdict = "none"
  BY <1>2, <1>6, <1>7, BeginKeeps DEF Core
<1>9. /\ y \in Conn /\ y.pc = "permits" /\ y.worker = x.worker /\ y.cfg = x.cfg
      /\ y.at = x.at /\ y.reason = x.reason /\ y.done = x.done /\ y.refused = x.refused
      /\ y.sni = x.sni /\ y.born = x.born /\ y.window = x.window
      /\ y.stream = x.stream /\ y.got = x.got /\ y.drained = x.drained
      /\ y.labelGen = x.labelGen /\ y.remote = x.remote
  BY <1>2, <1>4 DEF Conn
<1>10. GoodConn(y, log', raw', call'[y.worker])
  <2>1. Shape(y)
    BY <1>2, <1>3, <1>9 DEF GoodConn, Shape
  <2>2. History(y, log, raw)
    BY <1>2, <1>3, <1>9 DEF GoodConn, History, HeaderKept
  <2>3. Asking(y, log, raw, call'[y.worker])
    BY <1>3, <1>5, <1>8, <1>9 DEF Asking
  <2> QED
    BY <1>8, <2>1, <2>2, <2>3 DEF GoodConn
<1>11. y \in Conn /\ Alone(k, y.worker) /\ \A v \in Workers : v # y.worker => call'[v] = call[v]
  BY <1>2, <1>8, <1>9
<1>12. Core'
  BY <1>2, <1>6, <1>8, <1>10, <1>11, OneConn
<1>13. \A f \in Filters, stat \in Stats : Counts(f, stat, y) <=> Counts(f, stat, x)
  BY <1>9 DEF Counts
<1>14. Counting'
  BY <1>1, <1>2, <1>6, <1>11, <1>13, TallyKept
<1> QED
  BY <1>1, <1>2, <1>6, <1>12, <1>14, FinalOne DEF CInv

LEMMA AuthAcceptStep ==
    ASSUME CInv, NEW k \in Conns, AuthAccept(k)
    PROVE  CInv' /\ Final
<1>1. PICK x : x = conn[k]
  OBVIOUS
<1>2. /\ Core /\ k \in Accepted /\ x \in Conn /\ x.at = "auth" /\ x.pc = "wait"
      /\ ~x.settled
      /\ GoodConn(x, log, raw, call[x.worker]) /\ Alone(k, x.worker)
  BY <1>1, CallableConn DEF CInv, AuthAccept
<1>3. x.reason = "none" /\ Chain[x.cfg] \in {"tls", "auth"}
  BY <1>2, ConnFields DEF GoodConn, Shape
<1>4. CASE x.remote = NoIdentity
  <2>1. PICK y : y = [x EXCEPT !.settled = TRUE, !.reason = "no_identity_label"]
    OBVIOUS
  <2>2. PICK f0, s0 : f0 = "auth" /\ s0 = "denied"
    OBVIOUS
  <2>3. /\ conn' = [conn EXCEPT ![k] = y] /\ UNCHANGED <<log, raw, call>>
        /\ Bump(f0, s0) /\ f0 \in Filters /\ s0 \in Stats
    BY <1>1, <1>4, <2>1, <2>2 DEF AuthAccept, LabelledIdentity, Filters, Stats
  <2>4. "no_identity_label" \in Reasons
    BY DEF Reasons
  <2>5. /\ y \in Conn /\ y.pc = x.pc /\ y.worker = x.worker /\ y.cfg = x.cfg
        /\ y.at = x.at /\ y.reason = "no_identity_label" /\ y.done = x.done
        /\ y.settled = TRUE /\ y.born = x.born /\ y.window = x.window
        /\ y.stream = x.stream /\ y.got = x.got /\ y.drained = x.drained
        /\ y.labelGen = x.labelGen /\ y.remote = x.remote
    BY <1>2, <2>1, <2>4 DEF Conn
  <2>6. GoodConn(y, log, raw, call[y.worker])
    BY <1>2, <1>3, <2>5 DEF GoodConn, Shape, History, HeaderKept, Asking
  <2>7. y \in Conn /\ y.pc = "wait"
    BY <1>2, <2>5
  <2>8. Core'
    BY <1>2, <2>3, <2>6, <2>7, QuietStep
  <2>9. CountsOneMore(x, y, f0, s0)
    BY <1>2, <1>3, <2>2, <2>5 DEF CountsOneMore, Counts, Filters, Stats
  <2>10. Counting'
    BY <1>1, <1>2, <2>3, <2>7, <2>9, TallyBumped
  <2> QED
    BY <1>1, <1>2, <1>3, <2>3, <2>8, <2>10, FinalOne DEF CInv
<1>5. CASE x.remote # NoIdentity
  <2>1. PICK y : y = [x EXCEPT !.settled = TRUE, !.pc = "permits"]
    OBVIOUS
  <2>2. PICK q : q = <<x.sni, x.remote>>
    OBVIOUS
  <2>3. /\ conn' = [conn EXCEPT ![k] = y] /\ counters' = counters
        /\ Begin(x.worker, x.cfg, q)
    BY <1>1, <1>5, <2>1, <2>2 DEF AuthAccept, LabelledIdentity
  <2>4. q \in Queries /\ x.worker \in Workers /\ x.cfg \in Configs
    <3>1. /\ x.remote \in Identities /\ x.sni \in Names \union {NoName}
          /\ x.worker \in Workers /\ x.cfg \in Configs
      BY <1>2, <1>5, ConnFields
    <3> QED
      BY <2>2, <3>1, QueriesAssumption
  <2>5. /\ EnforceInv' /\ Grows /\ log' = log /\ raw' = raw
        /\ \A v \in Workers : v # x.worker => call'[v] = call[v]
        /\ call'[x.worker] \in Call /\ call'[x.worker].cfg = x.cfg
        /\ call'[x.worker].query = q /\ call'[x.worker].verdict = "none"
    BY <1>2, <2>3, <2>4, BeginKeeps DEF Core
  <2>6. /\ y \in Conn /\ y.pc = "permits" /\ y.worker = x.worker /\ y.cfg = x.cfg
        /\ y.at = x.at /\ y.reason = x.reason /\ y.done = x.done /\ y.refused = x.refused
        /\ y.settled = TRUE /\ y.sni = x.sni /\ y.born = x.born /\ y.window = x.window
        /\ y.stream = x.stream /\ y.got = x.got /\ y.drained = x.drained
        /\ y.labelGen = x.labelGen /\ y.remote = x.remote
    BY <1>2, <2>1 DEF Conn
  <2>7. GoodConn(y, log', raw', call'[y.worker])
    <3>1. Shape(y)
      BY <1>2, <1>3, <2>6 DEF GoodConn, Shape
    <3>2. History(y, log, raw)
      BY <1>2, <1>3, <2>6 DEF GoodConn, History, HeaderKept
    <3>3. Asking(y, log, raw, call'[y.worker])
      BY <2>2, <2>5, <2>6 DEF Asking
    <3> QED
      BY <2>5, <3>1, <3>2, <3>3 DEF GoodConn
  <2>8. y \in Conn /\ Alone(k, y.worker) /\ \A v \in Workers : v # y.worker => call'[v] = call[v]
    BY <1>2, <2>5, <2>6
  <2>9. Core'
    BY <1>2, <2>3, <2>5, <2>7, <2>8, OneConn
  <2>10. \A f \in Filters, stat \in Stats : Counts(f, stat, y) <=> Counts(f, stat, x)
    BY <2>6 DEF Counts
  <2>11. Counting'
    BY <1>1, <1>2, <2>3, <2>8, <2>10, TallyKept
  <2> QED
    BY <1>1, <1>2, <1>3, <2>3, <2>9, <2>11, FinalOne DEF CInv
<1> QED
  BY <1>4, <1>5

LEMMA PermitsAnswersStep ==
    ASSUME CInv, NEW k \in Conns, PermitsAnswers(k)
    PROVE  CInv' /\ Final
<1>1. PICK x : x = conn[k]
  OBVIOUS
<1>2. /\ Core /\ k \in Accepted /\ x.pc = "permits" /\ x \in Conn
      /\ GoodConn(x, log, raw, call[x.worker]) /\ Alone(k, x.worker)
      /\ x.at \in {"ppv2", "auth"} /\ x.reason = "none" /\ x.worker \in Workers
  BY <1>1, BusyConn, ConnFields DEF CInv, PermitsAnswers
<1>3. PICK u : u = Window(call[x.worker])
  OBVIOUS
<1>4. PICK y : y = [x EXCEPT !.window = u]
  OBVIOUS
<1>5. conn' = [conn EXCEPT ![k] = y] /\ counters' = counters /\ Answer(x.worker)
  BY <1>1, <1>3, <1>4 DEF PermitsAnswers
<1>6. /\ EnforceInv' /\ Grows /\ log' = log /\ raw' = raw
      /\ \A v \in Workers : v # x.worker => call'[v] = call[v]
      /\ call'[x.worker] \in Call /\ call'[x.worker].cfg = call[x.worker].cfg
      /\ call'[x.worker].query = call[x.worker].query
      /\ u \subseteq 0 .. Len(log)
      /\ \E g \in u :
            call'[x.worker].verdict =
                IF call[x.worker].query \in
                       JudgeAgainst(raw[call[x.worker].cfg], TableAt(log, g))
                THEN "allow" ELSE "deny"
  BY <1>2, <1>3, <1>5, AnswerKeeps DEF Core
<1>7. u \in SUBSET Nat
  BY <1>2, <1>6, LenLog DEF Core
<1>8. /\ y \in Conn /\ y.pc = x.pc /\ y.worker = x.worker /\ y.cfg = x.cfg
      /\ y.at = x.at /\ y.reason = x.reason /\ y.done = x.done /\ y.refused = x.refused
      /\ y.settled = x.settled /\ y.sni = x.sni /\ y.born = x.born /\ y.window = u
      /\ y.stream = x.stream /\ y.got = x.got /\ y.drained = x.drained
      /\ y.labelGen = x.labelGen /\ y.remote = x.remote
  BY <1>2, <1>4, <1>7 DEF Conn
<1>9. GoodConn(y, log', raw', call'[y.worker])
  <2>1. Shape(y)
    BY <1>2, <1>8 DEF GoodConn, Shape
  <2>2. History(y, log, raw)
    BY <1>2, <1>6, <1>8 DEF GoodConn, History, HeaderKept
  <2>3. call[x.worker].cfg = x.cfg /\ call[x.worker].query = <<x.sni, x.remote>>
    BY <1>2 DEF GoodConn, Asking
  <2>4. PICK g \in u :
            call'[x.worker].verdict = IF AllowsIn(y, log, raw, g) THEN "allow" ELSE "deny"
    BY <1>6, <1>8, <2>3 DEF AllowsIn
  <2>5. Asking(y, log, raw, call'[y.worker])
    BY <1>6, <1>8, <2>3, <2>4 DEF Asking
  <2> QED
    BY <1>6, <2>1, <2>2, <2>5 DEF GoodConn
<1>10. y \in Conn /\ Alone(k, y.worker) /\ \A v \in Workers : v # y.worker => call'[v] = call[v]
  BY <1>2, <1>6, <1>8
<1>11. Core'
  BY <1>2, <1>5, <1>6, <1>9, <1>10, OneConn
<1>12. \A f \in Filters, stat \in Stats : Counts(f, stat, y) <=> Counts(f, stat, x)
  BY <1>8 DEF Counts
<1>13. Counting'
  BY <1>1, <1>2, <1>5, <1>10, <1>12, TallyKept
<1> QED
  BY <1>1, <1>2, <1>5, <1>11, <1>13, FinalOne DEF CInv

LEMMA SettleStep ==
    ASSUME CInv, NEW k \in Conns, Settle(k)
    PROVE  CInv' /\ Final
<1>1. PICK x : x = conn[k]
  OBVIOUS
<1>2. /\ Core /\ k \in Accepted /\ x.pc = "permits" /\ x \in Conn
      /\ GoodConn(x, log, raw, call[x.worker]) /\ Alone(k, x.worker)
      /\ x.at \in {"ppv2", "auth"} /\ x.reason = "none" /\ x.worker \in Workers
      /\ x.at = "ppv2" => Chain[x.cfg] = "ppv2_auth"
      /\ x.at = "auth" => Chain[x.cfg] # "ppv2_auth"
      /\ Chain[x.cfg] \in {"ppv2_auth", "tls", "auth"}
      /\ x.done \in BOOLEAN
  BY <1>1, BusyConn, ConnFields DEF CInv, Settle
<1>3. Return(x.worker)
  BY <1>1 DEF Settle
<1>4. /\ EnforceInv' /\ Grows /\ log' = log /\ raw' = raw
      /\ \A v \in Workers : v # x.worker => call'[v] = call[v]
      /\ call[x.worker] \in Call /\ call[x.worker].verdict # "none"
  BY <1>2, <1>3, ReturnKeeps DEF Core
<1>5. PICK z : z = [x EXCEPT !.pc = "wait"]
  OBVIOUS
<1>6. /\ z \in Conn /\ z.pc = "wait" /\ z.worker = x.worker /\ z.cfg = x.cfg
      /\ z.at = x.at /\ z.reason = x.reason /\ z.done = x.done /\ z.refused = x.refused
      /\ z.settled = x.settled /\ z.sni = x.sni /\ z.born = x.born
      /\ z.window = x.window /\ z.stream = x.stream /\ z.got = x.got
      /\ z.drained = x.drained /\ z.labelGen = x.labelGen /\ z.remote = x.remote
  BY <1>2, <1>5 DEF Conn
<1>7. PICK f0 : f0 = FilterName(z)
  OBVIOUS
<1>8. /\ f0 = IF x.at = "ppv2" THEN "ppv2_auth" ELSE "auth"
      /\ f0 \in Filters
  BY <1>2, <1>6, <1>7 DEF FilterName, Filters
<1>9. ASSUME NEW y \in Conn, conn' = [conn EXCEPT ![k] = y], NEW s0 \in Stats, Bump(f0, s0),
             y.worker = x.worker, y.pc = "wait", Shape(y), History(y, log, raw),
             CountsOneMore(x, y, f0, s0)
      PROVE  CInv' /\ Final
  <2>1. GoodConn(y, log', raw', call'[y.worker])
    BY <1>4, <1>9 DEF GoodConn, Asking
  <2>2. Alone(k, y.worker) /\ \A v \in Workers : v # y.worker => call'[v] = call[v]
    BY <1>2, <1>4, <1>9
  <2>3. Core'
    BY <1>2, <1>4, <1>9, <2>1, <2>2, OneConn
  <2>4. Counting'
    BY <1>1, <1>2, <1>8, <1>9, TallyBumped
  <2> QED
    BY <1>1, <1>2, <1>9, <2>3, <2>4, FinalOne DEF CInv
<1>10. CASE call[x.worker].verdict = "allow"
  <2>1. PICK v : v = [z EXCEPT !.done = z.done \/ z.at = "ppv2"]
    OBVIOUS
  <2>2. PICK y : y = Continued(v)
    OBVIOUS
  <2>3. PICK s0 : s0 = "allowed"
    OBVIOUS
  <2>4. conn' = [conn EXCEPT ![k] = y] /\ Bump(f0, s0) /\ s0 \in Stats
    BY <1>1, <1>5, <1>6, <1>7, <1>10, <2>1, <2>2, <2>3 DEF Settle, Stats
  <2>5. /\ v \in Conn /\ v.pc = z.pc /\ v.worker = z.worker /\ v.cfg = z.cfg
        /\ v.at = z.at /\ v.reason = z.reason /\ v.done = (z.done \/ z.at = "ppv2")
        /\ v.sni = z.sni /\ v.born = z.born /\ v.window = z.window
        /\ v.stream = z.stream /\ v.got = z.got /\ v.drained = z.drained
        /\ v.labelGen = z.labelGen /\ v.remote = z.remote
    BY <1>6, <2>1 DEF Conn
  <2>6. /\ y \in Conn /\ y.pc = v.pc /\ y.worker = v.worker /\ y.cfg = v.cfg
        /\ y.reason = v.reason /\ y.done = v.done /\ y.sni = v.sni
        /\ y.born = v.born /\ y.window = v.window /\ y.stream = v.stream
        /\ y.got = v.got /\ y.drained = v.drained
        /\ y.labelGen = v.labelGen /\ y.remote = v.remote
        /\ y.at = IF v.at = "ppv2" /\ Chain[v.cfg] = "tls" THEN "tls_inspector" ELSE "through"
    BY <2>2, <2>5, ContinuedFields
  <2>7. /\ y \in Conn /\ y.pc = "wait" /\ y.worker = x.worker /\ y.cfg = x.cfg
        /\ y.reason = "none" /\ y.done = (x.done \/ x.at = "ppv2") /\ y.sni = x.sni
        /\ y.born = x.born /\ y.window = x.window /\ y.stream = x.stream
        /\ y.got = x.got /\ y.drained = x.drained
        /\ y.labelGen = x.labelGen /\ y.remote = x.remote /\ y.at = "through"
    BY <1>2, <1>6, <2>5, <2>6
  <2>8. Shape(y)
    BY <1>2, <2>7 DEF Shape
  <2>9. History(y, log, raw)
    <3>1. \E g \in x.window : AllowsIn(x, log, raw, g)
      BY <1>2, <1>10 DEF GoodConn, Asking
    <3> QED
      BY <1>2, <2>7, <3>1 DEF GoodConn, History, HeaderKept, AllowsIn
  <2>10. CountsOneMore(x, y, f0, s0)
    BY <1>2, <1>8, <2>3, <2>7 DEF CountsOneMore, Counts, Filters, Stats
  <2> QED
    BY <1>9, <2>4, <2>7, <2>8, <2>9, <2>10
<1>11. CASE call[x.worker].verdict # "allow"
  <2>1. PICK y : y = IF z.at = "ppv2" THEN Refused(z, "denied_by_allowlist")
                     ELSE [z EXCEPT !.reason = "denied_by_allowlist"]
    OBVIOUS
  <2>2. PICK s0 : s0 = "denied"
    OBVIOUS
  <2>3. conn' = [conn EXCEPT ![k] = y] /\ Bump(f0, s0) /\ s0 \in Stats
    BY <1>1, <1>5, <1>6, <1>7, <1>11, <2>1, <2>2 DEF Settle, Stats
  <2>4. "denied_by_allowlist" \in Reasons
    BY DEF Reasons
  <2>5. /\ y \in Conn /\ y.pc = z.pc /\ y.worker = z.worker /\ y.cfg = z.cfg
        /\ y.at = z.at /\ y.reason = "denied_by_allowlist" /\ y.done = z.done
        /\ y.settled = z.settled /\ y.sni = z.sni /\ y.born = z.born
        /\ y.window = z.window /\ y.stream = z.stream
        /\ y.got = z.got /\ y.drained = z.drained
        /\ y.labelGen = z.labelGen /\ y.remote = z.remote
        /\ y.at = "ppv2" => y.refused = TRUE
    <3>1. CASE z.at = "ppv2"
      BY <1>6, <2>1, <2>4, <3>1 DEF Refused, Conn
    <3>2. CASE z.at # "ppv2"
      BY <1>6, <2>1, <2>4, <3>2 DEF Conn
    <3> QED
      BY <3>1, <3>2
  <2>6. Shape(y)
    BY <1>2, <1>6, <2>5 DEF GoodConn, Shape
  <2>7. History(y, log, raw)
    <3>1. call[x.worker].verdict = "deny"
      BY <1>4, <1>11 DEF Call
    <3>2. \E g \in x.window : ~AllowsIn(x, log, raw, g)
      BY <1>2, <3>1 DEF GoodConn, Asking
    <3> QED
      BY <1>2, <1>6, <2>5, <3>2 DEF GoodConn, History, HeaderKept, AllowsIn
  <2>8. CountsOneMore(x, y, f0, s0)
    BY <1>2, <1>6, <1>8, <2>2, <2>5 DEF CountsOneMore, Counts, Filters, Stats
  <2>9. y \in Conn /\ y.worker = x.worker /\ y.pc = "wait"
    BY <1>6, <2>5
  <2> QED
    BY <1>9, <2>3, <2>6, <2>7, <2>8, <2>9
<1> QED
  BY <1>10, <1>11

-----------------------------------------------------------------------------
(* The theorems.                                                           *)

LEMMA StepKeeps ==
    ASSUME CInv, [FilterNext]_allVars
    PROVE  CInv' /\ Final
<1>1. EnforceInv
  BY DEF CInv, Core
<1>2. ASSUME NEW t \in Tables, Publish(t), UNCHANGED filterVars
      PROVE  CInv' /\ Final
  BY <1>1, <1>2, PublishKeeps, OthersStep
<1>3. ASSUME NEW c \in Configs, NEW r \in Rules, Parse(c, r), UNCHANGED filterVars
      PROVE  CInv' /\ Final
  BY <1>1, <1>3, ParseKeeps, OthersStep
<1>4. ASSUME NEW k \in Conns, Progress(k)
      PROVE  CInv' /\ Final
  BY <1>4, OnDataStep, CallPermitsStep, AuthAcceptStep, PermitsAnswersStep, SettleStep
     DEF Progress
<1>5. CASE UNCHANGED allVars
  <2>1. EnforceInv' /\ Grows
    BY <1>1, <1>5, EnforceUnchanged DEF allVars, vars
  <2> QED
    BY <1>5, <2>1, OthersStep DEF allVars, filterVars
<1> QED
  BY <1>2, <1>3, <1>4, <1>5, AcceptStep, DeliverStep, TlsInspectStep, CloseStep
     DEF FilterNext

LEMMA CInvType == CInv => TypeOK
BY DEF CInv, Core, Counting, EnforceInv, TypeOK

LEMMA CInvAdmitted == CInv => AdmittedIsLawful
<1> SUFFICES ASSUME CInv, NEW k \in Accepted, conn[k].at = "through",
                    Chain[conn[k].cfg] # "auth"
             PROVE  LET x == conn[k]
                        p == Ppv2Parse(x.stream, x.got)
                    IN /\ p.tag = "ok"
                       /\ x.drained = p.header.len
                       /\ x.labelGen # 0 /\ x.labelGen \in x.born .. Len(log)
                       /\ x.remote = Synthesize(TableAt(log, x.labelGen), p.header)
                       /\ \E g \in x.window : Allows(x, g)
  BY DEF AdmittedIsLawful
<1>1. History(conn[k], log, raw)
  BY DEF CInv, Core, GoodConn
<1>2. HeaderKept(conn[k], log)
  BY <1>1 DEF History
<1>3. \E g \in conn[k].window : Allows(conn[k], g)
  BY <1>1 DEF History, AllowsIn, Allows
<1> QED
  BY <1>2, <1>3 DEF HeaderKept

LEMMA CInvDenied == CInv => DeniedIsJustified
BY DEF CInv, Core, GoodConn, History, AllowsIn, Allows, DeniedIsJustified

LEMMA InductiveInvariant == FilterSpec => []CInv
<1>1. FilterInit => CInv
  BY FilterInitGood
<1>2. CInv /\ [FilterNext]_allVars => CInv'
  BY StepKeeps
<1> QED
  BY <1>1, <1>2, PTL DEF FilterSpec

\* Connections, counters, calls, tables and rules keep their types (tcp.rs
\* 76-85).
THEOREM TcpTypeCorrect == FilterSpec => []TypeOK
BY InductiveInvariant, CInvType, PTL

\* ADMISSION, for any number of connections, workers and tables: whoever runs
\* through a chain with a ppv2 filter sent a whole header, lost exactly it, is
\* labelled by it under a table of its lifetime, and is allowed by a table
\* permits() could have read (tcp.rs 197-249, 287-306).
THEOREM AdmissionIsLawful == FilterSpec => []AdmittedIsLawful
BY InductiveInvariant, CInvAdmitted, PTL

\* DENIAL: who is denied by the allowlist is not allowed by some table permits()
\* could have read (tcp.rs 240-243, 299-305).
THEOREM DenialIsJustified == FilterSpec => []DeniedIsJustified
BY InductiveInvariant, CInvDenied, PTL

\* COUNTERS: each filter's counters are the numbers of connections it admitted,
\* judged against and found headerless (tcp.rs 219, 241, 244, 291-303).
THEOREM CountersAreExact == FilterSpec => []CountersTally
<1>1. CInv => CountersTally
  BY DEF CInv, Counting
<1> QED
  BY <1>1, InductiveInvariant, PTL

\* REFUSAL IS FINAL: no later callback admits a refused connection or changes
\* why it was refused (tcp.rs 82-84, 198-201, 272-273).
THEOREM RefusalsAreFinal == FilterSpec => RefusalIsFinal
<1>1. CInv /\ [FilterNext]_allVars =>
          [\A k \in Accepted :
              conn[k].reason # "none" =>
                  /\ conn'[k].reason = conn[k].reason
                  /\ conn'[k].at = conn[k].at]_allVars
  BY StepKeeps DEF Final
<1> QED
  BY <1>1, InductiveInvariant, PTL DEF FilterSpec, RefusalIsFinal

=============================================================================
