--------------------------- MODULE PermitsProofs ---------------------------
(***************************************************************************)
(* Proofs about Permits for any number of workers, Configs, tables and     *)
(* publications: type correctness, cache coherence and bounded staleness.  *)
(***************************************************************************)
EXTENDS Permits, TLAPS

-----------------------------------------------------------------------------
(* The parts of the inductive invariant.                                   *)

\* The cell holds the last table published, under its generation.
PublishedIsLast ==
    /\ Len(log) = published.gen
    /\ published.table = TableAt(log, published.gen)

\* A call carries a generation together with that generation's own table, and
\* judges for a Config that exists.
CallsCoherent ==
    \A w \in Workers : call[w] # Idle =>
        /\ call[w].gen \in 0 .. published.gen
        /\ call[w].overlap \in SUBSET (0 .. published.gen)
        /\ call[w].table = TableAt(log, call[w].gen)
        /\ raw[call[w].cfg] # Unparsed

\* No cache is stamped with a generation yet to come.
StampsPublished ==
    \A c \in Configs : cache[c].gen \in (0 .. published.gen) \union {U64Max}

\* Whoever could still write this call's cache does so with a generation that
\* may answer this call.
WritersInWindow ==
    \A v, w \in Workers :
        (call[v] # Idle /\ call[w] # Idle /\ call[v].cfg = call[w].cfg)
            => call[v].gen \in Window(call[w])

\* Once a call has seen or built its expansion, whatever replaces it before the
\* final read stays within the call's window.
FreshInWindow ==
    \A w \in Workers :
        At(w, "current") \/ At(w, "fresh") => cache[call[w].cfg].gen \in Window(call[w])

IInv ==
    /\ TypeOK
    /\ PublishedIsLast
    /\ CallsCoherent
    /\ StampsPublished
    /\ WritersInWindow
    /\ FreshInWindow
    /\ CacheCoherent
    /\ AnswerWithinWindow

-----------------------------------------------------------------------------
(* Facts about the operators of Judging.                                   *)

\* With or without a table, what reaches the cache is a set of queries (config.rs
\* 213-219).
LEMMA JudgeAgainstType ==
    ASSUME NEW r \in Rules, NEW t \in Tables \union {NoTable}
    PROVE  JudgeAgainst(r, t) \in SUBSET Queries
BY ExpandAssumption DEF JudgeAgainst, DenyAll

\* The history is only appended to: publishing leaves the table of every
\* earlier generation what it was (config.rs 81-85).
LEMMA TableAtAppend ==
    ASSUME NEW h \in Seq(Tables), NEW t \in Tables, NEW g \in 0 .. Len(h)
    PROVE  TableAt(Append(h, t), g) = TableAt(h, g)
BY DEF TableAt

-----------------------------------------------------------------------------
(* The invariant is inductive.                                             *)

\* No table published, no Config parsed, no call in flight (config.rs 72-78).
LEMMA InitInvariant == Init => IInv
BY BoundAssumption, IdleAssumption
   DEF Init, IInv, TypeOK, PublishedIsLast, CallsCoherent, StampsPublished,
       WritersInWindow, FreshInWindow, CacheCoherent, AnswerWithinWindow,
       StaleOnArrival, DenyAll, TableAt, Generation, At

\* A publication only adds a generation: windows grow, nothing published before
\* changes (config.rs 81-85).
LEMMA PublishInvariant ==
    ASSUME IInv, NEW t \in Tables, Publish(t)
    PROVE  IInv'
<1> USE DEF Generation
<1>1. published.gen \in Nat /\ published.gen < MaxPublish /\ MaxPublish < U64Max
      /\ MaxPublish \in Nat /\ U64Max \in Nat
      /\ published'.gen = published.gen + 1 /\ published'.table = t
  BY BoundAssumption DEF IInv, TypeOK, Publish
<1>2. log \in Seq(Tables) /\ log' = Append(log, t) /\ Len(log) = published.gen
  BY DEF IInv, TypeOK, PublishedIsLast, Publish
<1>3. UNCHANGED <<raw, cache, guards, call>>
  BY DEF Publish
<1>4. \A g \in 0 .. published.gen : TableAt(log', g) = TableAt(log, g)
  BY <1>2, TableAtAppend
<1>5. TypeOK'
  BY <1>1, <1>2, <1>3 DEF IInv, TypeOK, Publish, guards
<1>6. PublishedIsLast'
  BY <1>1, <1>2 DEF PublishedIsLast, TableAt
<1>7. CallsCoherent'
  BY <1>1, <1>3, <1>4 DEF IInv, CallsCoherent
<1>8. StampsPublished'
  BY <1>1, <1>3 DEF IInv, StampsPublished
<1>9. \A w \in Workers : call[w] # Idle =>
          Window(call[w]) \subseteq Window(call[w])'
  BY <1>1, <1>3 DEF IInv, CallsCoherent, Window
<1>10. WritersInWindow'
  BY <1>3, <1>9 DEF IInv, WritersInWindow
<1>11. FreshInWindow'
  BY <1>3, <1>9 DEF IInv, FreshInWindow, At
<1>12. CacheCoherent'
  BY <1>1, <1>3, <1>4 DEF IInv, CacheCoherent, StampsPublished, JudgedAt
<1>13. AnswerWithinWindow'
  <2> SUFFICES ASSUME NEW w \in Workers, At(w, "answered")
               PROVE  /\ call[w].used \in Window(call[w])'
                      /\ call[w].verdict =
                            IF call[w].query \in JudgedAt(call[w].cfg, call[w].used)'
                            THEN "allow" ELSE "deny"
    BY <1>3 DEF AnswerWithinWindow, At
  <2>1. call[w].used \in Window(call[w])
        /\ call[w].verdict = IF call[w].query \in JudgedAt(call[w].cfg, call[w].used)
                             THEN "allow" ELSE "deny"
    BY DEF IInv, AnswerWithinWindow
  <2>2. call[w].used \in 0 .. published.gen
    BY <2>1, <1>1 DEF IInv, CallsCoherent, Window, At
  <2>3. JudgedAt(call[w].cfg, call[w].used)' = JudgedAt(call[w].cfg, call[w].used)
    BY <2>2, <1>3, <1>4 DEF JudgedAt
  <2> QED
    BY <2>1, <2>3, <1>9, <1>3 DEF At
<1> QED
  BY <1>5, <1>6, <1>7, <1>8, <1>10, <1>11, <1>12, <1>13 DEF IInv

\* A new Config comes with a deny-all cache, and no call is judging for it yet
\* (config.rs 311-331).
LEMMA ParseInvariant ==
    ASSUME IInv, NEW c \in Configs, NEW r \in Rules, Parse(c, r)
    PROVE  IInv'
<1>1. UNCHANGED <<published, guards, call, log>>
  BY DEF Parse
<1>2. /\ raw[c] = Unparsed /\ raw' = [raw EXCEPT ![c] = r]
      /\ cache' = [cache EXCEPT ![c] = [gen |-> U64Max, judged |-> {}]]
      /\ raw \in [Configs -> Rules \union {Unparsed}]
      /\ cache \in [Configs -> [gen : Generation \union {U64Max},
                                judged : SUBSET Queries]]
      /\ r # Unparsed
  BY UnparsedAssumption DEF Parse, StaleOnArrival, DenyAll, IInv, TypeOK
<1>3. \A w \in Workers : call[w] # Idle =>
         call[w].cfg \in Configs /\ call[w].cfg # c
  BY <1>2 DEF IInv, CallsCoherent, TypeOK, Call
<1>4. TypeOK'
  BY <1>1, <1>2 DEF IInv, TypeOK, guards
<1>5. PublishedIsLast'
  BY <1>1 DEF IInv, PublishedIsLast
<1>6. CallsCoherent'
  BY <1>1, <1>2, <1>3 DEF IInv, CallsCoherent
<1>7. StampsPublished'
  BY <1>1, <1>2 DEF IInv, StampsPublished
<1>8. WritersInWindow'
  BY <1>1 DEF IInv, WritersInWindow, Window
<1>9. FreshInWindow'
  BY <1>1, <1>2, <1>3 DEF IInv, FreshInWindow, Window, At
<1>10. CacheCoherent'
  BY <1>1, <1>2 DEF IInv, CacheCoherent, JudgedAt, DenyAll
<1>11. AnswerWithinWindow'
  BY <1>1, <1>2, <1>3 DEF IInv, AnswerWithinWindow, JudgedAt, Window, At
<1> QED
  BY <1>4, <1>5, <1>6, <1>7, <1>8, <1>9, <1>10, <1>11 DEF IInv

\* A new call reads the newest generation, which is in the window of every call in
\* flight, and it records theirs in its own (config.rs 207-208).
LEMMA BeginInvariant ==
    ASSUME IInv, NEW w \in Workers, NEW c \in Configs, NEW q \in Queries,
           Begin(w, c, q)
    PROVE  IInv'
<1> DEFINE k == [pc |-> "published", cfg |-> c, query |-> q,
                 gen |-> published.gen, table |-> published.table,
                 overlap |-> {call[v].gen : v \in InFlight(c)},
                 used |-> U64Max, verdict |-> "none"]
<1>1. /\ UNCHANGED <<published, raw, cache, guards, log>>
      /\ raw[c] # Unparsed
      /\ call[w] = Idle
      /\ call' = [call EXCEPT ![w] = k]
  BY DEF Begin
<1>2. /\ published.gen \in 0 .. MaxPublish
      /\ published.table \in Tables \union {NoTable}
      /\ MaxPublish \in Nat
      /\ call \in [Workers -> Call \union {Idle}]
  BY BoundAssumption DEF IInv, TypeOK, Generation
<1>3. k.overlap \subseteq 0 .. published.gen
  BY DEF IInv, CallsCoherent, InFlight
<1>4. k \in Call
  BY <1>2, <1>3 DEF Call, Generation
<1>5. k # Idle
  BY <1>4, IdleAssumption
<1>6. call'[w] = k /\ \A v \in Workers : v # w => call'[v] = call[v]
  BY <1>1, <1>2
<1>7. TypeOK'
  BY <1>1, <1>2, <1>4 DEF IInv, TypeOK, guards
<1>8. PublishedIsLast'
  BY <1>1 DEF IInv, PublishedIsLast
<1>9. CallsCoherent'
  <2> SUFFICES ASSUME NEW v \in Workers, call'[v] # Idle
               PROVE  /\ call'[v].gen \in 0 .. published.gen
                      /\ call'[v].overlap \in SUBSET (0 .. published.gen)
                      /\ call'[v].table = TableAt(log, call'[v].gen)
                      /\ raw[call'[v].cfg] # Unparsed
    BY <1>1 DEF CallsCoherent
  <2>1. CASE v = w
    BY <2>1, <1>1, <1>2, <1>3, <1>6 DEF IInv, PublishedIsLast
  <2>2. CASE v # w
    BY <2>2, <1>6 DEF IInv, CallsCoherent
  <2> QED
    BY <2>1, <2>2
<1>10. StampsPublished'
  BY <1>1 DEF IInv, StampsPublished
<1>11. WritersInWindow'
  <2> SUFFICES ASSUME NEW u \in Workers, NEW v \in Workers,
                      call'[u] # Idle, call'[v] # Idle,
                      call'[u].cfg = call'[v].cfg
               PROVE  call'[u].gen \in call'[v].overlap
                                       \union call'[v].gen .. published.gen
    BY <1>1 DEF WritersInWindow, Window
  <2>1. CASE u # w /\ v # w
    BY <2>1, <1>6 DEF IInv, WritersInWindow, Window
  <2>2. CASE u = w
    <3>1. call'[u].gen = published.gen
      BY <2>2, <1>6
    <3>2. call'[v].gen \in 0 .. published.gen
      BY <1>1, <1>9 DEF CallsCoherent
    <3> QED
      BY <3>1, <3>2, <1>2
  <2>3. CASE u # w /\ v = w
    <3>1. call'[u] = call[u] /\ call[u].cfg = c
      BY <2>3, <1>6
    <3>2. u \in InFlight(c)
      BY <3>1 DEF InFlight
    <3> QED
      BY <2>3, <3>1, <3>2, <1>6
  <2> QED
    BY <2>1, <2>2, <2>3
<1>12. FreshInWindow'
  BY <1>1, <1>6 DEF IInv, FreshInWindow, Window, At
<1>13. CacheCoherent'
  BY <1>1 DEF IInv, CacheCoherent, JudgedAt
<1>14. AnswerWithinWindow'
  BY <1>1, <1>6 DEF IInv, AnswerWithinWindow, JudgedAt, Window, At
<1> QED
  BY <1>7, <1>8, <1>9, <1>10, <1>11, <1>12, <1>13, <1>14 DEF IInv

\* CheckGeneration moves only the program counter of the call and takes a guard; a
\* cache found current is of this call's own generation (config.rs 209).
LEMMA CheckGenerationInvariant ==
    ASSUME IInv, NEW w \in Workers, CheckGeneration(w)
    PROVE  IInv'
<1> DEFINE p == IF cache[call[w].cfg].gen # call[w].gen THEN "expired" ELSE "current"
<1>1. /\ UNCHANGED <<published, raw, cache, writer, log>>
      /\ call[w] # Idle
      /\ call' = [call EXCEPT ![w].pc = p]
      /\ call \in [Workers -> Call \union {Idle}]
      /\ readers' = [readers EXCEPT ![call[w].cfg] = @ \union {w}]
  BY DEF CheckGeneration, TakeRead, At, IInv, TypeOK
<1>2. /\ call[w] \in Call
      /\ call'[w] = [call[w] EXCEPT !.pc = p]
      /\ \A v \in Workers : v # w => call'[v] = call[v]
  BY <1>1
<1>3. call'[w] \in Call /\ call'[w].pc = p
  BY <1>2 DEF Call
<1>4. \A v \in Workers :
         /\ call'[v] = Idle <=> call[v] = Idle
         /\ call[v] # Idle =>
               /\ call'[v].gen = call[v].gen
               /\ call'[v].table = call[v].table
               /\ call'[v].cfg = call[v].cfg
               /\ call'[v].overlap = call[v].overlap
  BY <1>1, <1>2, <1>3, IdleAssumption DEF Call
<1>5. TypeOK'
  BY <1>1, <1>2, <1>3 DEF IInv, TypeOK
<1>6. PublishedIsLast' /\ StampsPublished' /\ CacheCoherent'
  BY <1>1 DEF IInv, PublishedIsLast, StampsPublished, CacheCoherent, JudgedAt
<1>7. CallsCoherent'
  BY <1>1, <1>4 DEF IInv, CallsCoherent
<1>8. WritersInWindow'
  BY <1>1, <1>4 DEF IInv, WritersInWindow, Window
<1>9. FreshInWindow'
  <2> SUFFICES ASSUME NEW v \in Workers, call'[v] # Idle, call'[v].pc \in {"current", "fresh"}
               PROVE  cache[call'[v].cfg].gen \in
                          call'[v].overlap \union call'[v].gen .. published.gen
    BY <1>1 DEF FreshInWindow, At, Window
  <2>1. CASE v # w
    BY <2>1, <1>2 DEF IInv, FreshInWindow, At, Window
  <2>2. CASE v = w
    <3>1. cache[call[w].cfg].gen = call[w].gen
      BY <2>2, <1>3
    <3>2. call[w].gen \in 0 .. published.gen /\ published.gen \in Nat
      BY <1>1, BoundAssumption DEF IInv, CallsCoherent, TypeOK, Generation
    <3> QED
      BY <2>2, <3>1, <3>2, <1>1, <1>4
  <2> QED
    BY <2>1, <2>2
<1>10. AnswerWithinWindow'
  BY <1>1, <1>2, <1>3 DEF IInv, AnswerWithinWindow, At, Window, JudgedAt
<1> QED
  BY <1>5, <1>6, <1>7, <1>8, <1>9, <1>10 DEF IInv

\* The end of the check changes no cache and no window: what was found current is
\* still in this call's window, whoever wrote the cache since (config.rs 209).
LEMMA EndCheckInvariant ==
    ASSUME IInv, NEW w \in Workers, EndCheck(w)
    PROVE  IInv'
<1>1. PICK p \in {"stale", "fresh"} :
      /\ UNCHANGED <<published, raw, cache, writer, log>>
      /\ call[w] # Idle
      /\ p = "fresh" => At(w, "current")
      /\ call' = [call EXCEPT ![w].pc = p]
      /\ call \in [Workers -> Call \union {Idle}]
      /\ readers' = [readers EXCEPT ![call[w].cfg] = @ \ {w}]
  BY DEF EndCheck, DropRead, At, IInv, TypeOK
<1>2. /\ call[w] \in Call
      /\ call'[w] = [call[w] EXCEPT !.pc = p]
      /\ \A v \in Workers : v # w => call'[v] = call[v]
  BY <1>1
<1>3. call'[w] \in Call /\ call'[w].pc = p
  BY <1>2 DEF Call
<1>4. \A v \in Workers :
         /\ call'[v] = Idle <=> call[v] = Idle
         /\ call[v] # Idle =>
               /\ call'[v].gen = call[v].gen
               /\ call'[v].table = call[v].table
               /\ call'[v].cfg = call[v].cfg
               /\ call'[v].overlap = call[v].overlap
  BY <1>1, <1>2, <1>3, IdleAssumption DEF Call
<1>5. TypeOK'
  BY <1>1, <1>2, <1>3 DEF IInv, TypeOK
<1>6. PublishedIsLast' /\ StampsPublished' /\ CacheCoherent'
  BY <1>1 DEF IInv, PublishedIsLast, StampsPublished, CacheCoherent, JudgedAt
<1>7. CallsCoherent'
  BY <1>1, <1>4 DEF IInv, CallsCoherent
<1>8. WritersInWindow'
  BY <1>1, <1>4 DEF IInv, WritersInWindow, Window
<1>9. FreshInWindow'
  <2> SUFFICES ASSUME NEW v \in Workers, call'[v] # Idle, call'[v].pc \in {"current", "fresh"}
               PROVE  cache[call'[v].cfg].gen \in
                          call'[v].overlap \union call'[v].gen .. published.gen
    BY <1>1 DEF FreshInWindow, At, Window
  <2>1. CASE v # w
    BY <2>1, <1>2 DEF IInv, FreshInWindow, At, Window
  <2>2. CASE v = w
    <3>1. cache[call[w].cfg].gen \in Window(call[w])
      BY <2>2, <1>1, <1>3 DEF IInv, FreshInWindow
    <3> QED
      BY <2>2, <3>1, <1>1, <1>4 DEF Window
  <2> QED
    BY <2>1, <2>2
<1>10. AnswerWithinWindow'
  BY <1>1, <1>2, <1>3 DEF IInv, AnswerWithinWindow, At, Window, JudgedAt
<1> QED
  BY <1>5, <1>6, <1>7, <1>8, <1>9, <1>10 DEF IInv

\* Taking the write guard changes no cache and no window (config.rs 210).
LEMMA LockCacheInvariant ==
    ASSUME IInv, NEW w \in Workers, LockCache(w)
    PROVE  IInv'
<1>1. /\ UNCHANGED <<published, raw, cache, readers, log>>
      /\ call[w] # Idle
      /\ writer' = [writer EXCEPT ![call[w].cfg] = w]
      /\ call' = [call EXCEPT ![w].pc = "locked"]
      /\ call \in [Workers -> Call \union {Idle}]
  BY DEF LockCache, TakeWrite, At, IInv, TypeOK
<1>2. /\ call[w] \in Call
      /\ call'[w] = [call[w] EXCEPT !.pc = "locked"]
      /\ \A v \in Workers : v # w => call'[v] = call[v]
  BY <1>1
<1>3. call'[w] \in Call /\ call'[w].pc = "locked"
  BY <1>2 DEF Call
<1>4. \A v \in Workers :
         /\ call'[v] = Idle <=> call[v] = Idle
         /\ call[v] # Idle =>
               /\ call'[v].gen = call[v].gen
               /\ call'[v].table = call[v].table
               /\ call'[v].cfg = call[v].cfg
               /\ call'[v].overlap = call[v].overlap
  BY <1>1, <1>2, <1>3, IdleAssumption DEF Call
<1>5. TypeOK'
  BY <1>1, <1>2, <1>3 DEF IInv, TypeOK
<1>6. PublishedIsLast' /\ StampsPublished' /\ CacheCoherent'
  BY <1>1 DEF IInv, PublishedIsLast, StampsPublished, CacheCoherent, JudgedAt
<1>7. CallsCoherent'
  BY <1>1, <1>4 DEF IInv, CallsCoherent
<1>8. WritersInWindow'
  BY <1>1, <1>4 DEF IInv, WritersInWindow, Window
<1>9. FreshInWindow'
  BY <1>1, <1>2, <1>3 DEF IInv, FreshInWindow, At, Window
<1>10. AnswerWithinWindow'
  BY <1>1, <1>2, <1>3 DEF IInv, AnswerWithinWindow, At, Window, JudgedAt
<1> QED
  BY <1>5, <1>6, <1>7, <1>8, <1>9, <1>10 DEF IInv

\* The one step that can disturb another call: the cache it is about to read
\* is replaced.  WritersInWindow says by what.
LEMMA RebuildInvariant ==
    ASSUME IInv, NEW w \in Workers, Rebuild(w)
    PROVE  IInv'
<1> DEFINE c == call[w].cfg
           j == JudgeAgainst(raw[c], call[w].table)
<1>1. /\ UNCHANGED <<published, raw, readers, log>>
      /\ call[w] # Idle
      /\ cache' = IF cache[c].gen # call[w].gen
                  THEN [cache EXCEPT ![c] = [gen |-> call[w].gen, judged |-> j]]
                  ELSE cache
      /\ writer' = [writer EXCEPT ![c] = NoWriter]
      /\ call' = [call EXCEPT ![w].pc = "fresh"]
      /\ call \in [Workers -> Call \union {Idle}]
      /\ cache \in [Configs -> [gen : Generation \union {U64Max},
                                judged : SUBSET Queries]]
      /\ raw \in [Configs -> Rules \union {Unparsed}]
  BY DEF Rebuild, DropWrite, At, IInv, TypeOK
<1>2. /\ call[w] \in Call /\ c \in Configs
      /\ call[w].gen \in Generation
      /\ call[w].table \in Tables \union {NoTable}
      /\ call'[w] = [call[w] EXCEPT !.pc = "fresh"]
      /\ \A v \in Workers : v # w => call'[v] = call[v]
  BY <1>1 DEF Call
<1>3. call'[w] \in Call /\ call'[w].pc = "fresh"
  BY <1>2 DEF Call
<1>4. \A v \in Workers :
         /\ call'[v] = Idle <=> call[v] = Idle
         /\ call[v] # Idle =>
               /\ call'[v].gen = call[v].gen
               /\ call'[v].table = call[v].table
               /\ call'[v].cfg = call[v].cfg
               /\ call'[v].overlap = call[v].overlap
  BY <1>1, <1>2, <1>3, IdleAssumption DEF Call
<1>5. /\ call[w].gen \in 0 .. published.gen
      /\ call[w].table = TableAt(log, call[w].gen)
      /\ raw[c] \in Rules
      /\ published.gen \in 0 .. MaxPublish
      /\ MaxPublish \in Nat /\ U64Max \in Nat /\ MaxPublish < U64Max
  BY <1>1, <1>2, BoundAssumption DEF IInv, CallsCoherent, TypeOK, Generation
<1>6. j \in SUBSET Queries
  BY <1>2, <1>5, JudgeAgainstType
<1>7. /\ cache'[c].gen = call[w].gen
      /\ \A d \in Configs : d # c => cache'[d] = cache[d]
      /\ \A d \in Configs : cache'[d] = cache[d]
                            \/ cache'[d] = [gen |-> call[w].gen, judged |-> j]
  BY <1>1, <1>2
<1>8. TypeOK'
  BY <1>1, <1>2, <1>3, <1>6 DEF IInv, TypeOK
<1>9. PublishedIsLast'
  BY <1>1 DEF IInv, PublishedIsLast
<1>10. StampsPublished'
  BY <1>1, <1>5, <1>7 DEF IInv, StampsPublished
<1>11. CacheCoherent'
  <2> SUFFICES ASSUME NEW d \in Configs
               PROVE  cache'[d].judged = IF cache'[d].gen = U64Max THEN DenyAll
                                         ELSE JudgedAt(d, cache'[d].gen)
    BY <1>1 DEF CacheCoherent, JudgedAt
  <2>1. CASE cache'[d] = cache[d]
    BY <2>1 DEF IInv, CacheCoherent
  <2>2. CASE cache'[d] # cache[d]
    <3>1. d = c /\ cache'[d] = [gen |-> call[w].gen, judged |-> j]
      BY <2>2, <1>7
    <3>2. call[w].gen # U64Max
      BY <1>5
    <3>3. j = JudgedAt(c, call[w].gen)
      BY <1>5 DEF JudgedAt
    <3> QED
      BY <3>1, <3>2, <3>3
  <2> QED
    BY <2>1, <2>2
<1>12. CallsCoherent'
  BY <1>1, <1>4 DEF IInv, CallsCoherent
<1>13. WritersInWindow'
  BY <1>1, <1>4 DEF IInv, WritersInWindow, Window
<1>14. FreshInWindow'
  <2> SUFFICES ASSUME NEW v \in Workers, call'[v] # Idle, call'[v].pc \in {"current", "fresh"}
               PROVE  cache'[call[v].cfg].gen \in Window(call[v])
    BY <1>1, <1>4 DEF FreshInWindow, At, Window
  <2>1. call[v] # Idle /\ call[v].cfg \in Configs
    BY <1>1, <1>4 DEF Call
  <2>2. CASE call[v].cfg = c
    <3>1. call[w].gen \in Window(call[v])
      BY <1>1, <2>1, <2>2 DEF IInv, WritersInWindow
    <3> QED
      BY <2>2, <3>1, <1>7
  <2>3. CASE call[v].cfg # c
    <3>1. v # w /\ call'[v] = call[v]
      BY <2>3, <1>2
    <3>2. cache'[call[v].cfg] = cache[call[v].cfg]
      BY <2>1, <2>3, <1>7
    <3> QED
      BY <3>1, <3>2 DEF IInv, FreshInWindow, At
  <2> QED
    BY <2>2, <2>3
<1>15. AnswerWithinWindow'
  BY <1>1, <1>2, <1>3 DEF IInv, AnswerWithinWindow, At, Window, JudgedAt
<1> QED
  BY <1>8, <1>9, <1>10, <1>11, <1>12, <1>13, <1>14, <1>15 DEF IInv

\* The answer: FreshInWindow places the generation, CacheCoherent the verdict.
LEMMA JudgeInvariant ==
    ASSUME IInv, NEW w \in Workers, Judge(w)
    PROVE  IInv'
<1> DEFINE c == call[w].cfg
           a == IF call[w].query \in cache[c].judged THEN "allow" ELSE "deny"
<1>1. /\ UNCHANGED <<published, raw, cache, writer, log>>
      /\ At(w, "fresh") /\ call[w] # Idle
      /\ call' = [call EXCEPT ![w] = [call[w] EXCEPT !.pc = "answered",
                                                   !.used = cache[c].gen,
                                                   !.verdict = a]]
      /\ call \in [Workers -> Call \union {Idle}]
      /\ cache \in [Configs -> [gen : Generation \union {U64Max},
                                judged : SUBSET Queries]]
      /\ readers' = [readers EXCEPT ![c] = @ \union {w}]
  BY DEF Judge, TakeRead, At, IInv, TypeOK
<1>2. /\ call[w] \in Call /\ c \in Configs
      /\ cache[c].gen \in Generation \union {U64Max}
      /\ call'[w] = [call[w] EXCEPT !.pc = "answered", !.used = cache[c].gen,
                                     !.verdict = a]
      /\ \A v \in Workers : v # w => call'[v] = call[v]
  BY <1>1 DEF Call
<1>3. /\ call'[w] \in Call /\ call'[w].pc = "answered"
      /\ call'[w].used = cache[c].gen /\ call'[w].verdict = a
      /\ call'[w].query = call[w].query
  BY <1>2 DEF Call
<1>4. \A v \in Workers :
         /\ call'[v] = Idle <=> call[v] = Idle
         /\ call[v] # Idle =>
               /\ call'[v].gen = call[v].gen
               /\ call'[v].table = call[v].table
               /\ call'[v].cfg = call[v].cfg
               /\ call'[v].overlap = call[v].overlap
  BY <1>1, <1>2, <1>3, IdleAssumption DEF Call
<1>5. TypeOK'
  BY <1>1, <1>2, <1>3 DEF IInv, TypeOK
<1>6. PublishedIsLast' /\ StampsPublished' /\ CacheCoherent'
  BY <1>1 DEF IInv, PublishedIsLast, StampsPublished, CacheCoherent, JudgedAt
<1>7. CallsCoherent'
  BY <1>1, <1>4 DEF IInv, CallsCoherent
<1>8. WritersInWindow'
  BY <1>1, <1>4 DEF IInv, WritersInWindow, Window
<1>9. FreshInWindow'
  BY <1>1, <1>2, <1>3 DEF IInv, FreshInWindow, At, Window
<1>10. AnswerWithinWindow'
  <2> SUFFICES ASSUME NEW v \in Workers, call'[v] # Idle, call'[v].pc = "answered"
               PROVE  /\ call'[v].used \in
                            call'[v].overlap \union call'[v].gen .. published.gen
                      /\ call'[v].verdict =
                            IF call'[v].query \in JudgedAt(call'[v].cfg, call'[v].used)
                            THEN "allow" ELSE "deny"
    BY <1>1 DEF AnswerWithinWindow, At, Window, JudgedAt
  <2>1. CASE v # w
    BY <2>1, <1>2 DEF IInv, AnswerWithinWindow, At, Window
  <2>2. CASE v = w
    <3>1. cache[c].gen \in Window(call[w])
      BY <1>1 DEF IInv, FreshInWindow
    <3>2. cache[c].gen # U64Max
      BY <3>1, <1>1, BoundAssumption
         DEF IInv, CallsCoherent, TypeOK, Generation, Window
    <3>3. cache[c].judged = JudgedAt(c, cache[c].gen)
      BY <3>2, <1>2 DEF IInv, CacheCoherent
    <3>4. call'[w].cfg = c /\ call'[w].overlap = call[w].overlap
          /\ call'[w].gen = call[w].gen
      BY <1>1, <1>4
    <3> QED
      BY <2>2, <3>1, <3>3, <3>4, <1>3 DEF Window
  <2> QED
    BY <2>1, <2>2
<1> QED
  BY <1>5, <1>6, <1>7, <1>8, <1>9, <1>10 DEF IInv

\* A call that ends writes no cache any more (config.rs 223-224).
LEMMA ReturnInvariant ==
    ASSUME IInv, NEW w \in Workers, Return(w)
    PROVE  IInv'
<1>1. /\ UNCHANGED <<published, raw, cache, writer, log>>
      /\ call' = [call EXCEPT ![w] = Idle]
      /\ call \in [Workers -> Call \union {Idle}]
      /\ readers' = [readers EXCEPT ![call[w].cfg] = @ \ {w}]
  BY DEF Return, DropRead, IInv, TypeOK
<1>2. call'[w] = Idle /\ \A v \in Workers : v # w => call'[v] = call[v]
  BY <1>1
<1>3. TypeOK'
  BY <1>1 DEF IInv, TypeOK
<1>4. PublishedIsLast' /\ StampsPublished' /\ CacheCoherent'
  BY <1>1 DEF IInv, PublishedIsLast, StampsPublished, CacheCoherent, JudgedAt
<1>5. CallsCoherent'
  BY <1>1, <1>2 DEF IInv, CallsCoherent
<1>6. WritersInWindow'
  BY <1>1, <1>2 DEF IInv, WritersInWindow, Window
<1>7. FreshInWindow'
  BY <1>1, <1>2 DEF IInv, FreshInWindow, At, Window
<1>8. AnswerWithinWindow'
  BY <1>1, <1>2 DEF IInv, AnswerWithinWindow, At, Window, JudgedAt
<1> QED
  BY <1>3, <1>4, <1>5, <1>6, <1>7, <1>8 DEF IInv

\* Steps of the rest of the process change nothing here.
LEMMA StutterInvariant == IInv /\ UNCHANGED vars => IInv'
<1> SUFFICES ASSUME IInv, UNCHANGED vars PROVE IInv'
  OBVIOUS
<1>1. TypeOK' /\ PublishedIsLast' /\ CallsCoherent' /\ StampsPublished'
  BY DEF vars, guards, IInv, TypeOK, PublishedIsLast, CallsCoherent, StampsPublished
<1>2. WritersInWindow' /\ FreshInWindow'
  BY DEF vars, IInv, WritersInWindow, FreshInWindow, Window, At
<1>3. CacheCoherent' /\ AnswerWithinWindow'
  BY DEF vars, IInv, CacheCoherent, AnswerWithinWindow, Window, At, JudgedAt
<1> QED
  BY <1>1, <1>2, <1>3 DEF IInv

\* Every state of every behaviour satisfies the inductive invariant, for any
\* workers, Configs, rules, tables and number of publications.
THEOREM Invariance == Spec => []IInv
<1>1. Init => IInv
  BY InitInvariant
<1>2. IInv /\ [Next]_vars => IInv'
  <2> SUFFICES ASSUME IInv, [Next]_vars PROVE IInv'
    OBVIOUS
  <2>1. ASSUME NEW t \in Tables, Publish(t) PROVE IInv'
    BY <2>1, PublishInvariant
  <2>2. ASSUME NEW c \in Configs, NEW r \in Rules, Parse(c, r) PROVE IInv'
    BY <2>2, ParseInvariant
  <2>3. ASSUME NEW w \in Workers, NEW c \in Configs, NEW q \in Queries,
               Begin(w, c, q)
        PROVE  IInv'
    BY <2>3, BeginInvariant
  <2>4. ASSUME NEW w \in Workers, Step(w) PROVE IInv'
    BY <2>4, CheckGenerationInvariant, EndCheckInvariant, LockCacheInvariant, RebuildInvariant,
       JudgeInvariant, ReturnInvariant DEF Step
  <2>5. CASE UNCHANGED vars
    BY <2>5, StutterInvariant
  <2> QED
    BY <2>1, <2>2, <2>3, <2>4, <2>5 DEF Next
<1> QED
  BY <1>1, <1>2, PTL DEF Spec

\* The published cell, the caches and the calls keep their types.
LEMMA TypeCorrect == Spec => []TypeOK
<1>1. IInv => TypeOK
  BY DEF IInv
<1> QED
  BY <1>1, Invariance, PTL

\* No interleaving of workers and carriers leaves a cache holding one table's
\* expansion under another's generation (config.rs 207-224).
THEOREM CacheAlwaysCoherent == Spec => []CacheCoherent
<1>1. IInv => CacheCoherent
  BY DEF IInv
<1> QED
  BY <1>1, Invariance, PTL

\* Every answer of permits() is what the rules say under one table of the
\* call's window (config.rs 207-224).
THEOREM BoundedStaleness == Spec => []AnswerWithinWindow
<1>1. IInv => AnswerWithinWindow
  BY DEF IInv
<1> QED
  BY <1>1, Invariance, PTL

-----------------------------------------------------------------------------
(* The guards.                                                             *)

\* A guard is held only where the code is inside the guard's scope.
GuardsInScope ==
    \A w \in Workers, c \in Configs :
        /\ w \in readers[c] => call[w] # Idle /\ call[w].cfg = c
                               /\ call[w].pc \in {"expired", "current", "answered"}
        /\ writer[c] = w => At(w, "locked") /\ call[w].cfg = c

\* A call drops each guard before it asks for the next (config.rs 209-223).
LEMMA GuardsInvariant == Spec => []GuardsInScope
<1>1. Init => GuardsInScope
  BY NoWriterAssumption DEF Init, GuardsInScope
<1>2. TypeOK /\ GuardsInScope /\ [Next]_vars => GuardsInScope'
  <2> SUFFICES ASSUME TypeOK, GuardsInScope, [Next]_vars PROVE GuardsInScope'
    OBVIOUS
  <2>0. /\ call \in [Workers -> Call \union {Idle}]
        /\ readers \in [Configs -> SUBSET Workers]
        /\ writer \in [Configs -> Workers \union {NoWriter}]
    BY DEF TypeOK
  <2>1. ASSUME UNCHANGED <<guards, call>> PROVE GuardsInScope'
    BY <2>1 DEF GuardsInScope, guards, At
  <2>2. ASSUME NEW w \in Workers, NEW d \in Configs, NEW q \in Queries, Begin(w, d, q)
        PROVE  GuardsInScope'
    <3>1. call[w] = Idle /\ UNCHANGED guards
          /\ \A v \in Workers : v # w => call'[v] = call[v]
      BY <2>0, <2>2 DEF Begin
    <3> QED
      BY <3>1 DEF GuardsInScope, guards, At
  <2>3. ASSUME NEW w \in Workers, CheckGeneration(w) \/ EndCheck(w) \/ LockCache(w) \/ Rebuild(w)
        PROVE  GuardsInScope'
    <3>1. call[w] \in Call /\ call[w] # Idle /\ call[w].cfg \in Configs
      BY <2>0, <2>3 DEF CheckGeneration, EndCheck, LockCache, Rebuild, At, Call
    <3>2. ASSUME NEW p, p \in {"expired", "current", "stale", "fresh", "locked"},
                 call' = [call EXCEPT ![w].pc = p]
          PROVE  /\ call'[w] # Idle /\ call'[w].pc = p /\ call'[w].cfg = call[w].cfg
                 /\ \A v \in Workers : v # w => call'[v] = call[v]
      <4>1. call'[w] = [call[w] EXCEPT !.pc = p] /\ \A v \in Workers : v # w => call'[v] = call[v]
        BY <2>0, <3>2
      <4>2. call'[w] \in Call /\ call'[w].pc = p /\ call'[w].cfg = call[w].cfg
        BY <3>1, <3>2, <4>1 DEF Call
      <4> QED
        BY <4>1, <4>2, IdleAssumption
    <3>3. CASE CheckGeneration(w)
      <4>1. PICK p \in {"expired", "current"} : call' = [call EXCEPT ![w].pc = p]
        BY <3>3 DEF CheckGeneration
      <4>2. /\ readers' = [readers EXCEPT ![call[w].cfg] = @ \union {w}]
            /\ writer' = writer /\ At(w, "published")
        BY <3>3 DEF CheckGeneration, TakeRead
      <4>3. /\ call'[w] # Idle /\ call'[w].pc = p /\ call'[w].cfg = call[w].cfg
            /\ \A v \in Workers : v # w => call'[v] = call[v]
        BY <3>2, <4>1
      <4> SUFFICES ASSUME NEW v \in Workers, NEW c \in Configs
                   PROVE  /\ v \in readers'[c] => call'[v] # Idle /\ call'[v].cfg = c
                                /\ call'[v].pc \in {"expired", "current", "answered"}
                          /\ writer'[c] = v => /\ call'[v] # Idle /\ call'[v].pc = "locked"
                                               /\ call'[v].cfg = c
        BY DEF GuardsInScope, At
      <4>4. CASE v = w
        BY <4>4, <2>0, <3>1, <4>1, <4>2, <4>3 DEF GuardsInScope, At
      <4>5. CASE v # w
        BY <4>5, <2>0, <3>1, <4>1, <4>2, <4>3 DEF GuardsInScope, At
      <4> QED
        BY <4>4, <4>5
    <3>4. CASE EndCheck(w)
      <4>1. PICK p \in {"stale", "fresh"} : call' = [call EXCEPT ![w].pc = p]
        BY <3>4 DEF EndCheck
      <4>2. /\ readers' = [readers EXCEPT ![call[w].cfg] = @ \ {w}]
            /\ writer' = writer /\ call[w].pc # "locked"
        BY <3>4 DEF EndCheck, DropRead, At
      <4> QED
        BY <2>0, <3>1, <3>2, <4>1, <4>2 DEF GuardsInScope, At
    <3>5. CASE LockCache(w)
      <4>1. /\ call' = [call EXCEPT ![w].pc = "locked"] /\ At(w, "stale")
            /\ writer' = [writer EXCEPT ![call[w].cfg] = w] /\ readers' = readers
        BY <3>5 DEF LockCache, TakeWrite
      <4>3. /\ call'[w] # Idle /\ call'[w].pc = "locked" /\ call'[w].cfg = call[w].cfg
            /\ \A v \in Workers : v # w => call'[v] = call[v]
        BY <3>2, <4>1
      <4> SUFFICES ASSUME NEW v \in Workers, NEW c \in Configs
                   PROVE  /\ v \in readers'[c] => call'[v] # Idle /\ call'[v].cfg = c
                                /\ call'[v].pc \in {"expired", "current", "answered"}
                          /\ writer'[c] = v => /\ call'[v] # Idle /\ call'[v].pc = "locked"
                                               /\ call'[v].cfg = c
        BY DEF GuardsInScope, At
      <4>4. CASE v = w
        BY <4>4, <2>0, <3>1, <4>1, <4>3 DEF GuardsInScope, At
      <4>5. CASE v # w
        BY <4>5, <2>0, <3>1, <4>1, <4>3 DEF GuardsInScope, At
      <4> QED
        BY <4>4, <4>5
    <3>6. CASE Rebuild(w)
      <4>1. /\ call' = [call EXCEPT ![w].pc = "fresh"] /\ At(w, "locked")
            /\ writer' = [writer EXCEPT ![call[w].cfg] = NoWriter] /\ readers' = readers
        BY <3>6 DEF Rebuild, DropWrite
      <4> QED
        BY <2>0, <3>1, <3>2, <4>1, NoWriterAssumption DEF GuardsInScope, At
    <3> QED
      BY <2>3, <3>3, <3>4, <3>5, <3>6
  <2>4. ASSUME NEW w \in Workers, Judge(w) PROVE GuardsInScope'
    <3>1. /\ At(w, "fresh") /\ call[w] \in Call /\ call[w].cfg \in Configs
          /\ readers' = [readers EXCEPT ![call[w].cfg] = @ \union {w}] /\ writer' = writer
      BY <2>0, <2>4 DEF Judge, TakeRead, At, Call
    <3>2. PICK g \in Generation \union {U64Max}, a \in {"allow", "deny"} :
             call' = [call EXCEPT ![w] = [call[w] EXCEPT !.pc = "answered",
                                                         !.used = g, !.verdict = a]]
      BY <2>4, <3>1 DEF Judge, TypeOK
    <3>3. /\ call'[w] # Idle /\ call'[w].pc = "answered" /\ call'[w].cfg = call[w].cfg
          /\ \A v \in Workers : v # w => call'[v] = call[v]
      <4>1. call'[w] = [call[w] EXCEPT !.pc = "answered", !.used = g, !.verdict = a]
            /\ \A v \in Workers : v # w => call'[v] = call[v]
        BY <2>0, <3>2
      <4>2. call[w] \in Call
        BY <3>1
      <4>3. call'[w] \in Call /\ call'[w].pc = "answered" /\ call'[w].cfg = call[w].cfg
        BY <4>1, <4>2 DEF Call
      <4> QED
        BY <4>1, <4>3, IdleAssumption
    <3> SUFFICES ASSUME NEW v \in Workers, NEW c \in Configs
                 PROVE  /\ v \in readers'[c] => call'[v] # Idle /\ call'[v].cfg = c
                              /\ call'[v].pc \in {"expired", "current", "answered"}
                        /\ writer'[c] = v => /\ call'[v] # Idle /\ call'[v].pc = "locked"
                                             /\ call'[v].cfg = c
      BY DEF GuardsInScope, At
    <3>4. CASE v = w
      BY <3>4, <2>0, <3>1, <3>3 DEF GuardsInScope, At
    <3>5. CASE v # w
      BY <3>5, <2>0, <3>1, <3>3 DEF GuardsInScope, At
    <3> QED
      BY <3>4, <3>5
  <2>5. ASSUME NEW w \in Workers, Return(w) PROVE GuardsInScope'
    <3>1. /\ At(w, "answered") /\ readers' = [readers EXCEPT ![call[w].cfg] = @ \ {w}]
          /\ writer' = writer /\ call' = [call EXCEPT ![w] = Idle]
      BY <2>5 DEF Return, DropRead
    <3>2. call'[w] = Idle /\ \A v \in Workers : v # w => call'[v] = call[v]
      BY <2>0, <3>1
    <3> QED
      BY <2>0, <3>1, <3>2 DEF GuardsInScope, At
  <2> QED
    BY <2>1, <2>2, <2>3, <2>4, <2>5 DEF Next, Step, Publish, Parse, vars
<1> QED
  BY <1>1, <1>2, TypeCorrect, PTL DEF Spec

\* No worker asks for a guard of a cache, or leaves permits(), while it holds one,
\* for any workers and Configs (config.rs 209-223).
THEOREM NothingHeldWhileWaiting == Spec => []NeverWaitsHolding
<1>1. GuardsInScope => NeverWaitsHolding
  BY DEF GuardsInScope, NeverWaitsHolding, At
<1> QED
  BY <1>1, GuardsInvariant, PTL

-----------------------------------------------------------------------------
(* The refinement: every step of Permits is a step of Enforcement or       *)
(* changes nothing Enforcement can see.                                    *)

\* A call has no verdict before its final read of the cache.
Undecided ==
    \A w \in Workers :
        (call[w] # Idle /\ call[w].pc # "answered") => call[w].verdict = "none"

\* A call has no verdict before the last read of the cache (config.rs 223).
LEMMA UndecidedInvariant == Spec => []Undecided
<1>1. Init => Undecided
  BY DEF Init, Undecided
<1>2. TypeOK /\ Undecided /\ [Next]_vars => Undecided'
  <2> SUFFICES ASSUME TypeOK, Undecided, [Next]_vars, NEW v \in Workers,
                      call'[v] # Idle, call'[v].pc # "answered"
               PROVE  call'[v].verdict = "none"
    BY DEF Undecided
  <2>0. call \in [Workers -> Call \union {Idle}]
    BY DEF TypeOK
  <2>1. ASSUME NEW w \in Workers, NEW c \in Configs, NEW q \in Queries,
               Begin(w, c, q)
        PROVE  call'[v].verdict = "none"
    BY <2>0, <2>1 DEF Begin, Undecided
  <2>2. ASSUME NEW w \in Workers, CheckGeneration(w) \/ EndCheck(w) \/ LockCache(w) \/ Rebuild(w)
        PROVE  call'[v].verdict = "none"
    <3>1. PICK p : p # "answered" /\ call' = [call EXCEPT ![w].pc = p]
                   /\ call[w] # Idle /\ call[w].pc # "answered"
      BY <2>2 DEF CheckGeneration, EndCheck, LockCache, Rebuild, At
    <3>2. call[w] \in Call /\ call'[w] = [call[w] EXCEPT !.pc = p]
      BY <2>0, <3>1
    <3>3. call'[w].verdict = call[w].verdict
      BY <3>2 DEF Call
    <3>4. v # w => call'[v] = call[v]
      BY <2>0, <3>1
    <3> QED
      BY <3>1, <3>3, <3>4 DEF Undecided
  <2>3. ASSUME NEW w \in Workers, Judge(w) PROVE call'[v].verdict = "none"
    <3>1. v # w
      BY <2>0, <2>3 DEF Judge, At, Call
    <3> QED
      BY <2>0, <2>3, <3>1 DEF Judge, Undecided
  <2>4. ASSUME NEW w \in Workers, Return(w) PROVE call'[v].verdict = "none"
    BY <2>0, <2>4 DEF Return, Undecided
  <2>5. CASE UNCHANGED call
    BY <2>5 DEF Undecided
  <2> QED
    BY <2>1, <2>2, <2>3, <2>4, <2>5 DEF Next, Step, Publish, Parse, vars
<1> QED
  BY <1>1, <1>2, TypeCorrect, PTL DEF Spec

\* A call is never mistaken for Idle on the way up.
LEMMA SeenType ==
    ASSUME NEW k \in Call
    PROVE  Seen(k) \in SeenCall /\ Seen(k) # Idle
           /\ Seen(k) = [cfg |-> k.cfg, query |-> k.query, gen |-> k.gen,
                         overlap |-> k.overlap, verdict |-> k.verdict]
BY IdleAssumption DEF Seen, SeenCall, Call

\* The empty process is the empty promise (config.rs 72-78).
LEMMA RefinesInit == Init => Promise!Init
BY DEF Init, Promise!Init, Seen

\* Every access to shared state is a step of Enforcement or none: the last read of
\* the cache answers, the check, the lock and the rebuild stutter (config.rs
\* 203-224).
LEMMA RefinesNext == IInv /\ Undecided /\ [Next]_vars => [Promise!Next]_(Promise!vars)
<1> SUFFICES ASSUME IInv, Undecided, [Next]_vars
             PROVE  Promise!Next \/ UNCHANGED Promise!vars
  OBVIOUS
<1> DEFINE A == [w \in Workers |-> Seen(call[w])]
<1>0. call \in [Workers -> Call \union {Idle}] /\ Seen(Idle) = Idle
  BY DEF IInv, TypeOK, Seen
<1>1. ASSUME NEW t \in Tables, Publish(t) PROVE Promise!Publish(t)
  BY <1>1 DEF Publish, Promise!Publish
<1>2. ASSUME NEW c \in Configs, NEW r \in Rules, Parse(c, r) PROVE Promise!Parse(c, r)
  BY <1>2 DEF Parse, Promise!Parse
<1>3. ASSUME NEW w \in Workers, NEW c \in Configs, NEW q \in Queries, Begin(w, c, q)
      PROVE  Promise!Begin(w, c, q)
  <2> DEFINE O == {call[v].gen : v \in InFlight(c)}
             k == [pc |-> "published", cfg |-> c, query |-> q,
                   gen |-> published.gen, table |-> published.table,
                   overlap |-> O, used |-> U64Max, verdict |-> "none"]
  <2>1. /\ call[w] = Idle /\ raw[c] # Unparsed
        /\ call' = [call EXCEPT ![w] = k] /\ UNCHANGED <<log, raw>>
    BY <1>3 DEF Begin
  <2>2. call' \in [Workers -> Call \union {Idle}] /\ call'[w] = k
    BY <1>0, <1>3, <2>1, BeginInvariant DEF IInv, TypeOK
  <2>3. \A v \in Workers : A[v] = Seen(call[v])
    OBVIOUS
  <2>4. \A v \in Workers : /\ A[v] # Idle <=> call[v] # Idle
                           /\ call[v] # Idle => A[v].cfg = call[v].cfg
                                              /\ A[v].gen = call[v].gen
    BY <1>0, <2>3, SeenType
  <2>5. Promise!InFlight(c) = InFlight(c)
    BY <2>4 DEF Promise!InFlight, InFlight
  <2>6. O = {A[v].gen : v \in Promise!InFlight(c)}
    BY <2>4, <2>5 DEF InFlight
  <2>7. k # Idle
    <3>1. O \subseteq Generation
      BY <1>0 DEF InFlight, Call
    <3>2. k \in Call
      BY <3>1 DEF Call, IInv, TypeOK
    <3> QED
      BY <3>2, IdleAssumption
  <2>8. Seen(k) = [cfg |-> c, query |-> q, gen |-> Len(log), overlap |-> O,
                   verdict |-> "none"]
    BY <2>7 DEF Seen, IInv, PublishedIsLast
  <2>9. A' = [A EXCEPT ![w] = Seen(k)]
    BY <1>0, <2>1
  <2> QED
    BY <2>1, <2>3, <2>4, <2>6, <2>8, <2>9 DEF Promise!Begin
<1>4. ASSUME NEW w \in Workers, CheckGeneration(w) \/ EndCheck(w) \/ LockCache(w) \/ Rebuild(w)
      PROVE  UNCHANGED Promise!vars
  <2>1. PICK p \in {"expired", "current", "stale", "fresh", "locked"} :
           call' = [call EXCEPT ![w].pc = p] /\ call[w] # Idle
           /\ UNCHANGED <<log, raw>>
    BY <1>4 DEF CheckGeneration, EndCheck, LockCache, Rebuild, At
  <2>2. call[w] \in Call /\ call'[w] = [call[w] EXCEPT !.pc = p]
        /\ \A v \in Workers : v # w => call'[v] = call[v]
    BY <1>0, <2>1
  <2>3. call'[w] \in Call /\ Seen(call'[w]) = Seen(call[w])
    <3>1. call'[w] \in Call
      BY <2>2 DEF Call
    <3> QED
      BY <2>2, <3>1, SeenType DEF Call
  <2>4. A' = A
    BY <2>2, <2>3
  <2> QED
    BY <2>1, <2>4 DEF Promise!vars
<1>5. ASSUME NEW w \in Workers, Judge(w) PROVE Promise!Answer(w)
  <2> DEFINE c == call[w].cfg
             g == cache[c].gen
             a == IF call[w].query \in cache[c].judged THEN "allow" ELSE "deny"
  <2>1. /\ At(w, "fresh") /\ call[w] # Idle /\ call[w].verdict = "none"
        /\ UNCHANGED <<log, raw, published>>
        /\ call' = [call EXCEPT ![w] = [call[w] EXCEPT !.pc = "answered",
                                            !.used = g, !.verdict = a]]
    BY <1>5 DEF Judge, At, Undecided
  <2>2. /\ call[w] \in Call
        /\ call'[w] = [call[w] EXCEPT !.pc = "answered", !.used = g, !.verdict = a]
        /\ \A v \in Workers : v # w => call'[v] = call[v]
    BY <1>0, <2>1
  <2>3. call' \in [Workers -> Call \union {Idle}]
    BY <1>5, JudgeInvariant DEF IInv, TypeOK
  <2>4. call'[w] \in Call
    BY <2>2, <2>3, IdleAssumption, <1>5 DEF Call, IInv, TypeOK, Judge
  <2>5. Seen(call'[w]) = [Seen(call[w]) EXCEPT !.verdict = a]
    <3>1. /\ call'[w].cfg = c /\ call'[w].query = call[w].query
          /\ call'[w].gen = call[w].gen /\ call'[w].overlap = call[w].overlap
          /\ call'[w].verdict = a
      BY <2>2 DEF Call
    <3>2. Seen(call'[w]) = [cfg |-> c, query |-> call[w].query, gen |-> call[w].gen,
                            overlap |-> call[w].overlap, verdict |-> a]
      BY <3>1, <2>4, SeenType
    <3>3. Seen(call[w]) = [cfg |-> c, query |-> call[w].query, gen |-> call[w].gen,
                           overlap |-> call[w].overlap, verdict |-> call[w].verdict]
      BY <2>2, SeenType
    <3> QED
      BY <3>2, <3>3
  <2>6. A' = [A EXCEPT ![w].verdict = a]
    BY <2>2, <2>5
  <2>7. g \in Window(call[w])
    BY <2>1 DEF IInv, FreshInWindow
  <2>8. g # U64Max /\ c \in Configs
    BY <2>1, <2>2, <2>7, BoundAssumption
       DEF IInv, CallsCoherent, TypeOK, Generation, Window, Call
  <2>9. cache[c].judged = JudgeAgainst(raw[c], TableAt(log, g))
    BY <2>8 DEF IInv, CacheCoherent, JudgedAt
  <2>10. /\ A[w] # Idle /\ A[w].verdict = "none" /\ A[w].cfg = c
         /\ A[w].query = call[w].query
         /\ g \in A[w].overlap \union A[w].gen .. Len(log)
    BY <2>1, <2>2, <2>7, SeenType DEF Window, IInv, PublishedIsLast
  <2>11. \A r, t : Promise!JudgeAgainst(r, t) = JudgeAgainst(r, t)
    BY DEF JudgeAgainst, DenyAll, Promise!JudgeAgainst, Promise!DenyAll
  <2>12. Promise!TableAt(log, g) = TableAt(log, g)
    BY DEF TableAt, Promise!TableAt
  <2>13. g \in Promise!Window(A[w])
    BY <2>10 DEF Promise!Window
  <2>14. A' = [A EXCEPT ![w].verdict =
                  IF A[w].query \in
                        Promise!JudgeAgainst(raw[A[w].cfg], Promise!TableAt(log, g))
                  THEN "allow" ELSE "deny"]
    <3>1. Promise!JudgeAgainst(raw[A[w].cfg], Promise!TableAt(log, g))
              = cache[c].judged
      BY <2>9, <2>10, <2>11, <2>12
    <3>2. a = IF A[w].query \in
                    Promise!JudgeAgainst(raw[A[w].cfg], Promise!TableAt(log, g))
              THEN "allow" ELSE "deny"
      BY <3>1, <2>10
    <3> HIDE DEF A, a
    <3> QED
      BY <2>6, <3>2
  <2> QED
    BY <2>1, <2>10, <2>13, <2>14 DEF Promise!Answer
<1>6. ASSUME NEW w \in Workers, Return(w) PROVE Promise!Return(w)
  <2>1. call[w] \in Call /\ call[w].verdict # "none" /\ UNCHANGED <<log, raw>>
        /\ call' = [call EXCEPT ![w] = Idle]
    BY <1>0, <1>6 DEF Return, At, IInv, AnswerWithinWindow
  <2>2. A[w] # Idle /\ A[w].verdict # "none"
    BY <2>1, SeenType
  <2>3. A' = [A EXCEPT ![w] = Idle]
    BY <1>0, <2>1
  <2> QED
    BY <2>1, <2>2, <2>3 DEF Promise!Return
<1>7. CASE UNCHANGED vars
  BY <1>7 DEF vars, Promise!vars
<1> QED
  BY <1>1, <1>2, <1>3, <1>4, <1>5, <1>6, <1>7 DEF Next, Step, Promise!Next

\* The cached, locked permits() implements the abstract promise, for every
\* value of the constants (config.rs 72-90, 203-249).
THEOREM Refinement == Spec => ImplementsEnforcement
<1> QED
  BY RefinesInit, RefinesNext, Invariance, UndecidedInvariant, PTL
     DEF Spec, ImplementsEnforcement, Promise!Spec

=============================================================================
