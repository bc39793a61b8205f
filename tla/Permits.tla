------------------------------ MODULE Permits ------------------------------
(***************************************************************************)
(* The published identity table and the per-Config rules cache             *)
(* (src/config.rs): PUBLISHED, publish, published, Config, Config::permits *)
(*                                                                         *)
(* Every Envoy worker thread judges traffic through Config::permits.  The  *)
(* Config is shared by the workers (one Arc per filter config), its        *)
(* expansion is cached with the generation of the table it was expanded    *)
(* against, and the carrier publishes new tables from the main thread at   *)
(* any time.  One action per access to shared state, and one for the end   *)
(* of each guard of the cache: what a call holds while it asks for more is *)
(* part of its state.                                                      *)
(***************************************************************************)
EXTENDS Judging

CONSTANTS
    Workers,        \* Envoy worker threads
    Configs,        \* Config instances: one per filter config Envoy builds
    Idle,           \* the worker is not inside permits()
    Unparsed,       \* the Config does not exist yet
    NoWriter,       \* nobody holds the cache's write guard
    U64Max,         \* u64::MAX, the generation of a cache never filled
    MaxPublish      \* bound: tables published in a behaviour

ASSUME BoundAssumption ==
    /\ MaxPublish \in Nat
    /\ U64Max \in Nat
    /\ MaxPublish < U64Max
ASSUME NoWriterAssumption == NoWriter \notin Workers
ASSUME UnparsedAssumption == Unparsed \notin Rules

VARIABLES
    published,      \* PUBLISHED: generation and table, under one RwLock
    raw,            \* raw[c]: raw_allow and raw_scopes of Config c
    cache,          \* cache[c]: the generation and expansion Config c holds
    writer,         \* writer[c]: the worker holding cache[c]'s write guard
    readers,        \* readers[c]: the workers holding a read guard of cache[c]
    call,           \* call[w]: the locals of worker w's permits(), or Idle
    log             \* history: every table published; generation g is log[g]

guards == <<writer, readers>>
vars == <<published, raw, cache, guards, call, log>>

Generation == 0 .. MaxPublish

\* The locals of a permits() call.  overlap, used and verdict are history:
\* the generations read by the calls in flight when this one began, the
\* generation of the expansion that answered, and the answer.
Call == [pc : {"published", "expired", "current", "stale", "locked", "fresh",
               "answered"},
         cfg : Configs, query : Queries,
         gen : Generation, table : Tables \union {NoTable},
         overlap : SUBSET Generation,
         used : Generation \union {U64Max},
         verdict : {"none", "allow", "deny"}]

\* What the abstract specification sees of a call: no pc, no table.
Seen(k) ==
    IF k = Idle THEN Idle
    ELSE [cfg |-> k.cfg, query |-> k.query, gen |-> k.gen,
          overlap |-> k.overlap, verdict |-> k.verdict]

SeenCall == [cfg : Configs, query : Queries, gen : Generation,
             overlap : SUBSET Generation, verdict : {"none", "allow", "deny"}]

ASSUME IdleAssumption == Idle \notin Call /\ Idle \notin SeenCall

\* One type invariant for the module.
TypeOK ==
    /\ published \in [gen : Generation, table : Tables \union {NoTable}]
    /\ raw \in [Configs -> Rules \union {Unparsed}]
    /\ cache \in [Configs -> [gen : Generation \union {U64Max},
                              judged : SUBSET Queries]]
    /\ writer \in [Configs -> Workers \union {NoWriter}]
    /\ readers \in [Configs -> SUBSET Workers]
    /\ call \in [Workers -> Call \union {Idle}]
    /\ log \in Seq(Tables)

-----------------------------------------------------------------------------

InFlight(c) == {v \in Workers : call[v] # Idle /\ call[v].cfg = c}

At(w, pc) == call[w] # Idle /\ call[w].pc = pc

\* std's RwLock: any number of read guards, or one write guard.
TakeRead(w, c) == /\ writer[c] = NoWriter
                  /\ readers' = [readers EXCEPT ![c] = @ \union {w}]
DropRead(w, c) == readers' = [readers EXCEPT ![c] = @ \ {w}]
TakeWrite(w, c) == /\ writer[c] = NoWriter /\ readers[c] = {}
                   /\ writer' = [writer EXCEPT ![c] = w]
DropWrite(c) == writer' = [writer EXCEPT ![c] = NoWriter]

-----------------------------------------------------------------------------
(* Variants of the operations below, each with one plausible mistake.  They *)
(* are used only to show that the properties notice it.                    *)

\* The expansion stamped with the generation published by now, not the one
\* this call read with its table.
RebuildStampsLatest(w) ==
    LET c == call[w].cfg IN
    /\ At(w, "locked")
    /\ cache' = [cache EXCEPT ![c] =
                    [gen |-> published.gen,
                     judged |-> JudgeAgainst(raw[c], call[w].table)]]
    /\ DropWrite(c)
    /\ call' = [call EXCEPT ![w].pc = "fresh"]
    /\ UNCHANGED <<published, raw, readers, log>>

\* A check that only asks whether the cache was ever filled.
CheckGenerationOnce(w) ==
    LET c == call[w].cfg IN
    /\ At(w, "published")
    /\ TakeRead(w, c)
    /\ call' = [call EXCEPT ![w].pc =
                   IF cache[c].gen = U64Max THEN "expired" ELSE "current"]
    /\ UNCHANGED <<published, raw, cache, writer, log>>

\* The guard of the check kept to the end of the if, as `if let` would keep it.
EndCheckLate(w) ==
    LET c == call[w].cfg IN
    /\ \/ At(w, "expired") /\ call' = [call EXCEPT ![w].pc = "stale"]
          /\ UNCHANGED readers
       \/ At(w, "current") /\ call' = [call EXCEPT ![w].pc = "fresh"]
          /\ DropRead(w, c)
    /\ UNCHANGED <<published, raw, cache, writer, log>>

\* while in place of if: the generation is checked again after the rebuild.
RebuildAndRecheck(w) ==
    LET c == call[w].cfg IN
    /\ At(w, "locked")
    /\ cache' = [cache EXCEPT ![c] =
                    [gen |-> call[w].gen,
                     judged |-> JudgeAgainst(raw[c], call[w].table)]]
    /\ DropWrite(c)
    /\ call' = [call EXCEPT ![w].pc = "published"]
    /\ UNCHANGED <<published, raw, readers, log>>

\* The table replaced without moving the generation.
PublishInPlace(t) ==
    /\ Len(log) < MaxPublish
    /\ published' = [gen |-> 1, table |-> t]
    /\ log' = Append(log, t)
    /\ UNCHANGED <<raw, cache, guards, call>>

-----------------------------------------------------------------------------

\* A cache as parse leaves it: stale on arrival, so the first call expands.
StaleOnArrival == [gen |-> U64Max, judged |-> DenyAll]

Init ==
    /\ published = [gen |-> 0, table |-> NoTable]
    /\ raw = [c \in Configs |-> Unparsed]
    /\ cache = [c \in Configs |-> StaleOnArrival]
    /\ writer = [c \in Configs |-> NoWriter]
    /\ readers = [c \in Configs |-> {}]
    /\ call = [w \in Workers |-> Idle]
    /\ log = <<>>

\* publish: the generation and the table move together, under the write lock.
Publish(t) ==
    /\ published.gen < MaxPublish
    /\ published' = [gen |-> published.gen + 1, table |-> t]
    /\ log' = Append(log, t)
    /\ UNCHANGED <<raw, cache, guards, call>>

\* parse: a new Config, its cache never filled.
Parse(c, r) ==
    /\ raw[c] = Unparsed
    /\ raw' = [raw EXCEPT ![c] = r]
    /\ cache' = [cache EXCEPT ![c] = StaleOnArrival]
    /\ UNCHANGED <<published, guards, call, log>>

\* permits enters and takes (gen, table) from published(): one read guard.
Begin(w, c, q) ==
    /\ call[w] = Idle
    /\ raw[c] # Unparsed
    /\ call' = [call EXCEPT ![w] =
                   [pc |-> "published", cfg |-> c, query |-> q,
                    gen |-> published.gen, table |-> published.table,
                    overlap |-> {call[v].gen : v \in InFlight(c)},
                    used |-> U64Max, verdict |-> "none"]]
    /\ UNCHANGED <<published, raw, cache, guards, log>>

\* if self.cache.read().0 != gen: a read guard is taken for the condition ...
CheckGeneration(w) ==
    LET c == call[w].cfg IN
    /\ At(w, "published")
    /\ TakeRead(w, c)
    /\ call' = [call EXCEPT ![w].pc =
                   IF cache[c].gen # call[w].gen THEN "expired" ELSE "current"]
    /\ UNCHANGED <<published, raw, cache, writer, log>>

\* ... and dropped with it, before the block or what follows it.
EndCheck(w) ==
    LET c == call[w].cfg IN
    /\ \/ At(w, "expired") /\ call' = [call EXCEPT ![w].pc = "stale"]
       \/ At(w, "current") /\ call' = [call EXCEPT ![w].pc = "fresh"]
    /\ DropRead(w, c)
    /\ UNCHANGED <<published, raw, cache, writer, log>>

\* self.cache.write(): waits until no other guard is held.
LockCache(w) ==
    LET c == call[w].cfg IN
    /\ At(w, "stale")
    /\ TakeWrite(w, c)
    /\ call' = [call EXCEPT ![w].pc = "locked"]
    /\ UNCHANGED <<published, raw, cache, readers, log>>

\* Under the write guard: check again, expand against the table this call
\* read, stamp it with the generation this call read, drop the guard.
Rebuild(w) ==
    LET c == call[w].cfg IN
    /\ At(w, "locked")
    /\ cache' = IF cache[c].gen # call[w].gen
                THEN [cache EXCEPT ![c] =
                         [gen |-> call[w].gen,
                          judged |-> JudgeAgainst(raw[c], call[w].table)]]
                ELSE cache
    /\ DropWrite(c)
    /\ call' = [call EXCEPT ![w].pc = "fresh"]
    /\ UNCHANGED <<published, raw, readers, log>>

\* self.cache.read().1.permits(sni, addr): whatever the cache holds by now.
Judge(w) ==
    LET c == call[w].cfg IN
    /\ At(w, "fresh")
    /\ TakeRead(w, c)
    /\ call' = [call EXCEPT ![w] =
                   [@ EXCEPT !.pc = "answered", !.used = cache[c].gen,
                             !.verdict = IF call[w].query \in cache[c].judged
                                         THEN "allow" ELSE "deny"]]
    /\ UNCHANGED <<published, raw, cache, writer, log>>

\* The last guard is dropped and the answer is back in the filter; the worker is
\* free for its next call.
Return(w) ==
    /\ At(w, "answered")
    /\ DropRead(w, call[w].cfg)
    /\ call' = [call EXCEPT ![w] = Idle]
    /\ UNCHANGED <<published, raw, cache, writer, log>>

\* A worker inside permits() takes its next step.
Step(w) ==
    \/ CheckGeneration(w)
    \/ EndCheck(w)
    \/ LockCache(w)
    \/ Rebuild(w)
    \/ Judge(w)
    \/ Return(w)

Next ==
    \/ \E t \in Tables : Publish(t)
    \/ \E c \in Configs, r \in Rules : Parse(c, r)
    \/ \E w \in Workers, c \in Configs, q \in Queries : Begin(w, c, q)
    \/ \E w \in Workers : Step(w)

Spec == Init /\ [][Next]_vars

\* A worker thread that can run does run, and readers that come and go do not keep
\* a writer out for ever (std's RwLock lets no reader in past a waiting writer);
\* nothing makes a carrier publish or a client connect.
FairSpec == Spec /\ \A w \in Workers : WF_vars(Step(w)) /\ SF_vars(LockCache(w))

-----------------------------------------------------------------------------

\* What the rules of Config c permit against the table of generation g.
JudgedAt(c, g) == JudgeAgainst(raw[c], TableAt(log, g))

\* The generations whose table may answer the call k.
Window(k) == k.overlap \union k.gen .. published.gen

\* CACHE COHERENCE.  Whatever worker filled it, a cache holds exactly what its
\* rules expand to against the table that was published under the generation
\* it is stamped with -- never one table's rules under another's generation --
\* and a cache never filled denies everything (config.rs 207-224, 329).
CacheCoherent ==
    \A c \in Configs :
        cache[c].judged = IF cache[c].gen = U64Max
                          THEN DenyAll
                          ELSE JudgedAt(c, cache[c].gen)

\* BOUNDED STALENESS.  permits() answers as its rules expand against one
\* published table, and that table was current during the call or during a
\* call of the same Config that overlapped it (config.rs 207-224).
AnswerWithinWindow ==
    \A w \in Workers : At(w, "answered") =>
        LET k == call[w] IN
        /\ k.used \in Window(k)
        /\ k.verdict = IF k.query \in JudgedAt(k.cfg, k.used)
                       THEN "allow" ELSE "deny"

\* NO GUARD IS ASKED FOR WHILE ONE IS HELD.  A worker about to take a guard of a
\* cache, to compare, to rebuild or to answer, and a worker outside permits(), hold
\* none, on this Config or another: no call waits for itself, and no two for each
\* other (config.rs 209-223: the guard of the condition ends before write(), the
\* write guard with its block).
NeverWaitsHolding ==
    \A w \in Workers :
        call[w] = Idle \/ At(w, "published") \/ At(w, "stale") \/ At(w, "fresh") =>
            \A c \in Configs : w \notin readers[c] /\ writer[c] # w

\* The refinement mapping to the abstract promise: the cache, its lock and the
\* program counters disappear.
Promise == INSTANCE Enforcement WITH
    call <- [w \in Workers |-> Seen(call[w])]

\* REFINEMENT.  The cached, locked, double-checked permits() implements the
\* promise of Enforcement (config.rs 72-90, 203-249).
ImplementsEnforcement == Promise!Spec

\* NO DEADLOCK, NO STARVATION.  No call waits forever on a guard of the
\* cache, its own included: every permits() call returns (config.rs 207-224).
EveryCallReturns ==
    \A w \in Workers : (call[w] # Idle) ~> (call[w] = Idle)

\* CONVERGENCE.  Once carriers stop publishing, every later answer comes from
\* the last table, although a slow worker can put an older expansion back in
\* the cache (config.rs 204-206: "re-expanding when it moves").
Converges ==
    <>[](\A w \in Workers : At(w, "answered") => call[w].used = published.gen)

\* What config.rs 204-206 says of permits: "Deny by default, judged against the
\* PUBLISHED table, re-expanding when it moves."  An allow comes from a table at
\* least as new as the one this very call read.  ("never a stale allow" is said
\* there of failed expansions; none fails here.)
NeverStaleAllow ==
    \A w \in Workers :
        At(w, "answered") /\ call[w].verdict = "allow" =>
            \E g \in call[w].gen .. published.gen :
                call[w].query \in JudgedAt(call[w].cfg, g)

=============================================================================
