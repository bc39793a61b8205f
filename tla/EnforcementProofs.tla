-------------------------- MODULE EnforcementProofs -------------------------
(***************************************************************************)
(* What the filters may rely on when they call permits(): what each of its *)
(* steps leaves as it was, and that it answers by one table of its window. *)
(***************************************************************************)
EXTENDS Enforcement, TLAPS

\* No call knows a generation that was not published when it read it.
CallsKnown ==
    \A w \in Workers :
        call[w] # Idle => /\ call[w].gen \in 0 .. Len(log)
                          /\ call[w].overlap \subseteq 0 .. Len(log)

EnforceInv ==
    /\ log \in Seq(Tables)
    /\ raw \in [Configs -> Rules \union {Unparsed}]
    /\ call \in [Workers -> Call \union {Idle}]
    /\ CallsKnown

\* Nothing published is taken back, no Config changes its rules.
Grows ==
    /\ Len(log) <= Len(log')
    /\ \A g \in 0 .. Len(log) : TableAt(log', g) = TableAt(log, g)
    /\ \A c \in Configs : raw[c] # Unparsed => raw'[c] = raw[c]

LEMMA EnforceInit == Init => EnforceInv
BY DEF Init, EnforceInv, CallsKnown

LEMMA LenLog == EnforceInv => Len(log) \in Nat
BY DEF EnforceInv

\* A table there is has a generation.
LEMMA PublishedThere ==
    ASSUME EnforceInv
    PROVE  /\ Published # NoTable <=> Len(log) # 0
           /\ Published # NoTable => Published \in Tables
           /\ \A g \in 0 .. Len(log) : g # 0 => TableAt(log, g) \in Tables
<1>1. Len(log) \in Nat /\ \A g \in 1 .. Len(log) : log[g] \in Tables
  BY DEF EnforceInv
<1>2. \A g \in 0 .. Len(log) : g # 0 => g \in 1 .. Len(log)
  BY <1>1
<1>3. Len(log) # 0 => Len(log) \in 1 .. Len(log)
  BY <1>1
<1> QED
  BY <1>1, <1>2, <1>3, TableAssumption DEF Published, TableAt

\* No table permits nothing: who allows has a generation.
LEMMA NoTableDenies ==
    ASSUME NEW r, NEW g, NEW history, NEW q, q \in JudgeAgainst(r, TableAt(history, g))
    PROVE  g # 0
BY DEF JudgeAgainst, TableAt, DenyAll

LEMMA NothingGrows ==
    ASSUME EnforceInv, log' = log, raw' = raw
    PROVE  Grows
<1>1. Len(log) \in Nat
  BY LenLog
<1> QED
  BY <1>1 DEF Grows, TableAt

LEMMA EnforceUnchanged ==
    ASSUME EnforceInv, UNCHANGED vars
    PROVE  EnforceInv' /\ Grows
BY NothingGrows DEF EnforceInv, CallsKnown, vars

LEMMA PublishKeeps ==
    ASSUME EnforceInv, NEW t \in Tables, Publish(t)
    PROVE  EnforceInv' /\ Grows /\ call' = call /\ raw' = raw
<1>1. Len(log) \in Nat
  BY LenLog
<1>2. /\ log' = Append(log, t) /\ raw' = raw /\ call' = call
      /\ log \in Seq(Tables)
  BY DEF Publish, EnforceInv
<1>3. /\ log' \in Seq(Tables) /\ Len(log') = Len(log) + 1
      /\ \A g \in 1 .. Len(log) : log'[g] = log[g]
  BY <1>1, <1>2
<1>4. \A g \in 0 .. Len(log) : g # 0 => g \in 1 .. Len(log)
  BY <1>1
<1>5. Grows
  BY <1>1, <1>2, <1>3, <1>4 DEF Grows, TableAt
<1>6. 0 .. Len(log) \subseteq 0 .. Len(log')
  BY <1>1, <1>3
<1>7. CallsKnown'
  BY <1>2, <1>6 DEF EnforceInv, CallsKnown
<1> QED
  BY <1>2, <1>3, <1>5, <1>7 DEF EnforceInv

LEMMA ParseKeeps ==
    ASSUME EnforceInv, NEW c \in Configs, NEW r \in Rules, Parse(c, r)
    PROVE  EnforceInv' /\ Grows /\ call' = call /\ log' = log
<1>1. Len(log) \in Nat
  BY LenLog
<1>2. /\ raw[c] = Unparsed /\ raw' = [raw EXCEPT ![c] = r] /\ log' = log /\ call' = call
      /\ raw \in [Configs -> Rules \union {Unparsed}]
  BY DEF Parse, EnforceInv
<1>3. Grows
  BY <1>1, <1>2 DEF Grows
<1> QED
  BY <1>2, <1>3 DEF EnforceInv, CallsKnown

LEMMA BeginKeeps ==
    ASSUME EnforceInv, NEW w \in Workers, NEW c \in Configs, NEW q \in Queries, Begin(w, c, q)
    PROVE  /\ EnforceInv' /\ Grows /\ log' = log /\ raw' = raw
           /\ \A v \in Workers : v # w => call'[v] = call[v]
           /\ call'[w] \in Call /\ call'[w].cfg = c /\ call'[w].query = q
           /\ call'[w].verdict = "none"
<1>1. Len(log) \in Nat
  BY LenLog
<1>2. PICK k : k = [cfg |-> c, query |-> q, gen |-> Len(log),
                    overlap |-> {call[v].gen : v \in InFlight(c)}, verdict |-> "none"]
  OBVIOUS
<1>3. call' = [call EXCEPT ![w] = k] /\ log' = log /\ raw' = raw
  BY <1>2 DEF Begin
<1>4. k.overlap \subseteq 0 .. Len(log) /\ k.gen \in 0 .. Len(log)
  BY <1>1, <1>2 DEF EnforceInv, CallsKnown, InFlight
<1>5. k \in Call
  BY <1>1, <1>2, <1>4 DEF Call
<1>6. /\ call \in [Workers -> Call \union {Idle}]
      /\ call' \in [Workers -> Call \union {Idle}]
      /\ call'[w] = k /\ \A v \in Workers : v # w => call'[v] = call[v]
  BY <1>3, <1>5 DEF EnforceInv
<1>7. CallsKnown'
  BY <1>3, <1>4, <1>6 DEF EnforceInv, CallsKnown
<1>8. EnforceInv' /\ Grows
  BY <1>3, <1>6, <1>7, NothingGrows DEF EnforceInv
<1>9. k.cfg = c /\ k.query = q /\ k.verdict = "none"
  BY <1>2
<1> QED
  BY <1>3, <1>5, <1>6, <1>8, <1>9

\* The answer is that of one table of the window.
LEMMA AnswerKeeps ==
    ASSUME EnforceInv, NEW w \in Workers, Answer(w)
    PROVE  /\ EnforceInv' /\ Grows /\ log' = log /\ raw' = raw
           /\ \A v \in Workers : v # w => call'[v] = call[v]
           /\ call'[w] \in Call /\ call'[w].cfg = call[w].cfg
           /\ call'[w].query = call[w].query
           /\ Window(call[w]) \subseteq 0 .. Len(log)
           /\ \E g \in Window(call[w]) :
                 call'[w].verdict =
                     IF call[w].query \in JudgeAgainst(raw[call[w].cfg], TableAt(log, g))
                     THEN "allow" ELSE "deny"
<1>1. Len(log) \in Nat
  BY LenLog
<1>2. call[w] \in Call /\ call[w].gen \in 0 .. Len(log)
      /\ call[w].overlap \subseteq 0 .. Len(log)
  BY DEF Answer, EnforceInv, CallsKnown
<1>3. PICK g \in Window(call[w]) :
          call' = [call EXCEPT ![w].verdict =
                      IF call[w].query \in
                            JudgeAgainst(raw[call[w].cfg], TableAt(log, g))
                      THEN "allow" ELSE "deny"]
  BY DEF Answer
<1>4. PICK a : a = IF call[w].query \in JudgeAgainst(raw[call[w].cfg], TableAt(log, g))
                   THEN "allow" ELSE "deny"
  OBVIOUS
<1>5. PICK k : k = [call[w] EXCEPT !.verdict = a]
  OBVIOUS
<1>6. a \in {"none", "allow", "deny"}
  BY <1>4
<1>7. /\ k \in Call /\ k.cfg = call[w].cfg /\ k.query = call[w].query /\ k.verdict = a
      /\ k.gen = call[w].gen /\ k.overlap = call[w].overlap
  BY <1>2, <1>5, <1>6 DEF Call
<1>8. log' = log /\ raw' = raw /\ call' = [call EXCEPT ![w] = k]
  BY <1>3, <1>4, <1>5 DEF Answer
<1>9. /\ call' \in [Workers -> Call \union {Idle}]
      /\ call'[w] = k /\ \A v \in Workers : v # w => call'[v] = call[v]
  BY <1>7, <1>8 DEF EnforceInv
<1>10. CallsKnown'
  BY <1>2, <1>7, <1>8, <1>9 DEF EnforceInv, CallsKnown
<1>11. EnforceInv' /\ Grows
  BY <1>8, <1>9, <1>10, NothingGrows DEF EnforceInv
<1>12. Window(call[w]) \subseteq 0 .. Len(log)
  BY <1>1, <1>2 DEF Window
<1> QED
  BY <1>3, <1>4, <1>7, <1>8, <1>9, <1>11, <1>12

LEMMA ReturnKeeps ==
    ASSUME EnforceInv, NEW w \in Workers, Return(w)
    PROVE  /\ EnforceInv' /\ Grows /\ log' = log /\ raw' = raw
           /\ \A v \in Workers : v # w => call'[v] = call[v]
           /\ call[w] \in Call /\ call[w].verdict # "none"
<1>1. call' = [call EXCEPT ![w] = Idle] /\ log' = log /\ raw' = raw
  BY DEF Return
<1>2. /\ call' \in [Workers -> Call \union {Idle}]
      /\ call'[w] = Idle /\ \A v \in Workers : v # w => call'[v] = call[v]
  BY <1>1 DEF EnforceInv
<1>3. CallsKnown'
  BY <1>1, <1>2 DEF EnforceInv, CallsKnown
<1>4. EnforceInv' /\ Grows
  BY <1>1, <1>2, <1>3, NothingGrows DEF EnforceInv
<1> QED
  BY <1>1, <1>2, <1>4 DEF Return, EnforceInv

=============================================================================
