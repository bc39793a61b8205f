---------------------------- MODULE Enforcement ----------------------------
(***************************************************************************)
(* The promise of Config::permits, with no cache and no locks.             *)
(*                                                                         *)
(* Tables are published one after the other.  A call of permits is         *)
(* answered as the rules of its Config expand against ONE published table, *)
(* and that table is not arbitrarily old: it was current at some moment    *)
(* during this call, or when a call of the same Config began that was      *)
(* still running when this one began.                                      *)
(***************************************************************************)
EXTENDS Judging

CONSTANTS Workers, Configs, Idle, Unparsed

VARIABLES
    log,    \* the tables published so far; generation g is log[g]
    raw,    \* raw[c]: the rules of Config c, or Unparsed
    call    \* call[w]: the permits() call worker w is in, or Idle

vars == <<log, raw, call>>

\* A call: the Config and the query, the generation published when it began, the
\* generations read by the calls of the same Config in flight then, the answer.
Call == [cfg : Configs, query : Queries, gen : Nat, overlap : SUBSET Nat,
         verdict : {"none", "allow", "deny"}]

\* The table config::published() returns now.
Published == TableAt(log, Len(log))

InFlight(c) == {v \in Workers : call[v] # Idle /\ call[v].cfg = c}

Init ==
    /\ log = <<>>
    /\ raw = [c \in Configs |-> Unparsed]
    /\ call = [w \in Workers |-> Idle]

Publish(t) ==
    /\ log' = Append(log, t)
    /\ UNCHANGED <<raw, call>>

Parse(c, r) ==
    /\ raw[c] = Unparsed
    /\ raw' = [raw EXCEPT ![c] = r]
    /\ UNCHANGED <<log, call>>

Begin(w, c, q) ==
    /\ call[w] = Idle
    /\ raw[c] # Unparsed
    /\ call' = [call EXCEPT ![w] =
                   [cfg |-> c, query |-> q, gen |-> Len(log),
                    overlap |-> {call[v].gen : v \in InFlight(c)},
                    verdict |-> "none"]]
    /\ UNCHANGED <<log, raw>>

\* The generations whose table may answer the call k.
Window(k) == k.overlap \union k.gen .. Len(log)

Answer(w) ==
    /\ call[w] # Idle
    /\ call[w].verdict = "none"
    /\ \E g \in Window(call[w]) :
          call' = [call EXCEPT ![w].verdict =
                      IF call[w].query \in
                            JudgeAgainst(raw[call[w].cfg], TableAt(log, g))
                      THEN "allow" ELSE "deny"]
    /\ UNCHANGED <<log, raw>>

Return(w) ==
    /\ call[w] # Idle
    /\ call[w].verdict # "none"
    /\ call' = [call EXCEPT ![w] = Idle]
    /\ UNCHANGED <<log, raw>>

Next ==
    \/ \E t \in Tables : Publish(t)
    \/ \E c \in Configs, r \in Rules : Parse(c, r)
    \/ \E w \in Workers :
          \/ \E c \in Configs, q \in Queries : Begin(w, c, q)
          \/ Answer(w)
          \/ Return(w)

Spec == Init /\ [][Next]_vars

=============================================================================
