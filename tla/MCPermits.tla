----------------------------- MODULE MCPermits -----------------------------
(***************************************************************************)
(* Permits on a small instance: two tables, one Config with either of two  *)
(* rule lists, two callers asked about, so that a table change turns       *)
(* every answer around.                                                    *)
(***************************************************************************)
EXTENDS Permits, TLC

CONSTANTS t1, t2, r1, r2, q1, q2, w1, w2, w3, c1, c2

\* r1 admits q1 under one table and q2 under the other; r2 admits q2 under t1 and
\* nobody under t2.
MCExpand(r, t) ==
    CASE r = r1 /\ t = t1 -> {q1}
      [] r = r1 /\ t = t2 -> {q2}
      [] r = r2 /\ t = t1 -> {q2}
      [] OTHER -> {}

WorkerSymmetry == Permutations(Workers)

=============================================================================
