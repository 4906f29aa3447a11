------------------------------- MODULE MCWorker -------------------------------
(***************************************************************************)
(* Small instances of Worker.                                              *)
(***************************************************************************)
EXTENDS WorkerInvariant, WorkerEffect, TLC

CONSTANTS w1, w2, e1, e2, e3, e4, m1, m2, m3, p1, p2

TwoWorkers == {w1, w2}
WorkerSymmetry == Permutations(TwoWorkers)
SeedZero == [p \in Paths |-> 0]

\* One message, redelivered whenever its lock expires.
OneBody == [e \in Entries |-> m1]
OneRow == [m \in Messages |-> <<p1>>]
TwoRows == [m \in Messages |-> <<p1, p2>>]

\* A message enqueued twice, one whose batch overlaps it, and one that the
\* message contract refuses.
MixedBody == (e1 :> m1) @@ (e2 :> m1) @@ (e3 :> m2) @@ (e4 :> m3)
MixedRows == (m1 :> <<p1, p2>>) @@ (m2 :> <<p2>>) @@ (m3 :> <<p1>>)
DuplicateSymmetry == Permutations({e1, e2})
==============================================================================
