--------------------------- MODULE MCWorkerLiveness ---------------------------
(***************************************************************************)
(* A small instance of WorkerLiveness: one message.                        *)
(***************************************************************************)
EXTENDS WorkerLiveness, TLC

CONSTANTS m1, p1, p2

OneBody == [e \in Entries |-> m1]
OneRow == [m \in Messages |-> <<p1>>]
TwoRows == [m \in Messages |-> <<p1, p2>>]
SeedZero == [p \in Paths |-> 0]
==============================================================================
