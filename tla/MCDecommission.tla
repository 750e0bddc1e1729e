--------------------------- MODULE MCDecommission ---------------------------
(* Instances of Decommission for TLC. *)
EXTENDS Decommission, TLC

CONSTANTS o1, o2, f1, f2, r1

\* One operation with a deadline, the same operation without one (the intent
\* keeps the first), and a rival operation.
MCRequests == {[op |-> o1, deadline |-> 1], [op |-> o1, deadline |-> 0],
               [op |-> o2, deadline |-> 0]}

Symm == Permutations({f1, f2})
=============================================================================
