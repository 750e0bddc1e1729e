------------------------- MODULE MCForwardLifecycle -------------------------
EXTENDS ForwardLifecycle, TLC
CONSTANTS f1, f2, a1, a2, t1, t2, t3, d1, d2, m1, m2

P(f, r, t, m) == [f |-> f, present |-> TRUE, rev |-> r, target |-> t, shape |-> m, op |-> None]
D(f, r, o) == [f |-> f, present |-> FALSE, rev |-> r, target |-> t1, shape |-> m1, op |-> o]

SnapLife == {{P(f1, 1, t1, m1)}, {P(f1, 2, t2, m1)}, {D(f1, 3, d1)}}
SnapRival == {{P(f1, 1, t1, m1)}, {P(f1, 3, t3, m2)}, {D(f1, 2, d1)}, {D(f1, 3, d2)}}
Sym == Permutations(Actors)
=============================================================================
