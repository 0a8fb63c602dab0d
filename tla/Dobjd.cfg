SPECIFICATION Spec
CONSTANTS
    t0 = t0
    t1 = t1
    t2 = t2
    v1 = v1
    w1 = w1
    w2 = w2
SYMMETRY Exchangeable
CHECK_DEADLOCK FALSE
INVARIANTS RunTruthful NeverSleepsOnOpen
