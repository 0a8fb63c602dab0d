SPECIFICATION Spec
CONSTANTS
    t1 = t1
    o1 = o1
    o2 = o2
    w1 = w1
    p1 = p1
    NoTx = NoTx
    NoOwner = NoOwner
CHECK_DEADLOCK FALSE
PROPERTIES RunsFinish AttemptedIsOffered OpenSettles
