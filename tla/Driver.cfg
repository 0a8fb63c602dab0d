SPECIFICATION Spec
CONSTANTS
    c1 = c1
    r1 = r1
    b = b
    c = c
    t1 = t1
    t2 = t2
    w1 = w1
    p1 = p1
    NoTx = NoTx
    NoOwner = NoOwner
CHECK_DEADLOCK FALSE
INVARIANTS OneFilePerObject 
PROPERTIES FilesKeepObject
