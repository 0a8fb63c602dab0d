SPECIFICATION OutputsSpec
CONSTANTS
    T1 = T1
    K1 = K1
    K2 = K2
    K3 = K3
CHECK_DEADLOCK FALSE
INVARIANT OutputsInOrder
