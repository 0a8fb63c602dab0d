SPECIFICATION Spec
CONSTANTS
    T1 = T1
    K1 = K1
    K2 = K2
    K3 = K3
CHECK_DEADLOCK FALSE
INVARIANTS ReplayAgrees LinesUp
PROPERTIES OneStatePerObject
