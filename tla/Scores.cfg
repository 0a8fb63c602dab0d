SPECIFICATION Spec
CONSTANTS
    f1 = f1
    f2 = f2
    p1 = p1
    p2 = p2
INVARIANTS TotalCurrent ScoresKept
PROPERTIES ScoresArrive
