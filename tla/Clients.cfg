SPECIFICATION Spec
CONSTANTS
    f1 = f1
    o1 = o1
    o2 = o2
    c1 = c1
    c2 = c2
    NoRun = NoRun
INVARIANTS FollowsRun  
PROPERTIES ClientsReturn
