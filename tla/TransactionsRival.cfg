SPECIFICATION Spec
CONSTANTS
    a = a
    b = b
    c = c
    f = f
    t1 = t1
    t2 = t2
    NoTx = NoTx
    NoOwner = NoOwner
    Objs = {a, b, c}
    Txs = {t1, t2}
    Inputs <- RivalInputs
    Outputs <- RivalOutputs
    Owners = {w1, w2}
    Passes = {p1}
    InitLive = {a, c}
    Foreign = {}
    Repeatable = {t1, t2}
    Stealable = {}
    Submittable = {t1}
    CalmFrom = 99
    MaxAge = 1
    MaxGround = 1
    MaxHead = 3
SYMMETRY OwnerSymmetry
CHECK_DEADLOCK FALSE
INVARIANTS OpenInputsDisjoint OutputsKept
PROPERTIES FilesMoveForward
