SPECIFICATION Spec
CONSTANTS
    a = a
    b = b
    c = c
    f = f
    t1 = t1
    t2 = t2
    NoTx = NoTx
    NoOwner = NoOwner
    Objs = {b, f}
    Txs = {t1}
    Inputs <- OneInput
    Outputs <- OneOutput
    Owners = {w1}
    Passes = {p1}
    InitLive = {}
    Foreign = {f}
    Repeatable = {t1}
    Stealable = {f}
    Submittable = {t1}
    CalmFrom = 99
    MaxAge = 1
    MaxGround = 2
    MaxHead = 4
CHECK_DEADLOCK FALSE
INVARIANTS TerminalAgreesWithChain ChainBacksFiles
PROPERTIES AttemptsDurable 
