SPECIFICATION SuiteSpec
CONSTANTS
    i = i
    a2 = a2
    a3 = a3
    a4 = a4
    a5 = a5
    b3 = b3
    b5 = b5
    o1 = o1
    o2 = o2
    t1 = t1
    t2 = t2
    NoTx = NoTx
    NoBlock = NoBlock
    Unasked = Unasked
    Objs = {o1, o2}
    Txs = {t1, t2}
    Creates <- MCCreates
    Nullifies <- MCNullifies
    MaxAge = 2
    Blocks <- MCBlocks
    InitBlock = i
    Slot <- MCSlot
    Parent <- MCParent
    Bid = {a4, a5, b5}
    Full = {a4, a5}
    Number <- MCNumber
    Blobs <- MCBlobs
    InitSlot = 1
    MaxSlot = 5
    BatchSize = 2
    MaxReorgs = 2
    MaxFaults = 2
    FlakySlots = {2, 3, 4}
CHECK_DEADLOCK FALSE
INVARIANTS LogIsChain  RootsOnDisk ArchiveSound
PROPERTIES FollowsChain  ArchiveConverges
