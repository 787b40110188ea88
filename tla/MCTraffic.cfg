CONSTANTS
    collector = collector
    ann = ann
    n1 = n1
    b1 = b1
    b2 = b2
    b3 = b3
    e1 = e1
    e2 = e2
    e3 = e3
    e4 = e4
    r1 = r1
    r2 = r2
    Null = Null
    Users = {collector, ann}
    Nodes = {n1}
    Batches = {b1, b2, b3}
    Events = {e1, e2, e3, e4}
    Batch <- MCBatch
    Origin <- MCOrigin
    Sender <- MCSender
    Unfit = {e4}
    Requests = {r1, r2}
    MaxSends = 2
    MaxFaults = 1
SPECIFICATION FairSpec
INVARIANTS
    TypeOK
    NothingDangles
    BatchesAreWhole
PROPERTIES
    DoomIsPermanent
    SummaryKeepsCounting
    IngestsAtLeastOnce
    EveryBatchSettles
CHECK_DEADLOCK FALSE
