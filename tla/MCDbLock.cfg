SPECIFICATION FairSpec
CONSTANTS
    Dbimp = {d1, d2}
    Sn = {h1}
    Foreign = {f1}
    MotherOf <- OneMother
    Inode = {i1, i2}
    Host = host
    Port = port
    NoPid = pid0
    NoFile = nofile
    h1 = h1
    d1 = d1
    d2 = d2
    d3 = d3
INVARIANTS TypeOK NoOrphanLock
PROPERTIES EveryContenderSettles
CHECK_DEADLOCK FALSE
