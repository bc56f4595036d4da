SPECIFICATION Spec
CONSTANTS
    Dbimp = {d1, d2}
    Sn = {h1}
    Foreign = {}
    MotherOf <- OneMother
    Inode = {i1, i2, i3}
    Host = host
    Port = port
    NoPid = pid0
    NoFile = nofile
    h1 = h1
    d1 = d1
    d2 = d2
    d3 = d3
INVARIANTS MutualExclusion
CHECK_DEADLOCK FALSE
