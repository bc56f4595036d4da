SPECIFICATION Spec
CONSTANTS
    File = {f1}
    Class = {A}
    Name = {m, v, g}
    Content <- AllContents
    MaxTime = 2
    None = none
    Hash = hash
    NoFile = nofile
    NoTime = notime
    A = A
    m = m
    v = v
    g = g
INVARIANTS TypeOK MirrorBy EverySymbolListed RecordsOfLastParse XrefsOfLastParse UpToDate OnlyLostGoStale

