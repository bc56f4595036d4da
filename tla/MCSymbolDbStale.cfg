SPECIFICATION Spec
CONSTANTS
    File = {f1}
    Class = {A}
    Name = {m, v, g}
    Content <- TwoContents
    MaxTime = 1
    None = none
    Hash = hash
    NoFile = nofile
    NoTime = notime
    A = A
    m = m
    v = v
    g = g
INVARIANTS NoStaleXref

