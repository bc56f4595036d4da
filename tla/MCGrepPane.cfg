SPECIFICATION FairSpec
CONSTANTS
    Pane = {p1}
    File = {f1, f2}
    f1 = f1
    f2 = f2
    Lists <- SmallLists
    Wide = {f1}
    Hits <- SmallHits
    MaxMatches = 2
    MaxDepth = 3
    MaxAsked = 1
    MaxStale = 2
    NoFile = nofile
INVARIANTS TypeOK SearchHasWaiter ButtonsComeBack CanBeCanceled ResultsAreComplete
PROPERTIES SearchEnds PaneComesBack
