\* One grep pane with the grep of the system: searches of one and two groups,
\* called over each other and cancelled anywhere.
SPECIFICATION FairSpec
CONSTANTS
    Searches <- SomeSearches
    Buffer = 2
    MaxMatches = 2
    MaxChannel = 2
    MaxDepth = 2
    MaxAsked = 1
INVARIANTS TypeOK SearchHasWaiter ResultsAreComplete
PROPERTIES LeftBehindOnlyByNesting SearchEnds 
