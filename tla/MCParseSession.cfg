SPECIFICATION FairSpec
CONSTANTS
    File = {f1, f2}
    f1 = f1
    f2 = f2
    Jobs <- TwoBundles
    Pipe = {p1, p2}
    MaxStarts = 2
    NoPipe = nopipe
    NoFile = nofile
CHECK_DEADLOCK FALSE
INVARIANTS TypeOK OneImport ClosedWhileWritten TablesComeBack CrossPidIsXref  KilledByUser
PROPERTIES EveryUpdateReturns
