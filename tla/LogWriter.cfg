CONSTANTS
    short = short
    exact = exact
    long = long
    Records = {short, exact, long}
    Size <- ThreeSizes
    QueueSize = 1
    BufferSize = 2
    FileFails = TRUE
SPECIFICATION FairSpec
INVARIANT TypeOK
PROPERTIES ImplementsLogStream CallsReturn RecordsReachFile
CHECK_DEADLOCK FALSE
