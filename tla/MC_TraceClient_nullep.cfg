\* The dangling dest read as no host name: PickEp returns nullptr.
CONSTANTS
    m1 = m1
    m2 = m2
    junk = junk
    Hosts = {m1, m2}
    HostOrder <- MCHostOrder
    NumPerHost = 2
    NumEngines = 1
    Trace <- MCTrace
    IoThread = 2
    DestReads <- MCReadsAll
    Garbage = junk
SPECIFICATION Spec
INVARIANT NoNullEndpoint
CHECK_DEADLOCK FALSE
