\* Three threads on two engines (threads 0 and 2 share engine 0), the dangling dest read as its own or another host.
CONSTANTS
    m1 = m1
    m2 = m2
    junk = junk
    Hosts = {m1, m2}
    HostOrder <- MCHostOrder
    NumPerHost = 2
    NumEngines = 2
    Trace <- MCTrace5
    IoThread = 3
    DestReads <- MCReadsNamedStale
    Garbage = junk
SPECIFICATION Spec
INVARIANTS TypeOK OneThreadPerRequest ReportAfterEveryReply
PROPERTIES ProgramCompletes
CHECK_DEADLOCK FALSE
