SPECIFICATION FairSpec
CONSTANTS
    Students = {r1}
    NPeriods = 2
    NSessions = 1
    FirstOf <- OneFirst
    LastOf <- OneLast
    SubjectOf <- OneSubject
    Loop = loop
    Pool = {w1}
    MaxRequests = 3
    MaxFaults = 1
PROPERTIES
    ExpiredGetsClosed
    ConcludedGetsRecorded
CHECK_DEADLOCK FALSE
