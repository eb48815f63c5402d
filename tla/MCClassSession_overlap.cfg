SPECIFICATION FairSpec
CONSTANTS
    Students = {r1}
    NPeriods = 2
    NSessions = 2
    FirstOf <- TwoFirst
    LastOf <- TwoLast
    SubjectOf <- TwoSubject
    Loop = loop
    Pool = {w1}
    MaxRequests = 4
    MaxFaults = 0
INVARIANT NoOverlappingOpen
CHECK_DEADLOCK FALSE
