SPECIFICATION FairSpec
CONSTANTS
    Students = {r1}
    NPeriods = 2
    NSessions = 1
    FirstOf <- OneFirst
    LastOf <- OneLast
    SubjectOf <- OneSubject
    Loop = loop
    Pool = {w1}
    MaxRequests = 2
    MaxFaults = 0
PROPERTY OnlyNoShowsMarkedAbsent
CHECK_DEADLOCK FALSE
