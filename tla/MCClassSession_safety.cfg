SPECIFICATION Spec
CONSTANTS
    Students = {r1, r2}
    NPeriods = 2
    NSessions = 1
    FirstOf <- OneFirst
    LastOf <- OneLast
    SubjectOf <- OneSubject
    Loop = loop
    Pool = {w1}
    MaxRequests = 3
    MaxFaults = 1
SYMMETRY Symmetry
INVARIANTS
    TypeOK
    ClosedIsAccounted
CHECK_DEADLOCK FALSE
