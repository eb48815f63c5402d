SPECIFICATION Spec
CONSTANTS
    Students = {r1}
    NPeriods = 2
    NSessions = 2
    FirstOf <- TwoFirst
    LastOf <- TwoLast
    SubjectOf <- TwoSubject
    Loop = loop
    Pool = {w1, w2}
    MaxRequests = 3
    MaxFaults = 0
SYMMETRY Symmetry
INVARIANTS
    ExemptNeverQueued
PROPERTIES
    CheckinNeverReopens
CHECK_DEADLOCK FALSE
