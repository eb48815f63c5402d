SPECIFICATION Spec
CONSTANTS
    p = p
    a = a
    b = b
    q1 = q1
    q2 = q2
    k1 = k1
    k2 = k2
    d1 = d1
    d2 = d2
    Requests = {q1, q2}
    Staff = {p, a}
    NoStaff = nostaff
    NoRequest = norequest
    Slots = {k1}
    Days = {d1}
    RequesterOf <- TwoPerson
    SlotsOf <- TwoSlots
    ClassesOf <- TwoClasses
    DaysOf <- TwoDays
    CostOf <- TwoCost
    InitialBalance = 4
    MaxFaults = 1
INVARIANTS
    MarkedIsApproved
    NeverOvercharged
CHECK_DEADLOCK FALSE
