SPECIFICATION FairSpec
CONSTANTS
    p = p
    a = a
    b = b
    q1 = q1
    q2 = q2
    k1 = k1
    k2 = k2
    d1 = d1
    d2 = d2
    Requests = {q1}
    Staff = {p, a, b}
    NoStaff = nostaff
    NoRequest = norequest
    Slots = {k1, k2}
    Days = {d1, d2}
    RequesterOf <- OnePerson
    SlotsOf <- OneSlots
    ClassesOf <- OneSlots
    DaysOf <- OneDays
    CostOf <- OneCost
    InitialBalance = 3
    MaxFaults = 2
PROPERTIES
    OverdueResolved
    ApprovalTakesEffect
CHECK_DEADLOCK FALSE
