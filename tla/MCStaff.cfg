SPECIFICATION SuiteSpec
CONSTANTS
  Unset = Unset
  None = None
  Current = Current
  Limit = 2
  Duration = 2
  Waiting = 1
  MaxRequests = 2
  Window = 3
  Users = {"u"}
  NoRow = None
  OtherStaff = {}
  SlotsAt <- HalfSlots
  HalfDay = TRUE
  RequireFnOut = FALSE
  HolidayFrom = 4
  LeaveBy = "service"
  Geofence = FALSE
  AdminSyncs = TRUE
  MaxScans = 1
  MaxCrashes = 0
  Owners = {"u"}
  Requests = {"r1", "r2"}
  Owner <- OwnerMC
  NoAccount = None
  Kinds = {"cl"}
  Days = {2}
  Targets = {0, 2}
  MonthOf <- Months
  MaxDate = 2
  MaxPoints = 1
  MaxRestarts = 0
  Tables = {"evening_attendance", "casual_leave"}
  Depts = {"CSE", "ECE"}
  Names = {"ann", "bob"}
  Roles = {"staff"}
  MaxNum = 1
  MaxCreated = 2
  MaxFails = 1
  MaxActing = 1
  Features = {"faces", "rename", "update", "crash"}
  Reader = {"t1"}
  TTL <- Lifetimes
  Slow = 1
  NoRead = None
  Empty = None
  Classes = {"A", "B"}
  Staff = {"ann", "bob"}
  Subjects = {"maths"}
  Rooms = {"r1"}
  Labs = {}
  NDays = 1
  NPeriods = 2
  Batches = {"ALL", "B1"}
  Hours = {1}
  Spans = {1, 2}
  Matrices <- MatricesMC
  Edits = {"save", "delete", "bulk", "auto", "alloc"}
  Interrupts = TRUE
  MaxOps = 3
  NoSlot = None
  Teachers = {"s1", "s2", "s3"}
  SClasses = {"c1", "c2"}
  LastPeriod = 2
  Weekdays = {"mon"}
  Today = "mon"
  Timetables <- MondayTables
  SubjectOf <- ClassNames
  Leads = {}
  DefaultLead = 2
  FirstStart = 2
  LessonTime = 2
  BreakAfter = 1
  BreakTime = 1
  DayEvents = {"accept", "revoke"}
  MaxNow = 0
  MaxEvents = 4
  NoOne = None
INVARIANTS
  ResetComing WindowLimit HalvesHonest BalanceBooks DeletedIsGone
  OthersHold NoDoubleBooking OneDay CachesFresh
PROPERTIES
  StepsSound
CHECK_DEADLOCK FALSE
