SPECIFICATION SuiteSpec
CONSTANTS
  None = None
  AtRest = AtRest
  All = All
  Scheduled <- DayPeriods
  NSessions = 2
  FirstOf <- FirstTwo
  LastOf <- LastTwo
  MaxOps = 2
  MaxTotal = 30
  Requests = {"q1"}
  Students = {"s1"}
  LeaveDays = {"d1", "d2", "d3"}
  NoRequest = None
  StudentOf <- WhoLeaves
  DaysOf <- LeaveDates
  TypeOf <- LeaveKind
  CalendarOf <- LeaveCalendar
  MaxFaults = 1
  Student = {"s1"}
  Thread = {"t1", "t2"}
  KioskSession = {"k1"}
  Versions = 1
  MaxScans = 2
  Faults = FALSE
  Staff = {"a", "b", "head"}
  Learners = {"s1"}
  Role <- StaffRoles
  StaffDept <- StaffOf
  StudentDept <- LearnerDept
  Grants = 1
  Switched = {"a"}
  NoOwner = None
  Pupils = {"s1"}
  Mentors = {"ann", "bob"}
  Batches = {"b1", "b2"}
  Semesters = {1, 2}
  Sections = {"A"}
  NoPupil = None
  NoMentor = "nobody"
  Indexed = TRUE
  Sheets <- Imported
  AdvFaults = {"stop", "deactivate"}
  MaxActs = 3
  MaxStops = 1
  Job = {"j1", "j2"}
  Does <- FaceJobs
  MaxFaces = 3
  MaxReqs = 3
  MayCrash = FALSE
  MayFail = TRUE
  NoHolder = None
INVARIANTS
  CountedOnce MarginHonest LeaveTraced KioskBooks  OneAdvisor
  FaceLocked FacesRight 
PROPERTIES
  HalfEarned StudentSteps
CHECK_DEADLOCK FALSE
