---------------------------------- MODULE MCStaff -----------------------------------
(***************************************************************************)
(* The components of the staff side and of the campus in one run. They     *)
(* share no variable, so a behaviour is one component's alone: its initial *)
(* state chooses which, part says it, and s1, s2, ... hold the variables   *)
(* of that component. VerificationGuard, RateLimiter, DailyAttendance,     *)
(* LeaveBalance, Accounts, TimedCache, Timetable and StaffSchedule keep    *)
(* their own names, and their initial values while another component runs; *)
(* further settings of them are instances.                                 *)
(***************************************************************************)
EXTENDS VerificationGuard, RateLimiter, DailyAttendance, LeaveBalance, Accounts,
        TimedCache, Timetable, StaffSchedule

VARIABLES part,  \* the component this behaviour is about
          s1, s2, s3, s4, s5, s6, s7, s8, s9, s10, s11, s12, s13, s14, s15,
          s16 \* its variables

\* The enabled attendance slots in each phase of a date.
Slot(t, h) == [type |-> t, half |-> h]
In1 == Slot("check_in", "first")   Out1 == Slot("check_out", "first")
In2 == Slot("check_in", "second")  Out2 == Slot("check_out", "second")
InD == Slot("check_in", "day")     OutD == Slot("check_out", "day")
HalfSlots == [p \in 0 .. 3 |-> CASE p = 0 -> {In1, Out1}
                               [] p = 1 -> {In1, Out1, In2}
                               [] p = 2 -> {In2, Out2}
                               [] OTHER -> {}]
InSlots   == [p \in 0 .. 3 |-> {s \in HalfSlots[p] : s.type = "check_in"}]
DaySlots  == [p \in 0 .. 3 |-> CASE p = 0 -> {InD}
                               [] p = 1 -> {InD, OutD}
                               [] p = 2 -> {OutD}
                               [] OTHER -> {}]

\* LeaveBalance: two requests for casual leave of one person, a month's end
\* between the two dates.
OwnerMC == [r \in {"r1", "r2"} |-> "u"]
Months  == <<1, 2>>

\* The matrices of a bulk save.
Lesson(t) == [staff |-> t, subject |-> "maths", room |-> "r1"]
MatricesMC == {[x \in {<<1, 1, "ALL">>, <<1, 2, "ALL">>} |-> Lesson("ann")],
               [x \in {<<1, 1, "ALL">>} |-> Lesson("bob")]}

\* The timetables of two periods in which nobody teaches two classes at a time,
\* and, unless it is allowed, no class has a subject twice on a day.
TablesMC(weekdays, classes, twice) ==
  {f \in [weekdays \X (1 .. 2) \X classes -> {"s1", "s2", None}] :
     /\ \A d \in weekdays, p \in 1 .. 2 : \A c, e \in classes :
          c # e /\ f[<<d, p, c>>] = f[<<d, p, e>>] => f[<<d, p, c>>] = None
     /\ twice \/ \A d \in weekdays, c \in classes :
          f[<<d, 1, c>>] = f[<<d, 2, c>>] => f[<<d, 1, c>>] = None}

\* Two classes on a date of its own weekday, with leave accepted and revoked.
MondayTables == TablesMC({"mon"}, {"c1", "c2"}, TRUE)
ClassNames   == [c \in {"c1", "c2"} |-> c]

\* The caches with a time to live, in ticks.
Lifetimes == [c \in {"prefs", "periods", "cohort"} |-> IF c = "periods" THEN 3 ELSE 2]

\* Attendance slots and windows in minutes of a short day, some of them refused.
TimedSlot(type, half, from, len) == [type |-> type, half |-> half, from |-> from, len |-> len]
SlotListsMC ==
  {<<TimedSlot("check_in", "first", 2, 2), TimedSlot("check_out", "first", 4, 2),
     TimedSlot("check_in", "second", 6, 2), TimedSlot("check_out", "second", 8, 2)>>,
   <<TimedSlot("check_in", "day", 1, 2), TimedSlot("check_out", "day", 8, 2)>>,
   <<TimedSlot("check_in", "first", 2, 2), TimedSlot("check_out", "first", 3, 2)>>,
   <<TimedSlot("check_in", "first", 2, 1), TimedSlot("check_in", "second", 5, 2)>>,
   <<TimedSlot("check_out", "day", 4, 1), TimedSlot("check_in", "day", 6, 1)>>,
   <<TimedSlot("check_in", "day", 3, 1), TimedSlot("check_out", "first", 3, 2)>>}
BoundsMC(a, b, c, d) == [firstFrom |-> a, firstTo |-> b, secondFrom |-> c, secondTo |-> d]
ExtraMC(ins, n) == [check_in |-> ins, check_out |-> TRUE, first |-> n, second |-> n, day |-> n]
WindowMC(e, a, b, l, c, d) ==
  [early |-> e, earlyFrom |-> a, earlyTo |-> b, late |-> l, lateFrom |-> c, lateTo |-> d]
CclMC == {WindowMC(TRUE, 0, 2, FALSE, 10, 11), WindowMC(TRUE, 1, 3, TRUE, 9, 11),
          WindowMC(FALSE, 3, 3, FALSE, 4, 5)}

\* The configurations of the periods of a day.
Usual == [start |-> 525, dur |-> 50, breaks |-> << <<2, 15>> >>]
ConfigsMC == {Usual, [start |-> 480, dur |-> 50, breaks |-> << <<1, 15>>, <<2, 45>> >>],
              [start |-> 525, dur |-> 75, breaks |-> << <<1, 15>> >>]}
TwoConfigsMC == {k \in ConfigsMC : k.dur = 50}

-----------------------------------------------------------------------------
\* Half days: the absence marker and a restart.
Absences == INSTANCE DailyAttendance WITH
  Users <- {"u"}, NoRow <- None, OtherStaff <- {}, SlotsAt <- HalfSlots,
  HalfDay <- TRUE, RequireFnOut <- TRUE, HolidayFrom <- 4,
  LeaveBy <- "nobody", Geofence <- FALSE, AdminSyncs <- FALSE, MaxScans <- 1,
  MaxCrashes <- 1, phase <- s1, row <- s2, morning <- s3, evening <- s4,
  scans <- s5, job <- s6, loop <- s7, marked <- s8, crashes <- s9,
  granted <- s10, fenced <- s11

\* Full days, a holiday declared at noon and leave of an administrator.
WholeDay == INSTANCE DailyAttendance WITH
  Users <- {"u"}, NoRow <- None, OtherStaff <- {}, SlotsAt <- DaySlots,
  HalfDay <- FALSE, RequireFnOut <- TRUE, HolidayFrom <- 2,
  LeaveBy <- "admin", Geofence <- FALSE, AdminSyncs <- FALSE, MaxScans <- 2,
  MaxCrashes <- 0, phase <- s1, row <- s2, morning <- s3, evening <- s4,
  scans <- s5, job <- s6, loop <- s7, marked <- s8, crashes <- s9,
  granted <- s10, fenced <- s11

\* The same for a member of the other staff, whom the geofence may mark absent; no holiday.
OtherDay == INSTANCE DailyAttendance WITH
  Users <- {"u"}, NoRow <- None, OtherStaff <- {"u"}, SlotsAt <- DaySlots,
  HalfDay <- FALSE, RequireFnOut <- TRUE, HolidayFrom <- 4,
  LeaveBy <- "service", Geofence <- TRUE, AdminSyncs <- FALSE, MaxScans <- 1,
  MaxCrashes <- 1, phase <- s1, row <- s2, morning <- s3, evening <- s4,
  scans <- s5, job <- s6, loop <- s7, marked <- s8, crashes <- s9,
  granted <- s10, fenced <- s11

\* Half days and two disputes, decided again and again.
Disputes == INSTANCE Correction WITH
  Users <- {"u"}, NoRow <- None, OtherStaff <- {}, SlotsAt <- InSlots,
  HalfDay <- TRUE, RequireFnOut <- FALSE, HolidayFrom <- 4,
  LeaveBy <- "nobody", Geofence <- FALSE, AdminSyncs <- FALSE, MaxScans <- 1,
  MaxCrashes <- 0, Wanted <- {"Present"}, MaxAsked <- 2, phase <- s1,
  row <- s2, morning <- s3, evening <- s4, scans <- s5, job <- s6, loop <- s7,
  marked <- s8, crashes <- s9, granted <- s10, fenced <- s11, asked <- s12

\* One request for earned leave, points by scans, and a restart.
Earned == INSTANCE LeaveBalance WITH
  Owners <- {"u"}, Requests <- {"r1"}, Owner <- [r \in {"r1"} |-> "u"],
  NoAccount <- None, Kinds <- {"el"}, Days <- {2}, Targets <- {0, 2},
  MonthOf <- <<1>>, MaxDate <- 1, MaxPoints <- 1, MaxRestarts <- 1,
  date <- s1, cl <- s2, el <- s3, hist <- s4, histDates <- s5, credits <- s6,
  req <- s7, expiry <- s8, expired <- s9, zeroed <- s10, charged <- s11,
  spent <- s12, scan <- s13, handler <- s14, restarts <- s15

\* A member of staff walks out; no reports are kept.
Outing == INSTANCE CampusTracking WITH
  Kind <- "staff", DayLen <- 8, Start <- 1, Stop <- 6, Grace <- 2, End <- 7,
  MaxQueue <- 2, MaxAlerts <- 3, Places <- {"campus", "away"},
  Extras <- {"checkout", "force", "fail"}, NoTime <- None, Missing <- None,
  clock <- s1, place <- s2, since <- s3, overdue <- s4, att <- s5, out <- s6,
  status <- s7, permit <- s8, od <- s9, latest <- s10, newest <- s11,
  alerts <- s12, torn <- s13, on <- s14, queue <- s15, reported <- s16

\* A student whose phone is offline at times.
Pupil == INSTANCE CampusTracking WITH
  Kind <- "student", DayLen <- 6, Start <- 1, Stop <- 5, Grace <- 2, End <- 4,
  MaxQueue <- 1, MaxAlerts <- 2, Places <- {"campus", "fringe", "away"},
  Extras <- {"permit", "ack", "offline"}, NoTime <- None, Missing <- None,
  clock <- s1, place <- s2, since <- s3, overdue <- s4, att <- s5, out <- s6,
  status <- s7, permit <- s8, od <- s9, latest <- s10, newest <- s11,
  alerts <- s12, torn <- s13, on <- s14, queue <- s15, reported <- s16

\* Generated timetables.
Auto == INSTANCE Timetable WITH
  Classes <- {"A", "B"}, Staff <- {"ann", "bob"},
  Subjects <- {"maths", "lab"}, Rooms <- {"r1"}, Labs <- {"lab"}, NDays <- 2,
  NPeriods <- 3, Batches <- {"ALL"}, Hours <- {1, 3}, Spans <- {1},
  Matrices <- {}, Edits <- {"alloc", "auto"}, Interrupts <- FALSE,
  MaxOps <- 4, NoSlot <- None, slots <- s1, allocs <- s2, curriculum <- s3,
  done <- s4, ops <- s5

\* Lessons, their rooms and relocations on two dates.
RoomPlan == INSTANCE Venues WITH
  Classes <- {"A", "B"}, Staff <- {"ann", "bob"}, Subjects <- {"maths"},
  Rooms <- {"r1", "r2"}, Labs <- {}, NDays <- 1, NPeriods <- 1,
  Batches <- {"ALL"}, Hours <- {1}, Spans <- {1}, Matrices <- {},
  Edits <- {"save", "delete"}, Interrupts <- FALSE, MaxOps <- 2,
  NoSlot <- None, Halls <- {"r1", "r2"}, Codes <- {"LH"},
  Aliases <- {{"LH", "LECTURE_HALL"}}, Entered <- {"AVAILABLE"},
  FacFeatures <- {"register"}, MaxFac <- 2, NoHall <- None, NoCat <- None,
  NDates <- 2, WeekdayOf <- <<1, 1>>, MaxMoves <- 2, NoRoom <- None,
  slots <- s1, allocs <- s2, curriculum <- s3, done <- s4, ops <- s5,
  halls <- s6, cats <- s7, fdone <- s8, fops <- s9, moved <- s10, moves <- s11

\* Two accounts of one department at a time.
TwoPeople == INSTANCE Accounts WITH
  Tables <- {"casual_leave"}, Depts <- {"CSE"}, Names <- {"ann", "bob"},
  Roles <- {"staff"}, MaxNum <- 2, MaxCreated <- 3, MaxFails <- 1,
  MaxActing <- 1, Features <- {"faces"}, accounts <- s1, data <- s2,
  depts <- s3, faces <- s4, listed <- s5, acting <- s6, left <- s7,
  created <- s8

\* Halls and their categories.
HallList == INSTANCE Facilities WITH
  Halls <- {"h1", "h2"}, Codes <- {"LH", "LECTURE_HALL", "ROBOTICS"},
  Aliases <- {{"LH", "LECTURE_HALL"}}, Entered <- {"AVAILABLE"},
  FacFeatures <- {"register", "update", "status", "deactivate", "create", "rename", "delete", "reset"},
  MaxFac <- 3, NoHall <- None, NoCat <- None, halls <- s1, cats <- s2,
  fdone <- s3, fops <- s4

\* Leave is accepted and revoked, and the date follows another weekday.
Story == INSTANCE StaffSchedule WITH
  Teachers <- {"s1", "s2", "s3"}, SClasses <- {"c1"}, LastPeriod <- 2,
  Weekdays <- {"mon", "sat"}, Today <- "mon",
  Timetables <- TablesMC({"mon", "sat"}, {"c1"}, TRUE),
  SubjectOf <- [c \in {"c1"} |-> c], Leads <- {}, DefaultLead <- 2,
  FirstStart <- 2, LessonTime <- 2, BreakAfter <- 1, BreakTime <- 1,
  DayEvents <- {"accept", "revoke", "override", "edit"}, MaxNow <- 0,
  MaxEvents <- 3, NoOne <- None, table <- s1, follows <- s2, leave <- s3,
  cover <- s4, lead <- s5, now <- s6, sent <- s7, act <- s8, sOps <- s9

\* Reminders with chosen lead times.
LeadTimes == INSTANCE StaffSchedule WITH
  Teachers <- {"s1", "s2"}, SClasses <- {"c1"}, LastPeriod <- 2,
  Weekdays <- {"mon"}, Today <- "mon",
  Timetables <- TablesMC({"mon"}, {"c1"}, FALSE),
  SubjectOf <- [c \in {"c1"} |-> c], Leads <- {1, 3}, DefaultLead <- 2,
  FirstStart <- 2, LessonTime <- 2, BreakAfter <- 1, BreakTime <- 1,
  DayEvents <- {"prefs", "dispatch", "override"}, MaxNow <- 7, MaxEvents <- 2,
  NoOne <- None, table <- s1, follows <- s2, leave <- s3, cover <- s4,
  lead <- s5, now <- s6, sent <- s7, act <- s8, sOps <- s9

\* When staff may mark: three changes, refused or cut short anywhere.
Gates == INSTANCE AttendanceWindows WITH
  SlotLists <- SlotListsMC,
  Boundaries <- {BoundsMC(1, 5, 5, 10), BoundsMC(2, 6, 5, 10)},
  Extras <- {ExtraMC(TRUE, 3), ExtraMC(FALSE, 0)}, CclWindows <- CclMC,
  Dates <- {"d1", "d2"}, NoWindows <- None,
  FirstBounds <- BoundsMC(2, 6, 6, 10), FirstExtra <- ExtraMC(TRUE, 1),
  FirstCcl <- WindowMC(FALSE, 0, 2, FALSE, 9, 11), MaxDuration <- 2,
  MaxExtra <- 2, MaxMinute <- 11, MaxChanges <- 3, slots <- s1, bounds <- s2,
  extra <- s3, halfDay <- s4, ccl <- s5, custom <- s6, changes <- s7

\* Configurations of every level, for two sections.
Levels == INSTANCE PeriodConfig WITH
  Depts <- {"CSE"}, HomeDept <- "CSE", PBatches <- {"b1"}, Sems <- {3},
  Secs <- {"A", "B"}, Types <- {"all", "odd"}, Configs <- TwoConfigsMC,
  Seeded <- [d \in {"CSE"} |-> {Usual}], Standard <- Usual, PcPeriods <- 3,
  Grace <- 10, Scopes <- {"dept", "batch", "semester", "class"},
  Features <- {"save"}, MaxSaves <- 3, NoConfig <- None, pcRows <- s1,
  windows <- s2, last <- s3, saves <- s4

\* Configurations of the department only, and cached windows.
OneLevel == INSTANCE PeriodConfig WITH
  Depts <- {"CSE"}, HomeDept <- "CSE", PBatches <- {"b1"}, Sems <- {3},
  Secs <- {"A", "B"}, Types <- {"all"}, Configs <- ConfigsMC,
  Seeded <- [d \in {"CSE"} |-> {Usual}], Standard <- Usual, PcPeriods <- 3,
  Grace <- 10, Scopes <- {"dept"}, Features <- {"save", "reset", "window"},
  MaxSaves <- 12, NoConfig <- None, pcRows <- s1, windows <- s2, last <- s3,
  saves <- s4

\* Two threads and a pool for one; the server goes down once.
Connections == INSTANCE ConnectionPool WITH
  Worker <- {"t1", "t2"}, MinConn <- 1, MaxConn <- 1,
  PoolFaults <- {"refused"}, MaxOutages <- 1, pool <- s1, open <- s2,
  alive <- s3, local <- s4, direct <- s5, pc <- s6, goal <- s7, try <- s8,
  ran <- s9, rows <- s10, poolLock <- s11, up <- s12, outages <- s13

\* The least recently used cache.
Recent == INSTANCE LRUCache WITH
  Key <- {"k1", "k2", "k3"}, MaxSize <- 2, Lifetime <- 1, Now <- 4,
  Persists <- FALSE, Expires <- TRUE, order <- s1, times <- s2, disk <- s3,
  now <- s4, used <- s5

-----------------------------------------------------------------------------
\* The variables a component leaves unused.
After0 == <<s1, s2, s3, s4, s5, s6, s7, s8, s9, s10, s11, s12, s13, s14, s15, s16>>
After4 == <<s5, s6, s7, s8, s9, s10, s11, s12, s13, s14, s15, s16>>
After5 == <<s6, s7, s8, s9, s10, s11, s12, s13, s14, s15, s16>>
After7 == <<s8, s9, s10, s11, s12, s13, s14, s15, s16>>
After8 == <<s9, s10, s11, s12, s13, s14, s15, s16>>
After9 == <<s10, s11, s12, s13, s14, s15, s16>>
After11 == <<s12, s13, s14, s15, s16>>
After12 == <<s13, s14, s15, s16>>
After13 == <<s14, s15, s16>>
After15 == <<s16>>

Idle0 == /\ s1 = 0 /\ s2 = 0 /\ s3 = 0 /\ s4 = 0 /\ s5 = 0 /\ s6 = 0
         /\ s7 = 0 /\ s8 = 0 /\ s9 = 0 /\ s10 = 0 /\ s11 = 0 /\ s12 = 0
         /\ s13 = 0 /\ s14 = 0 /\ s15 = 0 /\ s16 = 0
Idle4 == /\ s5 = 0 /\ s6 = 0 /\ s7 = 0 /\ s8 = 0 /\ s9 = 0 /\ s10 = 0
         /\ s11 = 0 /\ s12 = 0 /\ s13 = 0 /\ s14 = 0 /\ s15 = 0 /\ s16 = 0
Idle5 == /\ s6 = 0 /\ s7 = 0 /\ s8 = 0 /\ s9 = 0 /\ s10 = 0 /\ s11 = 0
         /\ s12 = 0 /\ s13 = 0 /\ s14 = 0 /\ s15 = 0 /\ s16 = 0
Idle7 == /\ s8 = 0 /\ s9 = 0 /\ s10 = 0 /\ s11 = 0 /\ s12 = 0 /\ s13 = 0
         /\ s14 = 0 /\ s15 = 0 /\ s16 = 0
Idle8 == /\ s9 = 0 /\ s10 = 0 /\ s11 = 0 /\ s12 = 0 /\ s13 = 0 /\ s14 = 0
         /\ s15 = 0 /\ s16 = 0
Idle9 == /\ s10 = 0 /\ s11 = 0 /\ s12 = 0 /\ s13 = 0 /\ s14 = 0 /\ s15 = 0
         /\ s16 = 0
Idle11 == /\ s12 = 0 /\ s13 = 0 /\ s14 = 0 /\ s15 = 0 /\ s16 = 0
Idle12 == /\ s13 = 0 /\ s14 = 0 /\ s15 = 0 /\ s16 = 0
Idle13 == /\ s14 = 0 /\ s15 = 0 /\ s16 = 0
Idle15 == /\ s16 = 0

\* The variables of the components that keep their own names.
ownVars == <<vars, limiterVars, dayVars, balanceVars, accVars, timedVars,
             ttVars, schVars>>

SuiteInit ==
  /\ Init
  /\ LimiterInit
  /\ DayInit
  /\ BalanceInit
  /\ AccInit
  /\ TimedInit
  /\ TtInit
  /\ SchInit
  /\ \/ /\ part = "guard" /\ Idle0
     \/ /\ part = "limiter" /\ Idle0
     \/ /\ part = "halves" /\ Idle0
     \/ /\ part = "casual leave" /\ Idle0
     \/ /\ part = "accounts" /\ Idle0
     \/ /\ part = "timed" /\ Idle0
     \/ /\ part = "timetable" /\ Idle0
     \/ /\ part = "substitutes" /\ Idle0
     \/ /\ part = "absences" /\ Absences!DayInit /\ Idle11
     \/ /\ part = "whole day" /\ WholeDay!DayInit /\ Idle11
     \/ /\ part = "other staff" /\ OtherDay!DayInit /\ Idle11
     \/ /\ part = "disputes" /\ Disputes!CorInit /\ Idle12
     \/ /\ part = "earned leave" /\ Earned!BalanceInit /\ Idle15
     \/ /\ part = "outing" /\ Outing!Init
     \/ /\ part = "pupil" /\ Pupil!Init
     \/ /\ part = "generated" /\ Auto!TtInit /\ Idle5
     \/ /\ part = "rooms" /\ RoomPlan!Init /\ Idle11
     \/ /\ part = "two people" /\ TwoPeople!AccInit /\ Idle8
     \/ /\ part = "halls" /\ HallList!FacInit /\ Idle4
     \/ /\ part = "lessons" /\ Story!SchInit /\ Idle9
     \/ /\ part = "reminders" /\ LeadTimes!SchInit /\ Idle9
     \/ /\ part = "windows" /\ Gates!WinInit /\ Idle7
     \/ /\ part = "periods" /\ Levels!PcInit /\ Idle4
     \/ /\ part = "day's times" /\ OneLevel!PcInit /\ Idle4
     \/ /\ part = "connections" /\ Connections!PoolInit /\ Idle13
     \/ /\ part = "recent" /\ Recent!LruInit /\ Idle5
  /\ part # "substitutes" => table = CHOOSE t \in Timetables : TRUE

SuiteNext ==
  /\ UNCHANGED part
  /\ \/ /\ part = "guard" /\ Next
        /\ UNCHANGED <<limiterVars, dayVars, balanceVars, accVars, timedVars,
                       ttVars, schVars, After0>>
     \/ /\ part = "limiter" /\ LimiterNext
        /\ UNCHANGED <<vars, dayVars, balanceVars, accVars, timedVars, ttVars,
                       schVars, After0>>
     \/ /\ part = "halves" /\ DayNext
        /\ UNCHANGED <<vars, limiterVars, balanceVars, accVars, timedVars,
                       ttVars, schVars, After0>>
     \/ /\ part = "casual leave" /\ BalanceNext
        /\ UNCHANGED <<vars, limiterVars, dayVars, accVars, timedVars, ttVars,
                       schVars, After0>>
     \/ /\ part = "accounts" /\ AccNext
        /\ UNCHANGED <<vars, limiterVars, dayVars, balanceVars, timedVars,
                       ttVars, schVars, After0>>
     \/ /\ part = "timed" /\ TimedNext
        /\ UNCHANGED <<vars, limiterVars, dayVars, balanceVars, accVars,
                       ttVars, schVars, After0>>
     \/ /\ part = "timetable" /\ TtNext
        /\ UNCHANGED <<vars, limiterVars, dayVars, balanceVars, accVars,
                       timedVars, schVars, After0>>
     \/ /\ part = "substitutes" /\ SchNext
        /\ UNCHANGED <<vars, limiterVars, dayVars, balanceVars, accVars,
                       timedVars, ttVars, After0>>
     \/ /\ part = "absences" /\ Absences!DayNext /\ UNCHANGED <<ownVars, After11>>
     \/ /\ part = "whole day" /\ WholeDay!DayNext /\ UNCHANGED <<ownVars, After11>>
     \/ /\ part = "other staff" /\ OtherDay!DayNext /\ UNCHANGED <<ownVars, After11>>
     \/ /\ part = "disputes" /\ Disputes!CorNext /\ UNCHANGED <<ownVars, After12>>
     \/ /\ part = "earned leave" /\ Earned!BalanceNext /\ UNCHANGED <<ownVars, After15>>
     \/ /\ part = "outing" /\ Outing!Next /\ UNCHANGED ownVars
     \/ /\ part = "pupil" /\ Pupil!Next /\ UNCHANGED ownVars
     \/ /\ part = "generated" /\ Auto!TtNext /\ UNCHANGED <<ownVars, After5>>
     \/ /\ part = "rooms" /\ RoomPlan!Next /\ UNCHANGED <<ownVars, After11>>
     \/ /\ part = "two people" /\ TwoPeople!AccNext /\ UNCHANGED <<ownVars, After8>>
     \/ /\ part = "halls" /\ HallList!FacNext /\ UNCHANGED <<ownVars, After4>>
     \/ /\ part = "lessons" /\ Story!SchNext /\ UNCHANGED <<ownVars, After9>>
     \/ /\ part = "reminders" /\ LeadTimes!SchNext /\ UNCHANGED <<ownVars, After9>>
     \/ /\ part = "windows" /\ Gates!WinNext /\ UNCHANGED <<ownVars, After7>>
     \/ /\ part = "periods" /\ Levels!PcNext /\ UNCHANGED <<ownVars, After4>>
     \/ /\ part = "day's times" /\ OneLevel!PcNext /\ UNCHANGED <<ownVars, After4>>
     \/ /\ part = "connections" /\ Connections!PoolNext /\ UNCHANGED <<ownVars, After13>>
     \/ /\ part = "recent" /\ Recent!LruNext /\ UNCHANGED <<ownVars, After5>>

suiteVars == <<part, ownVars, After0>>

SuiteSpec == SuiteInit /\ [][SuiteNext]_suiteVars

-----------------------------------------------------------------------------
ASSUME DailySettings /\ Absences!DailySettings /\ Disputes!CorrectionSettings /\ WholeDay!DailySettings /\ OtherDay!DailySettings
ASSUME BalanceSettings /\ Earned!BalanceSettings
ASSUME TimetableSettings /\ Auto!TimetableSettings /\ Gates!WindowSettings
ASSUME Story!ScheduleSettings /\ ScheduleSettings /\ LeadTimes!ScheduleSettings
ASSUME Levels!PeriodSettings /\ OneLevel!PeriodSettings /\ OneLevel!SingleBreaks
ASSUME Outing!TrackingAssumption /\ Pupil!TrackingAssumption
ASSUME AccountsAssumption /\ TwoPeople!AccountsAssumption /\ CacheAssumption /\ Recent!LRUAssumption /\ Connections!PoolAssumption

\* What the other parts keep.  Approved leave stays on its day, that of other staff
\* too; one dispute about a day is open at a time; the days of the absence marker
\* and full days are earned; earned leave is charged and credited once.  The
\* campus watch is just: who is absent for it was outside for the whole grace
\* time, one alert is active at a time, and a phone was warned before.  A room
\* shown as vacant is free on that date, attendance slots and CCL windows do not
\* overlap and every lookup opens the same of them.  No two threads use one
\* connection, none leaks, and a statement repeated after a failure is executed
\* once.  Whatever changes, the teacher a class is shown has the lesson; all
\* lookups of the periods' times give the configuration in force; and the cache
\* of faces evicts the least recently used.
OthersHold ==
  /\ part = "halves" => DayTypeOK /\ LeaveDayKept
  /\ part = "absences" => Absences!HalvesHonest
  /\ part = "disputes" => Disputes!CorTypeOK /\ Disputes!OneOpen /\ Disputes!HalvesHonest
  /\ part = "whole day" => WholeDay!HalvesHonest
  /\ part = "other staff" => OtherDay!LeaveDayKept
  /\ part = "casual leave" => BalanceTypeOK
  /\ part = "earned leave" => Earned!BalanceBooks
  /\ part = "outing" => Outing!Deserved /\ Outing!OneActive /\ Outing!WarnedOnce
  /\ part = "pupil" => Pupil!TypeOK /\ Pupil!OneActive
  /\ part = "accounts" => AccTypeOK
  /\ part = "two people" => TwoPeople!AccTypeOK /\ TwoPeople!DeletedIsGone
  /\ part = "timetable" => TtTypeOK
  /\ part = "rooms" => RoomPlan!TypeOK /\ RoomPlan!VacantIsFree
  /\ part = "windows" => Gates!WinTypeOK /\ Gates!SlotsApart /\ Gates!OneGate
  /\ part = "connections" => /\ Connections!PoolTypeOK /\ Connections!OneUser
                             /\ Connections!NoLeak /\ Connections!ExecutedOnce
  /\ part = "lessons" => Story!SchTypeOK /\ Story!Announced
  /\ part = "periods" => Levels!PcTypeOK /\ Levels!Hierarchy
  /\ part = "day's times" => OneLevel!OneTime
  /\ part = "recent" => Recent!LruTypeOK /\ Recent!LeastRecentFirst

\* What no single step may do: lose a recorded scan time, decide a decided leave
\* request again, lift a lock for a success or another request, leave an alert
\* active after a return, leave halls behind under a renamed code, generate a week
\* that ignores hours or collisions, save a configuration that does not take
\* effect, or leave out a reminder.
StepsSound ==
  [][/\ part = "halves" => TimesKept
     /\ part = "disputes" => Disputes!TimesKept
     /\ part = "casual leave" => DecisionStands
     /\ part = "guard" => LiftedOnlyBy
     /\ part = "outing" => Outing!ReturnResolves
     /\ part = "halls" => HallList!FacTypeOK /\ HallList!RenameTakes
     /\ part = "generated" => Auto!AutoSound
     /\ part = "periods" => Levels!InForce
     /\ part = "reminders" => LeadTimes!Warned]_suiteVars
=============================================================================
