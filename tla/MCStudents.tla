--------------------------------- MODULE MCStudents ---------------------------------
(***************************************************************************)
(* The components of the student side in one run. They share no variable,  *)
(* so a behaviour is one component's alone: its initial state chooses      *)
(* which, part says it, and s1, s2, ... hold the variables of that         *)
(* component. StudentReport (with StudentGate), AttendanceMargin,          *)
(* StudentLeave, Kiosk, KioskPermission, ClassAdvisors and StudentFace     *)
(* keep their own names, and their initial values while another component  *)
(* runs; further sizes of them are instances.                              *)
(***************************************************************************)
EXTENDS StudentReport, AttendanceMargin, StudentLeave, Kiosk,
        KioskPermission, ClassAdvisors, StudentFace, TLC

VARIABLES part,  \* the component this behaviour is about
          s1, s2, s3, s4, s5, s6, s7, s8, s9, s10, s11, s12, s13, s14, s15 \* its variables

\* The periods of StudentReport: one session of each half; the fourth period
\* is the last of the forenoon for marking, and of the afternoon for crediting.
DayPeriods == {3, 4, 5}
FirstTwo   == <<3, 5>>
LastTwo    == <<4, 5>>

Sem(i, k, a, b, on) == [id |-> i, kind |-> k, first |-> a, last |-> b, active |-> on]
SemestersMC == {<<Sem("r1", "odd", 1, 2, TRUE), Sem("r2", "even", 2, 3, FALSE)>>,
                <<Sem("r1", "odd", 1, 3, TRUE)>>,
                <<Sem("r1", "odd", 1, 1, FALSE), Sem("r2", "odd", 3, 3, TRUE)>>}

PupilIn(b, m, c, w) == [reg |-> "s1",
                        row |-> [batch |-> b, sem |-> m, section |-> c, mentor |-> w]]
SheetsMC(b, c) == {<<PupilIn("b1", 1, "A", "nobody"), PupilIn(b, 2, c, "ann")>>}
Imported == SheetsMC("b2", "A")

\* StudentLeave: one request of three days, one a Sunday.  KioskPermission: two members of staff
\* and a head of department.
WhoLeaves   == "q1" :> "s1"
LeaveDates  == "q1" :> <<"d1", "d2", "d3">>
LeaveCalendar == "d1" :> "plain" @@ "d2" :> "off" @@ "d3" :> "working"
LeaveKind   == "q1" :> "APPROVED_OD"
StaffRoles  == "a" :> "staff" @@ "b" :> "staff" @@ "head" :> "hod"
StaffOf     == "a" :> 1 @@ "b" :> 2 @@ "head" :> 1
LearnerDept == "s1" :> 1

\* StudentFace: a student submits three times, and every statement may fail.
FaceJobs == "j1" :> {"submit"} @@ "j2" :> {}

FenceDefault == [outer |-> <<"o">>, inner |-> <<"i">>, limit_range |-> <<>>]
FencesMC == {[outer |-> <<"a", "b">>, inner |-> <<"c">>, limit_range |-> <<"d">>],
             [outer |-> <<"e">>, inner |-> <<"i">>, limit_range |-> <<>>],
             [outer |-> <<"e">>, inner |-> <<>>, limit_range |-> <<>>]}

-----------------------------------------------------------------------------
\* Two requests for the same day.
LeaveTwo == INSTANCE StudentLeave WITH
  Requests <- {"q1", "q2"}, Students <- {"s1"}, LeaveDays <- {"d1"},
  NoRequest <- None, StudentOf <- "q1" :> "s1" @@ "q2" :> "s1",
  DaysOf <- "q1" :> <<"d1">> @@ "q2" :> <<"d1">>,
  CalendarOf <- "d1" :> "plain",
  TypeOf <- "q1" :> "APPROVED_OD" @@ "q2" :> "APPROVED_LEAVE", MaxFaults <- 0,
  mentor <- s1, hod <- s2, admin <- s3, credited <- s4, holidays <- s5,
  dayType <- s6, dayReq <- s7, todo <- s8, faults <- s9

\* Two kiosk handlers at once, every statement may fail.
KioskTwo == INSTANCE Kiosk WITH
  Thread <- {"t1", "t2"}, Student <- {"s1"}, KioskSession <- {"k1"},
  Versions <- 1, MaxScans <- 1, Faults <- TRUE, None <- None,
  AtRest <- AtRest, profile <- s1, cache <- s2, session <- s3,
  total_scans <- s4, log <- s5, day <- s6, half <- s7, dayoff <- s8,
  job <- s9, marks <- s10, cleared <- s11, lost <- s12, raced <- s13,
  reload <- s14

\* Two students at one kiosk, every statement may fail.
KioskPair == INSTANCE Kiosk WITH
  Thread <- {"t1"}, Student <- {"s1", "s2"}, KioskSession <- {"k1"},
  Versions <- 2, MaxScans <- 1, Faults <- TRUE, None <- None,
  AtRest <- AtRest, profile <- s1, cache <- s2, session <- s3,
  total_scans <- s4, log <- s5, day <- s6, half <- s7, dayoff <- s8,
  job <- s9, marks <- s10, cleared <- s11, lost <- s12, raced <- s13,
  reload <- s14

\* Two permissions.
Permissions == INSTANCE KioskPermission WITH
  Staff <- {"a", "b"}, Learners <- {"s1"},
  Role <- "a" :> "staff" @@ "b" :> "staff", StaffDept <- "a" :> 1 @@ "b" :> 2,
  StudentDept <- "s1" :> 1, Grants <- 2, Switched <- {"a"}, NoOwner <- None,
  All <- All, owner <- s1, suspended <- s2, kiosk <- s3, global <- s4,
  perms <- s5, granted <- s6, asking <- s7, deleting <- s8, left <- s9

\* Two submissions, and the process is killed.
FaceCrash == INSTANCE StudentFace WITH
  Job <- {"j1", "j2"},
  Does <- "j1" :> {"submit", "upload"} @@ "j2" :> {"submit"}, MaxFaces <- 2,
  MaxReqs <- 1, MayCrash <- TRUE, MayFail <- TRUE, NoHolder <- None,
  exists <- s1, can <- s2, faceProfile <- s3, embs <- s4, proto <- s5,
  faceCache <- s6, reqs <- s7, jobs <- s8, faceLoop <- s9, captures <- s10,
  grants <- s11, changes <- s12, kept <- s13, unread <- s14, torn <- s15

\* The kiosk registers the student meanwhile.
FaceDesk == INSTANCE StudentFace WITH
  Job <- {"j1", "j2"},
  Does <- "j1" :> {"submit"} @@ "j2" :> {"kiosk", "delete", "toggle"},
  MaxFaces <- 2, MaxReqs <- 1, MayCrash <- FALSE, MayFail <- TRUE,
  NoHolder <- None, exists <- s1, can <- s2, faceProfile <- s3, embs <- s4,
  proto <- s5, faceCache <- s6, reqs <- s7, jobs <- s8, faceLoop <- s9,
  captures <- s10, grants <- s11, changes <- s12, kept <- s13, unread <- s14,
  torn <- s15

\* A member of staff registers twice at once.
StaffLock == INSTANCE StaffFace WITH
  Job <- {"j1", "j2"},
  Does <- "j1" :> {"self", "other"} @@ "j2" :> {"self", "other", "desk"},
  Enrolled <- TRUE, MaxFaces <- 4, MaxReqs <- 1, MaxSamples <- 1,
  MayDrop <- FALSE, MayCrash <- TRUE, NoJob <- None, emb <- s1, samples <- s2,
  profileCache <- s3, can <- s4, reqs <- s5, jobs <- s6, inLoop <- s7,
  guard <- s8, faces <- s9, last <- s10, overrun <- s11, grants <- s12,
  changes <- s13, admins <- s14

\* A registration next to a verification; cache entries expire.
StaffCache == INSTANCE StaffFace WITH
  Job <- {"j1", "j2"}, Does <- "j1" :> {"self"} @@ "j2" :> {"verify"},
  Enrolled <- TRUE, MaxFaces <- 4, MaxReqs <- 0, MaxSamples <- 2,
  MayDrop <- TRUE, MayCrash <- FALSE, NoJob <- None, emb <- s1, samples <- s2,
  profileCache <- s3, can <- s4, reqs <- s5, jobs <- s6, inLoop <- s7,
  guard <- s8, faces <- s9, last <- s10, overrun <- s11, grants <- s12,
  changes <- s13, admins <- s14

\* The daily training next to a registration.
Training == INSTANCE StaffFace WITH
  Job <- {"j1", "j2"}, Does <- "j1" :> {"retrain"} @@ "j2" :> {"self"},
  Enrolled <- TRUE, MaxFaces <- 3, MaxReqs <- 0, MaxSamples <- 2,
  MayDrop <- FALSE, MayCrash <- FALSE, NoJob <- None, emb <- s1,
  samples <- s2, profileCache <- s3, can <- s4, reqs <- s5, jobs <- s6,
  inLoop <- s7, guard <- s8, faces <- s9, last <- s10, overrun <- s11,
  grants <- s12, changes <- s13, admins <- s14

\* Two semesters that may overlap on three dates, the last a Sunday.
Calendar == INSTANCE StudentCalendar WITH
  LastDay <- 3, FirstWeekday <- 4, Students <- {"s1"}, RangeSets <- {{}},
  Holidays <- {[d \in 1 .. 3 |-> "none"]}, Types <- {"HOLIDAY"},
  Cycles <- {6}, MaxOps <- 2, NoRow <- None, Years <- {"2025", "2026"},
  Semesters <- SemestersMC, RangeIds <- {"r1", "r2", "odd", "even", "gone"},
  Refusals <- TRUE, ranges <- s1, holidays <- s2, dateOver <- s3,
  declared <- s4, active <- s5, dayStatus <- s6, bulk <- s7, ops <- s8,
  mem <- s9, stored <- s10, accepted <- s11, fresh <- s12

\* Three fences of an administrator, with and without a limit range.
Fence == INSTANCE GeoFence WITH
  Fences <- FencesMC, Defaults <- FenceDefault, Older <- None, Points <- 4,
  MaxUpdates <- 3, Faults <- {"none"}, None <- None, rows <- s1, memory <- s2,
  job <- s3, up <- s4, sent <- s5, last <- s6

\* Two sections; the unique indexes could not be created.
Unindexed == INSTANCE ClassAdvisors WITH
  Pupils <- {"s1"}, Mentors <- {"ann", "bob"}, Batches <- {"b1"},
  Semesters <- {1, 2}, Sections <- {"A", "B"}, NoPupil <- None,
  NoMentor <- "nobody", Sheets <- SheetsMC("b1", "B"), MaxActs <- 3,
  MaxStops <- 1, Indexed <- FALSE, AdvFaults <- {"stop"}, advisors <- s1,
  pupils <- s2, loop <- s3, pool <- s4, acts <- s5, stops <- s6

\* One of two students is on duty.
RollTwo == INSTANCE RollSheet WITH
  OnRoll <- {"s1", "s2"}, Sheet <- {"c1"},
  Excuse <- "s1" :> "none" @@ "s2" :> "On-Duty", MaxSessions <- 1, Loads <- 1,
  MaxOverrides <- 0, SheetFeatures <- {}, status <- s1, register <- s2,
  loop <- s3, thread <- s4, overwritten <- s5, tasks <- s6, conns <- s7,
  sock <- s8, inbox <- s9, mounted <- s10, active <- s11, shown <- s12,
  load <- s13, overrides <- s14

\* Two requests for the roll at once.
RollOverlap == INSTANCE RollSheet WITH
  OnRoll <- {"s1"}, Sheet <- {"c1"}, Excuse <- "s1" :> "none",
  MaxSessions <- 1, Loads <- 2, MaxOverrides <- 0, SheetFeatures <- {},
  status <- s1, register <- s2, loop <- s3, thread <- s4, overwritten <- s5,
  tasks <- s6, conns <- s7, sock <- s8, inbox <- s9, mounted <- s10,
  active <- s11, shown <- s12, load <- s13, overrides <- s14

\* Check-in closed and recording resumed, a status corrected, the sheet left.
RollAgain == INSTANCE RollSheet WITH
  OnRoll <- {"s1"}, Sheet <- {"c1"}, Excuse <- "s1" :> "none",
  MaxSessions <- 1, Loads <- 1, MaxOverrides <- 1,
  SheetFeatures <- {"pause", "restart", "leave"}, status <- s1,
  register <- s2, loop <- s3, thread <- s4, overwritten <- s5, tasks <- s6,
  conns <- s7, sock <- s8, inbox <- s9, mounted <- s10, active <- s11,
  shown <- s12, load <- s13, overrides <- s14

\* Every polygon of up to four corners on a small grid, every point of it.
Polygon == INSTANCE PointInPolygon WITH
  Grid <- 2, Sizes <- {3, 4}, polygon <- s1, point <- s2

-----------------------------------------------------------------------------
\* The variables a component leaves unused.
After0 == <<s1, s2, s3, s4, s5, s6, s7, s8, s9, s10, s11, s12, s13, s14, s15>>
After2 == <<s3, s4, s5, s6, s7, s8, s9, s10, s11, s12, s13, s14, s15>>
After6 == <<s7, s8, s9, s10, s11, s12, s13, s14, s15>>
After9 == <<s10, s11, s12, s13, s14, s15>>
After12 == <<s13, s14, s15>>
After14 == <<s15>>

Idle0 == /\ s1 = 0 /\ s2 = 0 /\ s3 = 0 /\ s4 = 0 /\ s5 = 0 /\ s6 = 0
         /\ s7 = 0 /\ s8 = 0 /\ s9 = 0 /\ s10 = 0 /\ s11 = 0 /\ s12 = 0
         /\ s13 = 0 /\ s14 = 0 /\ s15 = 0
Idle2 == /\ s3 = 0 /\ s4 = 0 /\ s5 = 0 /\ s6 = 0 /\ s7 = 0 /\ s8 = 0
         /\ s9 = 0 /\ s10 = 0 /\ s11 = 0 /\ s12 = 0 /\ s13 = 0 /\ s14 = 0
         /\ s15 = 0
Idle6 == /\ s7 = 0 /\ s8 = 0 /\ s9 = 0 /\ s10 = 0 /\ s11 = 0 /\ s12 = 0
         /\ s13 = 0 /\ s14 = 0 /\ s15 = 0
Idle9 == /\ s10 = 0 /\ s11 = 0 /\ s12 = 0 /\ s13 = 0 /\ s14 = 0 /\ s15 = 0
Idle12 == /\ s13 = 0 /\ s14 = 0 /\ s15 = 0
Idle14 == /\ s15 = 0

\* The variables of the components that keep their own names.
ownVars == <<vars, marginVars, leaveVars, kioskVars, permVars, advVars,
             faceVars>>

SuiteInit ==
  /\ Init
  /\ MarginInit
  /\ LeaveInit
  /\ KioskInit
  /\ PermInit
  /\ AdvInit
  /\ FaceInit
  /\ \/ /\ part = "day" /\ Idle0
     \/ /\ part = "margin" /\ Idle0
     \/ /\ part = "one leave" /\ Idle0
     \/ /\ part = "kiosk" /\ Idle0
     \/ /\ part = "delegation" /\ Idle0
     \/ /\ part = "advisors" /\ Idle0
     \/ /\ part = "lock" /\ Idle0
     \/ /\ part = "two leaves" /\ LeaveTwo!LeaveInit /\ Idle9
     \/ /\ part = "kiosks" /\ KioskTwo!KioskInit /\ Idle14
     \/ /\ part = "two pupils" /\ KioskPair!KioskInit /\ Idle14
     \/ /\ part = "permissions" /\ Permissions!PermInit /\ Idle9
     \/ /\ part = "crash" /\ FaceCrash!FaceInit
     \/ /\ part = "desk" /\ FaceDesk!FaceInit
     \/ /\ part = "staff lock" /\ StaffLock!Init /\ Idle14
     \/ /\ part = "staff cache" /\ StaffCache!Init /\ Idle14
     \/ /\ part = "training" /\ Training!Init /\ Idle14
     \/ /\ part = "calendar" /\ Calendar!Init /\ Idle12
     \/ /\ part = "fence" /\ Fence!Init /\ Idle6
     \/ /\ part = "no index" /\ Unindexed!AdvInit /\ Idle6
     \/ /\ part = "two students" /\ RollTwo!SheetInit /\ Idle14
     \/ /\ part = "overlap" /\ RollOverlap!SheetInit /\ Idle14
     \/ /\ part = "resumed" /\ RollAgain!SheetInit /\ Idle14
     \/ /\ part = "polygon" /\ Polygon!Init /\ Idle2
  /\ part # "kiosk" => dayoff = {}
  /\ part # "advisors" => \A s \in Pupils : pupils[s] = NoPupil

SuiteNext ==
  /\ UNCHANGED part
  /\ \/ /\ part = "day" /\ Next
        /\ UNCHANGED <<marginVars, leaveVars, kioskVars, permVars, advVars,
                       faceVars, After0>>
     \/ /\ part = "margin" /\ MarginNext
        /\ UNCHANGED <<vars, leaveVars, kioskVars, permVars, advVars,
                       faceVars, After0>>
     \/ /\ part = "one leave" /\ LeaveNext
        /\ UNCHANGED <<vars, marginVars, kioskVars, permVars, advVars,
                       faceVars, After0>>
     \/ /\ part = "kiosk" /\ KioskNext
        /\ UNCHANGED <<vars, marginVars, leaveVars, permVars, advVars,
                       faceVars, After0>>
     \/ /\ part = "delegation" /\ PermNext
        /\ UNCHANGED <<vars, marginVars, leaveVars, kioskVars, advVars,
                       faceVars, After0>>
     \/ /\ part = "advisors" /\ AdvNext
        /\ UNCHANGED <<vars, marginVars, leaveVars, kioskVars, permVars,
                       faceVars, After0>>
     \/ /\ part = "lock" /\ FaceNext
        /\ UNCHANGED <<vars, marginVars, leaveVars, kioskVars, permVars,
                       advVars, After0>>
     \/ /\ part = "two leaves" /\ LeaveTwo!LeaveNext /\ UNCHANGED <<ownVars, After9>>
     \/ /\ part = "kiosks" /\ KioskTwo!KioskNext /\ UNCHANGED <<ownVars, After14>>
     \/ /\ part = "two pupils" /\ KioskPair!KioskNext /\ UNCHANGED <<ownVars, After14>>
     \/ /\ part = "permissions" /\ Permissions!PermNext /\ UNCHANGED <<ownVars, After9>>
     \/ /\ part = "crash" /\ FaceCrash!FaceNext /\ UNCHANGED ownVars
     \/ /\ part = "desk" /\ FaceDesk!FaceNext /\ UNCHANGED ownVars
     \/ /\ part = "staff lock" /\ StaffLock!Next /\ UNCHANGED <<ownVars, After14>>
     \/ /\ part = "staff cache" /\ StaffCache!Next /\ UNCHANGED <<ownVars, After14>>
     \/ /\ part = "training" /\ Training!Next /\ UNCHANGED <<ownVars, After14>>
     \/ /\ part = "calendar" /\ Calendar!Next /\ UNCHANGED <<ownVars, After12>>
     \/ /\ part = "fence" /\ Fence!Next /\ UNCHANGED <<ownVars, After6>>
     \/ /\ part = "no index" /\ Unindexed!AdvNext /\ UNCHANGED <<ownVars, After6>>
     \/ /\ part = "two students" /\ RollTwo!SheetNext /\ UNCHANGED <<ownVars, After14>>
     \/ /\ part = "overlap" /\ RollOverlap!SheetNext /\ UNCHANGED <<ownVars, After14>>
     \/ /\ part = "resumed" /\ RollAgain!SheetNext /\ UNCHANGED <<ownVars, After14>>
     \/ /\ part = "polygon" /\ Polygon!Next /\ UNCHANGED <<ownVars, After2>>

suiteVars == <<part, ownVars, After0>>

SuiteSpec == SuiteInit /\ [][SuiteNext]_suiteVars

-----------------------------------------------------------------------------
ASSUME StudentRequests /\ FaultBound /\ LeaveTwo!StudentRequests /\ LeaveTwo!FaultBound
ASSUME KioskAssumption /\ KioskTwo!KioskAssumption /\ KioskPair!KioskAssumption
ASSUME PermissionAssumption /\ Permissions!PermissionAssumption
ASSUME AdvisorSettings /\ Unindexed!AdvisorSettings
ASSUME FaceAssumption /\ FaceCrash!FaceAssumption /\ FaceDesk!FaceAssumption
ASSUME StaffLock!StaffFaceAssumption /\ StaffCache!StaffFaceAssumption /\ Training!StaffFaceAssumption
ASSUME RollTwo!SheetAssumption /\ RollOverlap!SheetAssumption /\ RollAgain!SheetAssumption
ASSUME Fence!FenceAssumption /\ Polygon!GridAssumption

\* The books hold on other sizes too: two requests for one day, two kiosk handlers
\* of which any statement may fail, two permissions, two sections of advisors
\* without unique indexes, two students on a sheet, and a sheet that is resumed,
\* corrected and left.  A calendar counts every date of overlapping semesters
\* once.  Inside and outside are what the administrator drew: the stored fence is
\* the one enforced, and the ray cast agrees with the half planes of every
\* triangle and convex fence.
RestHolds ==
  /\ part = "one leave" => LeaveTypeOK
  /\ part = "kiosk" => KioskTypeOK
  /\ part = "delegation" => PermTypeOK
  /\ part = "advisors" => AdvTypeOK
  /\ part = "two leaves" => LeaveTwo!LeaveTraced
  /\ part = "kiosks" => KioskTwo!KioskTypeOK /\ KioskTwo!KioskBooks
  /\ part = "two pupils" => KioskPair!KioskTypeOK /\ KioskPair!KioskBooks
  /\ part = "permissions" => Permissions!NoOldGrants
  /\ part = "no index" => Unindexed!OneAdvisor
  /\ part = "two students" => RollTwo!SheetTruthful
  /\ part = "overlap" => RollOverlap!SheetTruthful
  /\ part = "resumed" => RollAgain!SheetTypeOK /\ RollAgain!CountersAgree
  /\ part = "calendar" => Calendar!TypeOK /\ Calendar!CountedOnce
  /\ part = "fence" => Fence!TypeOK /\ Fence!Kept
  /\ part = "polygon" => Polygon!AgreesConvex

\* A member of staff replaces a registered face at most once per permission, and
\* a request counts as approved only once an administrator has approved it.  When
\* nobody is writing, the matching uses the registered face: the cache follows the
\* profile through overlapping submissions, crashes, verifications and the daily
\* training, which loses only a face registered while it runs, and the lock status
\* shown is the one enforced.
FacesRight ==
  /\ part = "lock" => FaceTypeOK
  /\ part = "staff lock" => StaffLock!TypeOK /\ StaffLock!Locked /\ StaffLock!BothApproved
  /\ part = "crash" => FaceCrash!CacheFollows /\ FaceCrash!StatusTells
  /\ part = "desk" => FaceDesk!StatusTells
  /\ part = "staff cache" => StaffCache!CacheTable
  /\ part = "training" => Training!LostToTraining

\* What no single step may do: end the tap of the only open session's button
\* without its mark, take access from somebody without a reason, number a bulk
\* range of day orders wrongly, or let the order in which a polygon was drawn
\* decide.
StudentSteps ==
  [][/\ part = "day" => SoleTapMarks
     /\ part = "delegation" => LossHasReason
     /\ part = "permissions" => Permissions!LossHasReason
     /\ part = "calendar" => Calendar!CalTypeOK /\ Calendar!BulkOrder
     /\ part = "polygon" => Polygon!DrawingOrder]_suiteVars
=============================================================================
