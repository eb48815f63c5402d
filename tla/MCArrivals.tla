--------------------------------- MODULE MCArrivals ---------------------------------
(***************************************************************************)
(* What must eventually happen, each component by itself as in MCStudents  *)
(* and MCStaff: part says which. The roll sheet and the lockout keep their *)
(* own names, the sheet with closers in pool threads; s1, s2, ... hold the *)
(* variables of a leave or of an attendance day.                           *)
(***************************************************************************)
EXTENDS RollSheet, VerificationGuard, TLC

CONSTANTS None

VARIABLES part,  \* the component this behaviour is about
          s1, s2, s3, s4, s5, s6, s7, s8, s9, s10, s11 \* its variables

\* Whom the roll expects.
Expected == "s1" :> "none"

\* The enabled attendance slots in each phase of a date.
Slot(t, h) == [type |-> t, half |-> h]
In1 == Slot("check_in", "first")   Out1 == Slot("check_out", "first")
In2 == Slot("check_in", "second")  Out2 == Slot("check_out", "second")
InD == Slot("check_in", "day")     OutD == Slot("check_out", "day")
HalfSlots == [p \in 0 .. 3 |-> CASE p = 0 -> {In1, Out1}
                               [] p = 1 -> {In1, Out1, In2}
                               [] p = 2 -> {In2, Out2}
                               [] OTHER -> {}]
DaySlots  == [p \in 0 .. 3 |-> CASE p = 0 -> {InD}
                               [] p = 1 -> {InD, OutD}
                               [] p = 2 -> {OutD}
                               [] OTHER -> {}]

-----------------------------------------------------------------------------
\* One request over a Sunday and a day an override makes working; a statement fails.
LeaveOne == INSTANCE StudentLeave WITH
  Requests <- {"q1"}, Students <- {"s1"}, LeaveDays <- {"d1", "d2", "d3"},
  NoRequest <- None, StudentOf <- "q1" :> "s1",
  DaysOf <- "q1" :> <<"d1", "d2", "d3">>,
  CalendarOf <- "d1" :> "plain" @@ "d2" :> "off" @@ "d3" :> "working",
  TypeOf <- "q1" :> "APPROVED_OD", MaxFaults <- 1, mentor <- s1, hod <- s2,
  admin <- s3, credited <- s4, holidays <- s5, dayType <- s6, dayReq <- s7,
  todo <- s8, faults <- s9

\* Half days: the absence marker and a restart.
Absences == INSTANCE DailyAttendance WITH
  Users <- {"u"}, NoRow <- None, OtherStaff <- {}, SlotsAt <- HalfSlots,
  HalfDay <- TRUE, RequireFnOut <- TRUE, HolidayFrom <- 4,
  LeaveBy <- "nobody", Geofence <- FALSE, AdminSyncs <- FALSE, MaxScans <- 1,
  MaxCrashes <- 1, phase <- s1, row <- s2, morning <- s3, evening <- s4,
  scans <- s5, job <- s6, loop <- s7, marked <- s8, crashes <- s9,
  granted <- s10, fenced <- s11

\* Full days of the other staff, whom the geofence may mark absent.
OtherDay == INSTANCE DailyAttendance WITH
  Users <- {"u"}, NoRow <- None, OtherStaff <- {"u"}, SlotsAt <- DaySlots,
  HalfDay <- FALSE, RequireFnOut <- TRUE, HolidayFrom <- 2,
  LeaveBy <- "admin", Geofence <- TRUE, AdminSyncs <- FALSE, MaxScans <- 1,
  MaxCrashes <- 0, phase <- s1, row <- s2, morning <- s3, evening <- s4,
  scans <- s5, job <- s6, loop <- s7, marked <- s8, crashes <- s9,
  granted <- s10, fenced <- s11

-----------------------------------------------------------------------------
\* The variables a component leaves unused.
After0 == <<s1, s2, s3, s4, s5, s6, s7, s8, s9, s10, s11>>
After9 == <<s10, s11>>

Idle0 == /\ s1 = 0 /\ s2 = 0 /\ s3 = 0 /\ s4 = 0 /\ s5 = 0 /\ s6 = 0
         /\ s7 = 0 /\ s8 = 0 /\ s9 = 0 /\ s10 = 0 /\ s11 = 0
Idle9 == /\ s10 = 0 /\ s11 = 0

SuiteInit ==
  /\ SheetInit
  /\ Init
  /\ \/ /\ part = "sheet" /\ Idle0
     \/ /\ part = "guard" /\ Idle0
     \/ /\ part = "one leave" /\ LeaveOne!LeaveInit /\ Idle9
     \/ /\ part = "absences" /\ Absences!DayInit
     \/ /\ part = "other staff" /\ OtherDay!DayInit

SuiteNext ==
  /\ UNCHANGED part
  /\ \/ /\ part = "sheet" /\ SheetNext /\ UNCHANGED <<vars, After0>>
     \/ /\ part = "guard" /\ Next /\ UNCHANGED <<sheetVars, After0>>
     \/ /\ part = "one leave" /\ LeaveOne!LeaveNext /\ UNCHANGED <<sheetVars, vars, After9>>
     \/ /\ part = "absences" /\ Absences!DayNext /\ UNCHANGED <<sheetVars, vars>>
     \/ /\ part = "other staff" /\ OtherDay!DayNext /\ UNCHANGED <<sheetVars, vars>>

suiteVars == <<part, sheetVars, vars, After0>>

\* A running approval goes on; nobody has to decide anything. The timer of a
\* sheet runs, pool threads go on, some of its requests are answered.
SuiteFairness ==
  /\ WF_<<s1, s2, s3, s4, s5, s6, s7, s8, s9>>(part = "one leave" /\ LeaveOne!Execute)
  /\ WF_sheetVars(part = "sheet" /\ Poll("c1"))
  /\ WF_sheetVars(part = "sheet" /\ ReadMeta("c1"))
  /\ WF_sheetVars(part = "sheet" /\ ReadRows("c1"))
  /\ SF_sheetVars(part = "sheet" /\ Answered("c1"))
  /\ WF_vars(part = "guard" /\ Tick)
  /\ WF_vars(part = "guard" /\ Fire)
  /\ WF_vars(part = "guard" /\ (RemoveLock \/ RemoveCount))
  /\ \A t \in Thread : WF_vars(part = "guard" /\ Continue(t))
  /\ WF_After0(\/ part = "absences" /\ Absences!Running
               \/ part = "other staff" /\ OtherDay!Running)
  /\ WF_After0(\/ part = "absences" /\ Absences!Job("u")
               \/ part = "other staff" /\ OtherDay!Job("u"))
  /\ \A half \in {"first", "second"} :
       WF_After0(\/ part = "absences" /\ Absences!FireMarker(half)
                 \/ part = "other staff" /\ OtherDay!FireMarker(half))
  /\ WF_After0(\/ part = "absences" /\ s1 = 3 /\ Absences!Repair
               \/ part = "other staff" /\ s1 = 3 /\ OtherDay!Repair)

SuiteSpec == SuiteInit /\ [][SuiteNext]_suiteVars /\ SuiteFairness

-----------------------------------------------------------------------------
ASSUME LeaveOne!StudentRequests /\ LeaveOne!FaultBound /\ SheetAssumption
ASSUME Absences!DailySettings /\ OtherDay!DailySettings

\* What is decided arrives: an approval reaches every day of the leave that has
\* classes, unless a statement failed; the closing of a session reaches the sheet
\* that shows it, whoever closed it and whatever was lost, and stays there.
EverythingArrives ==
  /\ (part = "one leave" /\ s2["q1"] = "APPROVED") ~> (part = "one leave" /\ LeaveOne!Reached("q1"))
  /\ (part = "sheet" /\ Finished("c1")) ~> [](part = "sheet" /\ Told("c1"))

\* What has to end ends: however often somebody locked out tries, again and again
\* there is no lock, and after the last half of a date every half of every row
\* is decided: Present, Absent, leave or holiday.
Settled ==
  \/ part = "guard" /\ ~Locked
  \/ part = "absences" /\ Absences!Decided
  \/ part = "other staff" /\ OtherDay!Decided
EverySettles ==
  part = "guard" \/ (part \in {"absences", "other staff"} /\ s1 = 3) ~> Settled
=============================================================================
