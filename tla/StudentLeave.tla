---------------------------- MODULE StudentLeave ----------------------------
(***************************************************************************)
(* Student leave and on-duty requests (src/backend/main.py 25728-26680):   *)
(* the student submits and may cancel, the advisor recommends or rejects,  *)
(* the HOD approves, rejects or refers back, the admin decides in bulk.    *)
(* No decision looks at the present statuses, so they come in any order.   *)
(* An approval then marks the days of the request in                       *)
(* student_academic_day_status, which also receives the holidays of the    *)
(* academic calendar.                                                      *)
(*                                                                         *)
(* The handlers run one at a time on the event loop, each statement in     *)
(* autocommit: todo holds the statements the running handler still has to  *)
(* execute.  The day upsert swallows its errors, so one that fails is      *)
(* skipped; a crash loses the whole rest.  The action history is a log     *)
(* nothing reads back and is left out.                                     *)
(***************************************************************************)
EXTENDS Integers, Sequences, SequencesExt

CONSTANTS
    Requests,
    Students,
    LeaveDays,      \* dates of the academic year
    NoRequest,      \* leave_request_id IS NULL
    StudentOf,
    DaysOf,         \* the dates start_date .. end_date, in order
    TypeOf,         \* day_type an approval declares
    CalendarOf,     \* what the calendar says of a date before the settings are asked:
                    \* "off" (a Sunday, outside the academic ranges, or a holiday of
                    \* the date overrides or of holiday_calendar), "working" (an
                    \* override), or "plain"
    MaxFaults       \* bound: crashes and failed statements

ExemptTypes == {"APPROVED_LEAVE", "APPROVED_OD", "APPROVED_MEDICAL"}

StudentRequests ==
    /\ StudentOf \in [Requests -> Students]
    /\ DaysOf \in [Requests -> Seq(LeaveDays)]
    /\ TypeOf \in [Requests -> ExemptTypes]
    /\ CalendarOf \in [LeaveDays -> {"off", "working", "plain"}]
    /\ NoRequest \notin Requests

FaultBound == MaxFaults \in Nat

VARIABLES
    mentor,     \* mentor_status, "NONE" before the INSERT
    hod,        \* hod_status
    admin,      \* admin_status
    credited,   \* requests with is_attendance_credited
    holidays,   \* holiday_overrides of the academic settings
    dayType,    \* student_academic_day_status.day_type, "NONE" without a row
    dayReq,     \* student_academic_day_status.leave_request_id
    todo,       \* statements of the running handler still to execute
    faults

status   == <<mentor, hod, admin, credited>>
dayTable == <<dayType, dayReq>>
leaveVars     == <<status, holidays, dayTable, todo, faults>>

MentorStatus == {"NONE", "PENDING", "RECOMMENDED", "REJECTED", "CANCELLED"}
HodStatus    == {"PENDING", "APPROVED", "REJECTED", "REFERRED_BACK", "CANCELLED"}
AdminStatus  == {"PENDING", "APPROVED", "REJECTED", "CANCELLED"}

\* Statements: a day to credit, a day to declare a holiday, and the turn of one
\* request in the admin's bulk action.
Credit(q, d)     == [do |-> "credit", q |-> q, day |-> d]
Declare(s, d)    == [do |-> "declare", student |-> s, day |-> d]
Decide(q, v)     == [do |-> "decide", q |-> q, verdict |-> v]

Statement ==
    {Credit(q, d) : q \in Requests, d \in LeaveDays}
      \cup {Declare(s, d) : s \in Students, d \in LeaveDays}
      \cup {Decide(q, v) : q \in Requests, v \in {"APPROVED", "REJECTED"}}

LeaveTypeOK ==
    /\ mentor \in [Requests -> MentorStatus]
    /\ hod \in [Requests -> HodStatus]
    /\ admin \in [Requests -> AdminStatus]
    /\ credited \in SUBSET Requests
    /\ holidays \in SUBSET LeaveDays
    /\ dayType \in [Students \X LeaveDays -> ExemptTypes \cup {"NONE", "HOLIDAY"}]
    /\ dayReq \in [Students \X LeaveDays -> Requests \cup {NoRequest}]
    /\ todo \in Seq(Statement)
    /\ faults \in 0 .. MaxFaults

LeaveInit ==
    /\ mentor = [q \in Requests |-> "NONE"]
    /\ hod = [q \in Requests |-> "PENDING"]
    /\ admin = [q \in Requests |-> "PENDING"]
    /\ credited = {}
    /\ holidays = {}
    /\ dayType = [w \in Students \X LeaveDays |-> "NONE"]
    /\ dayReq = [w \in Students \X LeaveDays |-> NoRequest]
    /\ todo = <<>>
    /\ faults = 0

-----------------------------------------------------------------------------
(***************************************************************************)
(* Endpoints: the guards and the first write of each.                      *)
(***************************************************************************)
Exists(q) == mentor[q] # "NONE"

\* _credit_student_attendance_v2: the days in order.
Crediting(q) == [i \in 1 .. Len(DaysOf[q]) |-> Credit(q, DaysOf[q][i])]

\* student_apply_leave_od.
Submit(q) ==
    /\ todo = <<>>
    /\ ~Exists(q)
    /\ mentor' = [mentor EXCEPT ![q] = "PENDING"]
    /\ UNCHANGED <<hod, admin, credited, holidays, dayTable, todo, faults>>

\* Slip: only the advisor's status is looked at.
CancelUnreviewed(q) ==
    /\ todo = <<>>
    /\ mentor[q] = "PENDING"
    /\ mentor' = [mentor EXCEPT ![q] = "CANCELLED"]
    /\ hod' = [hod EXCEPT ![q] = "CANCELLED"]
    /\ admin' = [admin EXCEPT ![q] = "CANCELLED"]
    /\ UNCHANGED <<credited, holidays, dayTable, todo, faults>>

\* cancel_student_leave_od_request: not once the advisor or the HOD has acted.
Cancel(q) ==
    /\ todo = <<>>
    /\ mentor[q] = "PENDING"
    /\ hod[q] = "PENDING"
    /\ mentor' = [mentor EXCEPT ![q] = "CANCELLED"]
    /\ hod' = [hod EXCEPT ![q] = "CANCELLED"]
    /\ admin' = [admin EXCEPT ![q] = "CANCELLED"]
    /\ UNCHANGED <<credited, holidays, dayTable, todo, faults>>

\* staff_review_student_leave_od: a rejection also rejects for the HOD.
Review(q, verdict) ==
    /\ todo = <<>>
    /\ Exists(q)
    /\ mentor' = [mentor EXCEPT ![q] = verdict]
    /\ hod' = [hod EXCEPT ![q] = IF verdict = "REJECTED" THEN "REJECTED" ELSE @]
    /\ UNCHANGED <<admin, credited, holidays, dayTable, todo, faults>>

\* Slip: the approval credits nothing.
HodApproveOnly(q) ==
    /\ todo = <<>>
    /\ Exists(q)
    /\ hod' = [hod EXCEPT ![q] = "APPROVED"]
    /\ credited' = credited \cup {q}
    /\ UNCHANGED <<mentor, admin, holidays, dayTable, todo, faults>>

\* hod_action_student_leave_od.
HodApprove(q) ==
    /\ todo = <<>>
    /\ Exists(q)
    /\ hod' = [hod EXCEPT ![q] = "APPROVED"]
    /\ credited' = credited \cup {q}
    /\ todo' = Crediting(q)
    /\ UNCHANGED <<mentor, admin, holidays, dayTable, faults>>

HodReject(q) ==
    /\ todo = <<>>
    /\ Exists(q)
    /\ hod' = [hod EXCEPT ![q] = "REJECTED"]
    /\ UNCHANGED <<mentor, admin, credited, holidays, dayTable, todo, faults>>

HodReferBack(q) ==
    /\ todo = <<>>
    /\ Exists(q)
    /\ hod' = [hod EXCEPT ![q] = "REFERRED_BACK"]
    /\ mentor' = [mentor EXCEPT ![q] = "PENDING"]
    /\ UNCHANGED <<admin, credited, holidays, dayTable, todo, faults>>

\* admin_action_student_leave_od: one listed request after another.
AdminAct(qs, verdict) ==
    /\ todo = <<>>
    /\ todo' = [i \in 1 .. Len(qs) |-> Decide(qs[i], verdict)]
    /\ UNCHANGED <<status, holidays, dayTable, faults>>

\* _sync_student_holiday_day_status for each holiday and active student.
Declaring(hs) ==
    LET all == SetToSeq(Students \X hs)
    IN  [i \in 1 .. Len(all) |-> Declare(all[i][1], all[i][2])]

\* save_academics_settings: the list replaces the old one, and its holidays
\* are written for every active student.
SaveCalendar(hs) ==
    /\ todo = <<>>
    /\ holidays' = hs
    /\ todo' = Declaring(hs)
    /\ UNCHANGED <<status, dayTable, faults>>

\* admin_sync_student_holiday_status.
SyncCalendar ==
    /\ todo = <<>>
    /\ todo' = Declaring(holidays)
    /\ UNCHANGED <<status, holidays, dayTable, faults>>

-----------------------------------------------------------------------------
(***************************************************************************)
(* The statements that follow.                                             *)
(***************************************************************************)
Due(kind) == todo # <<>> /\ Head(todo).do = kind

\* The turn of one request in the bulk action; an unknown id is skipped.
DecideOne ==
    /\ Due("decide")
    /\ LET q == Head(todo).q
           v == Head(todo).verdict
       IN  IF ~Exists(q)
           THEN todo' = Tail(todo) /\ UNCHANGED <<hod, admin, credited>>
           ELSE /\ admin' = [admin EXCEPT ![q] = v]
                /\ hod' = [hod EXCEPT ![q] = IF v = "APPROVED" THEN v ELSE @]
                /\ credited' = IF v = "APPROVED" THEN credited \cup {q} ELSE credited
                /\ todo' = (IF v = "APPROVED" THEN Crediting(q) ELSE <<>>) \o Tail(todo)
    /\ UNCHANGED <<mentor, holidays, dayTable, faults>>

\* _academic_status_for_date.
IsHoliday(d) == CalendarOf[d] = "off" \/ (CalendarOf[d] = "plain" /\ d \in holidays)

\* One date: holidays are skipped, any other row of the day is taken over.
CreditDay ==
    /\ Due("credit")
    /\ LET q == Head(todo).q
           w == <<StudentOf[q], Head(todo).day>>
       IN  IF IsHoliday(w[2]) THEN UNCHANGED dayTable
           ELSE /\ dayType' = [dayType EXCEPT ![w] = TypeOf[q]]
                /\ dayReq' = [dayReq EXCEPT ![w] = q]
    /\ todo' = Tail(todo)
    /\ UNCHANGED <<status, holidays, faults>>

\* _sync_student_holiday_day_status: COALESCE keeps the leave_request_id.
DeclareHoliday ==
    /\ Due("declare")
    /\ dayType' = [dayType EXCEPT ![<<Head(todo).student, Head(todo).day>>] = "HOLIDAY"]
    /\ todo' = Tail(todo)
    /\ UNCHANGED <<status, holidays, dayReq, faults>>

\* A swallowed error: the statement has no effect and the handler goes on.
StatementFails ==
    /\ todo # <<>>
    /\ Head(todo).do \in {"credit", "declare"}
    /\ faults < MaxFaults
    /\ faults' = faults + 1
    /\ todo' = Tail(todo)
    /\ UNCHANGED <<status, holidays, dayTable>>

\* The process dies, or the UPDATE of a bulk decision raises.
HandlerLost ==
    /\ todo # <<>>
    /\ faults < MaxFaults
    /\ faults' = faults + 1
    /\ todo' = <<>>
    /\ UNCHANGED <<status, holidays, dayTable>>

\* hod_get_pending_student_leave_od: what the HOD is shown.
PendingForHod == {q \in Requests : Exists(q) /\ hod[q] = "PENDING"}

Decision(q) ==
    \/ Submit(q) \/ Cancel(q)
    \/ \E v \in {"RECOMMENDED", "REJECTED"} : Review(q, v)
    \/ HodApprove(q) \/ HodReject(q) \/ HodReferBack(q)

Execute == DecideOne \/ CreditDay \/ DeclareHoliday

LeaveNext ==
    \/ \E q \in Requests : Decision(q)
    \/ \E q, r \in Requests, v \in {"APPROVED", "REJECTED"} :
          AdminAct(<<q>>, v) \/ (q # r /\ AdminAct(<<q, r>>, v))
    \/ \E hs \in SUBSET LeaveDays : SaveCalendar(hs)
    \/ SyncCalendar
    \/ Execute
    \/ StatementFails \/ HandlerLost

\* A running handler goes on; nobody has to decide anything.
Fairness == WF_leaveVars(Execute)

LeaveSpec     == LeaveInit /\ [][LeaveNext]_leaveVars
LeaveFairSpec == LeaveSpec /\ Fairness

-----------------------------------------------------------------------------
(***************************************************************************)
(* Properties.                                                             *)
(***************************************************************************)
\* A request its student cancelled has left no trace in the attendance: it
\* was never credited, in whatever order advisor, HOD and admin have acted
\* before, and a bulk decision that comes later un-cancels it first.
CancelledUncredited ==
    \A q \in Requests : hod[q] = "CANCELLED" =>
        /\ q \notin credited
        /\ \A w \in Students \X LeaveDays : dayReq[w] # q

\* A day that exempts a student as leave points to a request of that student,
\* of that type, covering that day, which is flagged as credited, whatever
\* failed on the way and however leaves and holidays replaced each other.
LeaveDayTraced ==
    \A w \in Students \X LeaveDays : dayType[w] \in ExemptTypes =>
        \E q \in credited :
            /\ dayReq[w] = q
            /\ StudentOf[q] = w[1]
            /\ TypeOf[q] = dayType[w]
            /\ \E i \in DOMAIN DaysOf[q] : DaysOf[q][i] = w[2]

\* Leave leaves the right traces.
LeaveTraced == CancelledUncredited /\ LeaveDayTraced

\* An approval reaches every day of the leave on which there are classes, unless a
\* statement failed: a day without classes has no row, or that of a holiday.
Reached(q) ==
    \/ faults > 0
    \/ \A i \in DOMAIN DaysOf[q] :
          \/ CalendarOf[DaysOf[q][i]] = "off"
          \/ dayType[<<StudentOf[q], DaysOf[q][i]>>] # "NONE"

\* The timeline shows a request as PENDING_HOD once it is recommended, and
\* hod_get_pending_student_leave_od fetches those "pending HOD decision".
RecommendedIsListed ==
    \A q \in Requests :
        /\ mentor[q] = "RECOMMENDED"
        /\ hod[q] \notin {"APPROVED", "REJECTED", "CANCELLED"}
        => q \in PendingForHod
=============================================================================
