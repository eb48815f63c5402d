---------------------------- MODULE StudentGate ----------------------------
(***************************************************************************)
(* The student's period gate of src/backend/main.py on one date: what the  *)
(* polled status shows for each scheduled period, and what tapping "Mark   *)
(* Attendance" does.  The endpoint that marks takes no period: it marks    *)
(* the class's newest session open for check-in.  Lecturers open and close *)
(* sessions and override marks, an approved leave is credited, a day off   *)
(* is declared.                                                            *)
(*                                                                         *)
(* student_mark_attendance looks at the day off, then awaits the request's *)
(* body (Tap), and from there on keeps the event loop until it returns.    *)
(* The closer, which may also run in a pool thread, is one step here; its  *)
(* interleavings are those of ClassSession.                                *)
(***************************************************************************)
EXTENDS Integers, FiniteSets

CONSTANTS
    Scheduled,   \* the periods of the student's timetable on this date
    NSessions,   \* number of session rows that can be created
    FirstOf,     \* first and last period of each session
    LastOf,
    MaxOps       \* bound: overrides, approvals, declarations, partly failed marks

Sessions == 1 .. NSessions

ASSUME GateAssumption ==
    /\ Scheduled \subseteq Nat \ {0}
    /\ NSessions \in Nat /\ MaxOps \in Nat
    /\ FirstOf \in [Sessions -> Nat] /\ LastOf \in [Sessions -> Nat]
    /\ \A s \in Sessions : /\ FirstOf[s] <= LastOf[s]
                           /\ FirstOf[s] .. LastOf[s] \subseteq Scheduled

VARIABLES
    sess,     \* class_attendance_sessions.status, "none" before the INSERT
    rows,     \* student_attendance: the student's row for a period
    off,      \* student_academic_day_status.day_type
    daily,    \* daily_attendance_status: its two halves, "none" without one
    audit,    \* whether the attendance table has a row of the student
    begun,    \* period of the tap whose request is under way, 0 without one
    result,   \* what the last request came to
    ops,
    unsaved   \* history: periods a mark was answered for and could not write

vars == <<sess, rows, off, daily, audit, begun, result, ops, unsaved>>

Statuses == {"none", "checkin_open", "checkin_closed", "checkout_open", "closed"}
DayTypes == {"NORMAL", "COLLEGE_HOLIDAY", "APPROVED_LEAVE", "APPROVED_OD",
             "APPROVED_MEDICAL"}
Labels   == {"none", "Present", "Absent", "On-Duty", "Leave", "On Duty",
             "Medical Leave", "Casual Leave"}
Row      == [st : Labels, sid : 0 .. NSessions,
             by : {"nobody", "self", "staff"}]
NoRow    == [st |-> "none", sid |-> 0, by |-> "nobody"]

FnCutoff     == 4    \* fn_cutoff, and first_pnum <= 4
CreditCutoff == 3    \* session_half == "FN" and pnum > 3
HalfOf(p)    == IF p <= FnCutoff THEN "FN" ELSE "AN"
PeriodsOf(s) == FirstOf[s] .. LastOf[s]
Newest(S)    == IF S = {} THEN 0 ELSE CHOOSE s \in S : \A u \in S : u <= s

TypeOK ==
    /\ sess \in [Sessions -> Statuses]
    /\ rows \in [Scheduled -> Row]
    /\ off \in DayTypes
    /\ daily \in [{"FN", "AN"} -> {"none", "Present"}]
    /\ audit \in BOOLEAN
    /\ begun \in Scheduled \cup {0}
    /\ result \in {"none", "marked", "locked", "again", "failed"}
    /\ ops \in 0 .. MaxOps /\ unsaved \subseteq Scheduled

Init ==
    /\ sess = [s \in Sessions |-> "none"]
    /\ rows = [p \in Scheduled |-> NoRow]
    /\ off = "NORMAL"
    /\ daily = [h \in {"FN", "AN"} |-> "none"]
    /\ audit = FALSE
    /\ begun = 0
    /\ result = "none"
    /\ ops = 0 /\ unsaved = {}

-----------------------------------------------------------------------------
(***************************************************************************)
(* get_student_today_period_status                                         *)
(***************************************************************************)
\* active_sess_by_period: the newest session over the period, closed or not.
SessionOf(p) ==
    Newest({s \in Sessions : sess[s] # "none" /\ p \in PeriodsOf(s)})

SessionIn(p, S) == SessionOf(p) # 0 /\ sess[SessionOf(p)] \in S
GateOpen(p)     == SessionIn(p, {"checkin_open"})
IsOff           == off # "NORMAL"

OffLabel ==
    CASE off = "APPROVED_OD"      -> "On Duty"
      [] off = "APPROVED_MEDICAL" -> "Medical Leave"
      [] off = "APPROVED_LEAVE"   -> "Leave"
      [] OTHER                    -> "Holiday"

AttStatus(p) ==
    CASE rows[p].st # "none"        -> rows[p].st
      [] rows[p].st = "none" /\ IsOff -> OffLabel
      [] OTHER -> IF SessionIn(p, {"closed"}) THEN "Absent" ELSE "Not Marked"

AlreadyMarked(p) == rows[p].st # "none" \/ IsOff

CanMark(p) == GateOpen(p) /\ ~AlreadyMarked(p)

Button(p) ==
    IF AlreadyMarked(p)
    THEN CASE AttStatus(p) = "Present"                -> "marked_present"
           [] AttStatus(p) \in {"On Duty", "On-Duty"} -> "on_duty"
           [] AttStatus(p) \in {"Leave", "Medical Leave", "Casual Leave"} -> "on_leave"
           [] OTHER                                   -> "marked_absent"
    ELSE CASE GateOpen(p)                                 -> "active_open"
           [] SessionIn(p, {"closed", "checkin_closed"})  -> "session_closed"
           [] OTHER                                       -> "waiting_for_staff"

-----------------------------------------------------------------------------
(***************************************************************************)
(* _derive_fn_an_from_periods: what a half adds up to.  Values are counted *)
(* in 24ths of a day; the code rounds them to two decimals.                *)
(***************************************************************************)
Attended   == {"Present", "On Duty", "On-Duty", "Medical Leave", "Leave",
               "Casual Leave"}
Undecided  == {"Not Marked", "Holiday", "College Holiday"}
OfHalf(h)  == {p \in Scheduled : HalfOf(p) = h}

HalfStats(h, st) ==
    LET all  == OfHalf(h)
        eff  == Cardinality({p \in all : st[p] \in Attended})
        full == Cardinality(all)
    IN  [status |->
           CASE full = 0 -> "No Sessions"
             [] full > 0 /\ eff = full -> "Present"
             [] full > 0 /\ \A p \in all : st[p] = "Absent" -> "Absent"
             [] eff > 0 /\ eff < full ->
                  IF 2 * eff >= full THEN "Present" ELSE "Partial"
             [] OTHER -> IF \E p \in all : st[p] \in Undecided THEN "Pending"
                                                               ELSE "Absent",
         value  |-> IF full = 0 THEN 0 ELSE (12 * eff) \div full]

-----------------------------------------------------------------------------
(***************************************************************************)
(* The lecturer's and the office's side.                                   *)
(***************************************************************************)
Op == ops < MaxOps /\ ops' = ops + 1

\* start_checkin_session: no open session of the class over these periods.
StartCheckin(s) ==
    /\ sess[s] = "none"
    /\ \A u \in Sessions : u < s => sess[u] # "none"
    /\ \A u \in Sessions : PeriodsOf(u) \cap PeriodsOf(s) # {}
                             => sess[u] \notin {"checkin_open", "checkout_open"}
    /\ sess' = [sess EXCEPT ![s] = "checkin_open"]
    /\ UNCHANGED <<rows, off, daily, audit, begun, result, ops, unsaved>>

CloseCheckin(s) ==
    /\ sess[s] = "checkin_open"
    /\ sess' = [sess EXCEPT ![s] = "checkin_closed"]
    /\ UNCHANGED <<rows, off, daily, audit, begun, result, ops, unsaved>>

StartCheckout(s) ==
    /\ sess[s] \in {"checkin_open", "checkin_closed"}
    /\ sess' = [sess EXCEPT ![s] = "checkout_open"]
    /\ UNCHANGED <<rows, off, daily, audit, begun, result, ops, unsaved>>

Seen(s) == \E p \in Scheduled : rows[p].st = "Present" /\ rows[p].sid = s

\* _execute_close_class_session, for this student: absent in every period of
\* the session unless present in it or excused for the day.
CloseSession(s) ==
    /\ sess[s] \notin {"none", "closed"}
    /\ sess' = [sess EXCEPT ![s] = "closed"]
    /\ rows' = [p \in Scheduled |->
                  IF p \in PeriodsOf(s) /\ ~Seen(s) /\ ~IsOff
                  THEN [st |-> "Absent", sid |-> s, by |-> "staff"] ELSE rows[p]]
    /\ UNCHANGED <<off, daily, audit, begun, result, ops, unsaved>>

\* session_manual_override: "Pending" only deletes.
Override(s, st) ==
    /\ sess[s] # "none"
    /\ Op
    /\ rows' = [p \in Scheduled |->
                  CASE p \notin PeriodsOf(s) -> rows[p]
                    [] p \in PeriodsOf(s) /\ st = "Pending" -> NoRow
                    [] OTHER -> [st |-> st, sid |-> s, by |-> "staff"]]
    /\ UNCHANGED <<sess, off, daily, audit, begun, result, unsaved>>

CreditLabel == [APPROVED_MEDICAL |-> "Medical Leave",
                APPROVED_LEAVE |-> "Casual Leave", APPROVED_OD |-> "On Duty"]

Credited(half) == {p \in Scheduled : CASE half = "FN" -> p <= CreditCutoff
                                       [] half = "AN" -> p > CreditCutoff
                                       [] OTHER -> TRUE}

\* _credit_student_attendance_v2: the periods of the half are overwritten (the
\* row keeps its session), and the whole day becomes a day of leave.
Approve(type, half) ==
    /\ Op
    /\ rows' = [p \in Scheduled |->
                  IF p \in Credited(half)
                  THEN [rows[p] EXCEPT !.st = CreditLabel[type], !.by = "staff"]
                  ELSE rows[p]]
    /\ off' = type
    /\ UNCHANGED <<sess, daily, audit, begun, result, unsaved>>

\* _upsert_student_day_status, for a day off declared to the student's batch.
DeclareOff ==
    /\ Op
    /\ off' = "COLLEGE_HOLIDAY"
    /\ UNCHANGED <<sess, rows, daily, audit, begun, result, unsaved>>

-----------------------------------------------------------------------------
(***************************************************************************)
(* student_mark_attendance                                                 *)
(***************************************************************************)
\* The app enables the button of a period it may mark; the request is past
\* the day-off check when it awaits the body.
Tap(p) ==
    /\ begun = 0
    /\ CanMark(p)
    /\ ~IsOff
    /\ begun' = p
    /\ result' = "none"
    /\ UNCHANGED <<sess, rows, off, daily, audit, ops, unsaved>>

Answer(r) == begun # 0 /\ begun' = 0 /\ result' = r

\* Slip: the newest session of the class, whether open or not.
TargetNewest == LET last == Newest({s \in Sessions : sess[s] # "none"})
                IN  IF last # 0 /\ sess[last] = "checkin_open" THEN last ELSE 0

\* ORDER BY created_at DESC LIMIT 1
Target == Newest({s \in Sessions : sess[s] = "checkin_open"})

Duplicate ==
    \/ rows[FirstOf[Target]].st = "Present"
    \/ Seen(Target)

\* No image in the request.
MissingImage ==
    /\ Answer("failed")
    /\ UNCHANGED <<sess, rows, off, daily, audit, ops, unsaved>>

\* The coordinates lie outside the campus.
OutsideCampus ==
    /\ Answer("failed")
    /\ UNCHANGED <<sess, rows, off, daily, audit, ops, unsaved>>

\* "Attendance is locked"
Locked ==
    /\ Target = 0
    /\ Answer("locked")
    /\ UNCHANGED <<sess, rows, off, daily, audit, ops, unsaved>>

\* The session requires the campus network.
WrongNetwork ==
    /\ Target # 0
    /\ Answer("failed")
    /\ UNCHANGED <<sess, rows, off, daily, audit, ops, unsaved>>

\* "You have already marked attendance"
MarkedBefore ==
    /\ Target # 0 /\ Duplicate
    /\ Answer("again")
    /\ UNCHANGED <<sess, rows, off, daily, audit, ops, unsaved>>

\* No face, no liveness, no enrolled face, or too little similarity.
FaceRefused ==
    /\ Target # 0 /\ ~Duplicate
    /\ Answer("failed")
    /\ UNCHANGED <<sess, rows, off, daily, audit, ops, unsaved>>

\* "for p_str in class_period_nums.split(',')": an upsert for each period.
RowsMarked(S) ==
    [p \in Scheduled |-> IF p \in S
                         THEN [st |-> "Present", sid |-> Target, by |-> "self"]
                         ELSE rows[p]]

\* Slip: every mark makes the whole day present.
MarkBothHalves ==
    /\ Target # 0 /\ ~Duplicate
    /\ Answer("marked")
    /\ rows' = RowsMarked(PeriodsOf(Target))
    /\ daily' = [h \in {"FN", "AN"} |-> "Present"]
    /\ audit' = TRUE
    /\ UNCHANGED <<sess, off, ops, unsaved>>

\* session_type: the half of the session's first period.
DailyMarked == [daily EXCEPT ![HalfOf(FirstOf[Target])] = "Present"]

Mark ==
    /\ Target # 0 /\ ~Duplicate
    /\ Answer("marked")
    /\ rows' = RowsMarked(PeriodsOf(Target))
    /\ daily' = DailyMarked
    /\ audit' = TRUE
    /\ UNCHANGED <<sess, off, ops, unsaved>>

\* Statements fail: the upsert of a period and the UPDATE tried instead, the upsert
\* of the day, the INSERT of the audit.  Each is only printed, the others are
\* written, and the answer is the same.
MarkPartly ==
    /\ Target # 0 /\ ~Duplicate
    /\ Op
    /\ Answer("marked")
    /\ \E S \in SUBSET PeriodsOf(Target) :
         rows' = RowsMarked(PeriodsOf(Target) \ S) /\ unsaved' = unsaved \cup S
    /\ daily' \in {daily, DailyMarked}
    /\ audit' \in {audit, TRUE}
    /\ UNCHANGED <<sess, off>>

-----------------------------------------------------------------------------
Next ==
    \/ \E s \in Sessions : \/ StartCheckin(s) \/ CloseCheckin(s)
                           \/ StartCheckout(s) \/ CloseSession(s)
    \/ \E s \in Sessions, st \in {"Present", "Absent", "On-Duty", "Leave", "Pending"} :
         Override(s, st)
    \/ \E type \in DOMAIN CreditLabel, half \in {"FN", "AN", "FULL_DAY"} :
         Approve(type, half)
    \/ DeclareOff
    \/ \E p \in Scheduled : Tap(p)
    \/ MissingImage \/ OutsideCampus \/ Locked \/ WrongNetwork
    \/ MarkedBefore \/ FaceRefused
    \/ Mark \/ MarkPartly

Spec == Init /\ [][Next]_vars

-----------------------------------------------------------------------------
(***************************************************************************)
(* Properties                                                              *)
(***************************************************************************)
IsOpen(s) == sess[s] = "checkin_open"

\* While one session of the class is open for check-in, its first period's
\* button keeps what it says: unless a check of the request fails or a mark of
\* that period once could not be written, the tap of a student with no mark
\* there ends with the period Present
\* (get_student_today_period_status and student_mark_attendance agree).
SoleTapMarks ==
    (/\ begun # 0 /\ begun' = 0 /\ result' # "failed"
     /\ off = "NORMAL" /\ rows[begun].st = "none" /\ begun \notin unsaved'
     /\ \E s \in Sessions : /\ IsOpen(s) /\ begun = FirstOf[s]
                             /\ \A u \in Sessions \ {s} : ~IsOpen(u))
    => rows'[begun].st = "Present"

\* A half of daily_attendance_status becomes Present only together with a
\* student's own mark of a period of that half, written or failed to be.
HalfEarned ==
    [][\A h \in {"FN", "AN"} : daily'[h] # daily[h] =>
         /\ begun # 0 /\ result' = "marked"
         /\ \E p \in OfHalf(h) : \/ rows'[p].by = "self" /\ rows'[p] # rows[p]
                                 \/ p \in unsaved']_vars

\* "Session started by faculty for Period N. Tap to mark attendance.": a tap
\* marks the session of the tapped period or nothing.
TapOwn ==
    [][\A p \in Scheduled : rows'[p].by = "self" /\ rows'[p] # rows[p]
         => begun \in PeriodsOf(rows'[p].sid)]_vars

\* "Attendance marking is not required today ... automatically credited as
\* Leave": a student on a day off marks nothing.
DayOffKept ==
    [][\A p \in Scheduled : rows'[p].by = "self" /\ rows'[p] # rows[p]
         => off = "NORMAL"]_vars

\* "Period closed without check-in.": the button says so of no period whose
\* newest session is open for check-in.
ClosedReason == \A p \in Scheduled : Button(p) = "marked_absent" => ~GateOpen(p)
=============================================================================
