--------------------------- MODULE StudentReport ---------------------------
(***************************************************************************)
(* What the student endpoints of src/backend/main.py report of the date    *)
(* StudentGate models: the summary, the reply to a mark, the history and   *)
(* the label of the day.  Each counts the same rows with rules of its own. *)
(***************************************************************************)
EXTENDS StudentGate

Count(S) == Cardinality({p \in Scheduled : rows[p].st \in S})

-----------------------------------------------------------------------------
(***************************************************************************)
(* get_student_attendance_summary                                          *)
(***************************************************************************)
SummaryOd      == {"On-Duty", "On Duty"}
SummaryMedical == {"Medical Leave"}
SummaryLeave   == {"Leave", "Casual Leave"}

SummaryAttended ==
    Count({"Present"} \cup SummaryOd \cup SummaryMedical \cup SummaryLeave)

SummaryAbsent == Count({"Absent"})
SummaryTotal  == SummaryAttended + SummaryAbsent

\* today_periods: the status of a period in the summary.
SummaryStatus(p) ==
    CASE rows[p].st # "none"         -> rows[p].st
      [] rows[p].st = "none" /\ IsOff ->
           IF OffLabel = "Holiday" THEN "College Holiday" ELSE OffLabel
      [] OTHER -> IF SessionIn(p, {"closed"}) THEN "Absent" ELSE "Not Marked"

TodayStatus ==
    LET all(S)  == \A p \in Scheduled : SummaryStatus(p) \in S
        some(S) == \E p \in Scheduled : SummaryStatus(p) \in S
    IN  IF IsOff
        THEN CASE off = "APPROVED_LEAVE" -> "On Leave"
               [] off = "APPROVED_OD"    -> "On Duty"
               [] OTHER                  -> "College Holiday"
        ELSE CASE some({"Present"}) -> "Present"
               [] ~some({"Present"}) /\ all({"Absent"}) -> "Absent"
               [] ~some({"Present"}) /\ some({"On Duty", "Medical Leave"}) -> "On Duty"
               [] OTHER -> IF some({"Leave"}) THEN "On Leave" ELSE "Not Marked"

\* get_student_academic_day_status
DayLabel ==
    CASE off = "COLLEGE_HOLIDAY"  -> "College Holiday"
      [] off = "APPROVED_LEAVE"   -> "On Approved Leave"
      [] off = "APPROVED_OD"      -> "On Approved On-Duty"
      [] off = "APPROVED_MEDICAL" -> "On Medical Leave"
      [] OTHER                    -> "Working Day"

-----------------------------------------------------------------------------
(***************************************************************************)
(* "Recalculate Attendance Summary" of student_mark_attendance: none of    *)
(* the labels of credited leave is counted.                                *)
(***************************************************************************)
ReplyAttended == Count({"Present", "On-Duty"})
ReplyTotal    == ReplyAttended + Count({"Absent"})

-----------------------------------------------------------------------------
(***************************************************************************)
(* get_student_attendance_history: the log entries of the date, by their   *)
(* key (a period, or a half); each source adds the keys not seen before.   *)
(***************************************************************************)
Normalised(st) ==
    CASE st \in {"On-Duty", "On Duty"}    -> "On-Duty (OD)"
      [] st = "Medical Leave"            -> "Medical Leave"
      [] st \in {"Leave", "Casual Leave"} -> "Casual / Emergency Leave"
      [] OTHER                           -> st

Entry(session, period, st) ==
    [session |-> session, period |-> period, status |-> st]

\* Slip: one entry for a half of the day.
RowEntriesByHalf == {Entry(HalfOf(p), 0, Normalised(rows[p].st)) :
                       p \in {q \in Scheduled : rows[q].st # "none"}}

\* 1. student_attendance
RowEntries == {Entry("Period", p, Normalised(rows[p].st)) :
                 p \in {q \in Scheduled : rows[q].st # "none"}}

HasDaily == \E h \in {"FN", "AN"} : daily[h] = "Present"

\* 2. daily_attendance_status: its first half falls back to the day's status.
DailyEntries ==
    (IF HasDaily THEN {Entry("FN", 0, "Present")} ELSE {})
    \cup (IF daily["AN"] = "Present" THEN {Entry("AN", 0, "Present")} ELSE {})

\* 3. attendance
AuditEntries == IF audit /\ ~HasDaily THEN {Entry("FN", 0, "Present")} ELSE {}

\* 4. student_academic_day_status
OffEntries ==
    IF ~IsOff \/ HasDaily \/ audit THEN {}
    ELSE {Entry("FN", 0, CASE off = "APPROVED_OD"      -> "On-Duty (OD)"
                        [] off = "APPROVED_MEDICAL" -> "Medical Leave"
                        [] off = "COLLEGE_HOLIDAY"  -> "College Holiday"
                        [] OTHER                    -> "Casual / Emergency Leave")}

History == RowEntries \cup DailyEntries \cup AuditEntries \cup OffEntries

Listed(S) == Cardinality({e \in History : e.status \in S})

\* The history's summary: leave_cnt matches "Leave" in any label.
HistoryAttended ==
    Listed({"Present"}) + Listed({"On-Duty (OD)"}) + Listed({"Medical Leave"})
    + Listed({"Medical Leave", "Casual / Emergency Leave"})
    + Listed({"College Holiday"})
HistoryTotal == Cardinality(History)

-----------------------------------------------------------------------------
(***************************************************************************)
(* Properties                                                              *)
(***************************************************************************)
\* The history lists every period the summary counts, attended or absent,
\* and no other (get_student_attendance_history and _summary).
SameRecords ==
    /\ Cardinality({e \in History : e.session = "Period"}) = SummaryTotal
    /\ Listed({"Absent"}) = SummaryAbsent

\* The halves the polled status and the summary derive are the same, though
\* each labels the periods by itself.
SameHalves ==
    \A h \in {"FN", "AN"} : HalfStats(h, [p \in Scheduled |-> AttStatus(p)])
                            = HalfStats(h, [p \in Scheduled |-> SummaryStatus(p)])

\* What a student is shown counts every period once: the history lists what the
\* summary counts, and every view derives the same halves.
CountedOnce == TypeOK /\ SameRecords /\ SameHalves

\* "Fetch 100% accurate, consolidated chronological attendance logs": no more
\* sessions attended than listed.
AtMostAll == HistoryAttended <= HistoryTotal

\* "Recalculate Attendance Summary": the reply to a mark gives the percentage
\* the summary gives.
SamePercentage ==
    [][begun # 0 /\ result' = "marked" /\ rows' # rows
         => (ReplyAttended * SummaryTotal = SummaryAttended * ReplyTotal)']_vars

\* "APPROVED_MEDICAL": "On Medical Leave": today's status is a holiday only on
\* days whose label is.
HolidayOnly == TodayStatus = "College Holiday" => DayLabel = "College Holiday"
=============================================================================
