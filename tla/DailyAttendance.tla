-------------------------- MODULE DailyAttendance --------------------------
(***************************************************************************)
(* The daily attendance of staff on one date (src/backend/main.py):        *)
(* a scan is checked on the event loop, runs in a pool thread under the    *)
(* person's semaphore, and writes the scan, the session row of its half    *)
(* and the row of daily_attendance_status.  The event loop meanwhile runs  *)
(* the absence marker of the two half days, the repair of overdue halves,  *)
(* the admin's synchronisation, leave approvals and the geofence.          *)
(*                                                                         *)
(* Every statement is a step; job[u] is the scan of a person that is       *)
(* running, loop what the event loop is executing.  The marker's SELECT    *)
(* and its UPDATEs are apart, so loop carries the rows as they were read.  *)
(***************************************************************************)
EXTENDS Naturals, FiniteSets

CONSTANTS
    Users,
    NoRow,          \* no row of daily_attendance_status for the date
    OtherStaff,     \* those who mark through other_staff_mark_attendance
    SlotsAt,        \* enabled slots per phase, with their extra minutes
    HalfDay,        \* _get_half_day_settings: half_day_enabled
    RequireFnOut,   \* require_fn_check_out
    HolidayFrom,    \* the phase from which the calendar declares a holiday, or 4
    LeaveBy,        \* who grants leave: "admin", "service" or nobody
    Geofence,       \* location tracking may mark absent
    AdminSyncs,     \* admin_sync_daily_attendance_status is used
    MaxScans,       \* bound: scans logged per person, slot and half of the day
    MaxCrashes      \* bound: restarts of the process

Halves == {"first", "second"}
Slots  == [type : {"check_in", "check_out"}, half : Halves \cup {"day"}]

\* Phases of the date: before first_half_end, before second_half_end, after it,
\* and the next day.
Phases == 0 .. 3

HalfStatus == {"NULL", "Pending", "Present", "Absent", "Leave"}
DayStatus  == {"Present", "HalfFN", "HalfAN", "Absent", "Pending", "Leave",
               "HalfLeave", "Holiday"}
DayRow == [st : DayStatus, fh : HalfStatus, sh : HalfStatus, fhIn : BOOLEAN,
           fhOut : BOOLEAN, shIn : BOOLEAN, shOut : BOOLEAN, in : BOOLEAN,
           out : BOOLEAN, leave : BOOLEAN]

DailySettings ==
    /\ OtherStaff \subseteq Users
    /\ SlotsAt \in [Phases -> SUBSET Slots]
    /\ SlotsAt[3] = {}
    \* half_day_enabled holds whenever an enabled slot is of a half
    /\ HalfDay \/ \A p \in Phases : \A s \in SlotsAt[p] : s.half = "day"
    /\ NoRow \notin DayRow
    /\ HalfDay \in BOOLEAN /\ RequireFnOut \in BOOLEAN /\ HolidayFrom \in Nat
    /\ Geofence \in BOOLEAN /\ AdminSyncs \in BOOLEAN
    /\ LeaveBy \in {"admin", "service", "nobody"}
    /\ MaxScans \in Nat /\ MaxCrashes \in Nat

VARIABLES
    phase,
    row,        \* daily_attendance_status, NoRow without one
    morning,    \* people with a row in morning_attendance
    evening,    \* people with a row in evening_attendance
    scans,      \* scans logged: number per person and [slot, half of the time]
    job,        \* the scan running in a pool thread
    loop,       \* what the event loop is executing ("approve" in Correction)
    marked,     \* processed_sessions of the absence marker
    crashes,
    granted,    \* history: people granted leave for the whole day
    fenced      \* history: people marked absent by the geofence

tables == <<row, morning, evening, scans>>
dayVars   == <<phase, tables, job, loop, marked, crashes, granted, fenced>>

Idle == [pc |-> "idle"]
Scanned == [slot : Slots, time : Halves]

\* A scan in its thread, with the session rows once it has read them.
Seen == {"Present", "NULL"}
JobRecord ==
    [pc : {"check", "log"}, slot : Slots]
      \cup IF HalfDay
           THEN [pc : {"session"}, slot : Slots]
                  \cup [pc : {"read"}, slot : Slots, half : Halves]
                  \cup [pc : {"sync"}, slot : Slots, half : Halves, fh : Seen, sh : Seen]
           ELSE [pc : {"sync"}, slot : Slots]

\* What the event loop executes, with the rows as it has read them.
Read == [u : Users, fh : HalfStatus, sh : HalfStatus]
StageLists == {<<"past">>, <<"first", "second">>, <<"first">>, <<"second">>}
LoopRecord ==
    [pc : {"absences"}, half : Halves, repair : BOOLEAN, todo : SUBSET Read]
      \cup [pc : {"missing"}, half : Halves, repair : BOOLEAN, todo : SUBSET Users]
      \cup [pc : {"overdue"}, stages : StageLists, todo : SUBSET Read]
      \cup [pc : {"sync"}, u : Users, fh : Seen, sh : Seen]
      \cup [pc : {"half"}, u : Users, half : Halves, fh : HalfStatus \cup {"none"},
            sh : HalfStatus \cup {"none"}]
      \cup [pc : {"approve"}, u : Users, i : Nat]

\* A row INSERTed without halves gets the column defaults.
Fresh(st) == [st |-> st, fh |-> "Pending", sh |-> "Pending", fhIn |-> FALSE,
              fhOut |-> FALSE, shIn |-> FALSE, shOut |-> FALSE, in |-> FALSE,
              out |-> FALSE, leave |-> FALSE]

DayTypeOK ==
    /\ phase \in Phases
    /\ row \in [Users -> DayRow \cup {NoRow}]
    /\ morning \subseteq Users /\ evening \subseteq Users
    /\ scans \in [Users -> [Scanned -> 0 .. MaxScans]]
    /\ job \in [Users -> {Idle} \cup JobRecord]
    /\ loop \in {Idle} \cup LoopRecord
    /\ marked \subseteq Halves
    /\ crashes \in 0 .. MaxCrashes
    /\ granted \subseteq Users /\ fenced \subseteq Users

DayInit ==
    /\ phase = 0
    /\ row = [u \in Users |-> NoRow]
    /\ morning = {} /\ evening = {}
    /\ scans = [u \in Users |-> [c \in Scanned |-> 0]]
    /\ job = [u \in Users |-> Idle]
    /\ loop = Idle
    /\ marked = {}
    /\ crashes = 0
    /\ granted = {} /\ fenced = {}

-----------------------------------------------------------------------------
(***************************************************************************)
(* What the handlers compute.                                              *)
(***************************************************************************)
\* _compute_daily_status; fhPassed, shPassed: the windows are over.
Resolved(h, passed) ==
    IF h \in {"NULL", "Pending"} THEN (IF passed THEN "Absent" ELSE "Pending") ELSE h

DailyStatus(first, second, fhPassed, shPassed) ==
    LET fh == Resolved(first, fhPassed)
        sh == Resolved(second, shPassed)
    IN  CASE fh = "Present" /\ sh = "Present" -> "Present"
          [] fh = "Present" /\ sh # "Present" /\ (sh = "Absent" \/ shPassed) -> "HalfFN"
          [] sh = "Present" /\ fh # "Present" /\ (fh = "Absent" \/ fhPassed) -> "HalfAN"
          [] fh = "Present" /\ sh = "Pending" -> "HalfFN"
          [] fh = "Pending" /\ sh = "Present" -> "HalfAN"
          [] "Leave" \in {fh, sh} -> "Leave"
          [] "Leave" \notin {fh, sh} /\ {fh, sh} = {"Absent"} -> "Absent"
          [] OTHER -> "Pending"

StatusNow(fh, sh) == DailyStatus(fh, sh, phase >= 1, phase >= 2)

\* Rows the repair of overdue halves leaves alone.
OnLeave(r) == r.st = "Leave" \/ r.leave

HasIn(u, half) ==
    IF half = "first" THEN u \in morning \/ (row[u] # NoRow /\ row[u].fhIn)
    ELSE u \in evening \/ (row[u] # NoRow /\ row[u].shIn)

Logged(u, type) == \E c \in Scanned : c.slot.type = type /\ scans[u][c] > 0

\* The duplicate and prerequisite checks of mark_attendance_secure, repeated by
\* _secure_verify_and_mark.
Permitted(u, slot) ==
    LET r == IF row[u] = NoRow THEN Fresh("Pending") ELSE row[u] IN
    CASE slot.half = "first" /\ slot.type = "check_in" -> ~HasIn(u, "first")
      [] slot.half = "first" /\ slot.type = "check_out" ->
            RequireFnOut /\ HasIn(u, "first") /\ ~r.fhOut
      [] slot.half = "second" /\ slot.type = "check_in" -> ~HasIn(u, "second")
      [] slot.half = "second" /\ slot.type = "check_out" ->
            HasIn(u, "second") /\ ~r.shOut
      [] slot.half = "day" /\ slot.type = "check_in" -> ~r.in /\ ~Logged(u, "check_in")
      [] OTHER -> /\ r.in \/ HasIn(u, "first") \/ Logged(u, "check_in")
                  /\ ~r.out /\ ~Logged(u, "check_out")

\* The slot taken when a check-in in its extra minutes meets a check-out.
Chosen(u) ==
    LET open == SlotsAt[phase]
        ins  == {s \in open : s.type = "check_in"}
        outs == {s \in open : s.type = "check_out"}
        r    == row[u]
        done == r # NoRow /\ \E s \in ins :
                   CASE s.half = "first" -> r.fhIn
                     [] s.half = "second" -> r.shIn
                     [] OTHER -> r.in
    IN  IF Cardinality(open) <= 1 THEN open
        ELSE IF done /\ outs # {} THEN outs ELSE IF ins # {} THEN ins ELSE open

\* _academic_status_for_date.
Holiday == phase >= HolidayFrom

TimeHalf == IF phase = 0 THEN "first" ELSE "second"
EffectiveHalf(slot) == IF slot.half = "day" THEN TimeHalf ELSE slot.half

-----------------------------------------------------------------------------
(***************************************************************************)
(* A scan.                                                                 *)
(***************************************************************************)
\* mark_attendance_secure up to the semaphore (a second request waits there,
\* so it is not started while the first runs).
RequestScan(u) ==
    /\ ~Holiday /\ loop = Idle /\ job[u] = Idle
    /\ u \notin OtherStaff
    /\ \E slot \in Chosen(u) :
          /\ Permitted(u, slot)
          /\ job' = [job EXCEPT ![u] = [pc |-> "check", slot |-> slot]]
    /\ UNCHANGED <<phase, tables, loop, marked, crashes, granted, fenced>>

\* admin_mark_attendance, hod_mark_attendance: only a check-out is checked.
RequestByRole(u) ==
    /\ ~Holiday /\ loop = Idle /\ job[u] = Idle
    /\ u \notin OtherStaff
    /\ \E slot \in SlotsAt[phase] :
          /\ slot.type = "check_out" => Logged(u, "check_in")
          /\ job' = [job EXCEPT ![u] = [pc |-> "check", slot |-> slot]]
    /\ UNCHANGED <<phase, tables, loop, marked, crashes, granted, fenced>>

\* On a holiday the attempt writes the day's row and is refused
\* (_ensure_daily_holiday_status).
RequestOnHoliday(u) ==
    /\ Holiday /\ loop = Idle /\ phase < 3
    /\ row' = [row EXCEPT ![u] =
                 IF @ = NoRow THEN Fresh("Holiday")
                 ELSE [@ EXCEPT !.st = "Holiday", !.leave = FALSE]]
    /\ UNCHANGED <<phase, morning, evening, scans, job, loop, marked, crashes,
                   granted, fenced>>

\* Slip: the pool thread trusts the checks made before the semaphore.
RecheckSkipped(u) ==
    /\ job[u].pc = "check"
    /\ job' = [job EXCEPT ![u] = [@ EXCEPT !.pc = "log"]]
    /\ UNCHANGED <<phase, tables, loop, marked, crashes, granted, fenced>>

\* _secure_verify_and_mark repeats the checks; the face may also be refused.
Recheck(u) ==
    /\ job[u].pc = "check"
    /\ \/ /\ Permitted(u, job[u].slot)
          /\ job' = [job EXCEPT ![u] = [@ EXCEPT !.pc = "log"]]
       \/ job' = [job EXCEPT ![u] = Idle]
    /\ UNCHANGED <<phase, tables, loop, marked, crashes, granted, fenced>>

\* INSERT into attendance.
LogScan(u) ==
    /\ job[u].pc = "log"
    /\ LET c == [slot |-> job[u].slot, time |-> TimeHalf]
       IN  /\ scans[u][c] < MaxScans
           /\ scans' = [scans EXCEPT ![u][c] = @ + 1]
    /\ job' = [job EXCEPT ![u] = [@ EXCEPT !.pc = IF HalfDay THEN "session" ELSE "sync"]]
    /\ UNCHANGED <<phase, row, morning, evening, loop, marked, crashes, granted, fenced>>

\* Half-day mode: the row of morning_attendance or evening_attendance.
WriteSession(u) ==
    /\ job[u].pc = "session"
    /\ IF EffectiveHalf(job[u].slot) = "first"
       THEN morning' = morning \cup {u} /\ UNCHANGED evening
       ELSE evening' = evening \cup {u} /\ UNCHANGED morning
    /\ job' = [job EXCEPT ![u] = [pc |-> "read", slot |-> @.slot,
                                  half |-> EffectiveHalf(@.slot)]]
    /\ UNCHANGED <<phase, row, scans, loop, marked, crashes, granted, fenced>>

ReadSessions(u) ==
    /\ job[u].pc = "read"
    /\ job' = [job EXCEPT ![u] = [pc |-> "sync", slot |-> @.slot, half |-> @.half,
                  fh |-> IF u \in morning THEN "Present" ELSE "NULL",
                  sh |-> IF u \in evening THEN "Present" ELSE "NULL"]]
    /\ UNCHANGED <<phase, tables, loop, marked, crashes, granted, fenced>>

\* The upsert of half-day mode: the halves are replaced, the times are kept.
HalfDayRow(u) ==
    LET old == IF row[u] = NoRow THEN Fresh("Pending") ELSE row[u]
        j   == job[u]
        at(half, type) == j.half = half /\ j.slot.type = type
    IN  [old EXCEPT !.st = StatusNow(j.fh, j.sh), !.fh = j.fh, !.sh = j.sh,
                    !.fhIn = @ \/ at("first", "check_in"),
                    !.fhOut = @ \/ at("first", "check_out"),
                    !.shIn = @ \/ at("second", "check_in"),
                    !.shOut = @ \/ at("second", "check_out")]

\* Full-day mode: present for the day; an existing row loses its leave tags.
FullDayRow(u) ==
    LET old == IF row[u] = NoRow THEN Fresh("Present") ELSE row[u]
        in  == job[u].slot.type = "check_in"
    IN  [old EXCEPT !.st = "Present", !.in = @ \/ in, !.out = @ \/ ~in, !.leave = FALSE]

SyncDaily(u) ==
    /\ job[u].pc = "sync"
    /\ row' = [row EXCEPT ![u] = IF HalfDay THEN HalfDayRow(u) ELSE FullDayRow(u)]
    /\ job' = [job EXCEPT ![u] = Idle]
    /\ UNCHANGED <<phase, morning, evening, scans, loop, marked, crashes, granted, fenced>>

\* other_staff_mark_attendance, on the event loop.
OtherStaffMark(u) ==
    /\ loop = Idle /\ u \in OtherStaff
    /\ \E slot \in SlotsAt[phase] :
          /\ slot.type = "check_out" => Logged(u, "check_in")
          /\ LET c == [slot |-> slot, time |-> TimeHalf]
             IN  /\ scans[u][c] < MaxScans
                 /\ scans' = [scans EXCEPT ![u][c] = @ + 1]
    /\ row' = [row EXCEPT ![u] =
                 IF @ = NoRow THEN Fresh("Present")
                 ELSE [@ EXCEPT !.st = "Present",
                                !.leave = row[u].leave /\ row[u].st \notin {"Absent", "Leave"}]]
    /\ UNCHANGED <<phase, morning, evening, job, loop, marked, crashes, granted, fenced>>

-----------------------------------------------------------------------------
(***************************************************************************)
(* The absence marker and the repair, on the event loop.                   *)
(***************************************************************************)
Undecided(u, half) ==
    row[u] # NoRow /\ (IF half = "first" THEN row[u].fh ELSE row[u].sh) = "NULL"

Snapshot(us) == {[u |-> u, fh |-> row[u].fh, sh |-> row[u].sh] : u \in us}

\* _process_session_absences: the SELECT of the rows without that half.
StartAbsences(half, repair) ==
    loop' = [pc |-> "absences", half |-> half, repair |-> repair,
             todo |-> Snapshot({u \in Users : Undecided(u, half)})]

\* periodic_session_absence_marker; processed_sessions lives in memory.
FireMarker(half) ==
    /\ loop = Idle /\ phase \in {1, 2}
    /\ half \notin marked
    /\ half = "second" => phase = 2 /\ "first" \in marked
    /\ StartAbsences(half, TRUE)
    /\ marked' = marked \cup {half}
    /\ UNCHANGED <<phase, tables, job, crashes, granted, fenced>>

\* trigger_eod_marking: the admin runs the afternoon's part at any time.
TriggerEod ==
    /\ loop = Idle /\ phase < 3
    /\ StartAbsences("second", FALSE)
    /\ UNCHANGED <<phase, tables, job, marked, crashes, granted, fenced>>

\* One UPDATE: both halves are written back as they were read.
MarkAbsent ==
    /\ loop.pc = "absences"
    /\ \E e \in loop.todo :
          LET fh == IF loop.half = "first" THEN "Absent" ELSE e.fh
              sh == IF loop.half = "second" THEN "Absent" ELSE e.sh
          IN  /\ row' = [row EXCEPT ![e.u] =
                           [@ EXCEPT !.fh = fh, !.sh = sh, !.st = StatusNow(fh, sh)]]
              /\ loop' = [loop EXCEPT !.todo = @ \ {e}]
    /\ UNCHANGED <<phase, morning, evening, scans, job, marked, crashes, granted, fenced>>

\* The SELECT of the people without a row.
SelectMissing ==
    /\ loop.pc = "absences" /\ loop.todo = {}
    /\ loop' = [loop EXCEPT !.pc = "missing",
                            !.todo = {u \in Users : row[u] = NoRow}]
    /\ UNCHANGED <<phase, tables, job, marked, crashes, granted, fenced>>

\* INSERT ... ON CONFLICT DO NOTHING.
InsertMissing ==
    /\ loop.pc = "missing"
    /\ \E u \in loop.todo :
          /\ row' = [row EXCEPT ![u] =
                       IF @ # NoRow THEN @
                       ELSE IF loop.half = "first"
                            THEN [Fresh("Pending") EXCEPT !.fh = "Absent", !.sh = "NULL"]
                            ELSE [Fresh("Absent") EXCEPT !.fh = "Absent", !.sh = "Absent"]]
          /\ loop' = [loop EXCEPT !.todo = @ \ {u}]
    /\ UNCHANGED <<phase, morning, evening, scans, job, marked, crashes, granted, fenced>>

\* Slip: past days are not repaired.
StagesToday == IF phase = 3 THEN <<>>
               ELSE IF phase = 2 THEN <<"first", "second">>
               ELSE IF phase = 1 THEN <<"first">> ELSE <<>>

\* _sync_overdue_pending_absences: one SELECT per stage whose time has come.
Stages == IF phase = 3 THEN <<"past">>
          ELSE IF phase = 2 THEN <<"first", "second">>
          ELSE IF phase = 1 THEN <<"first">> ELSE <<>>

Overdue(stage) ==
    {u \in Users :
        /\ row[u] # NoRow /\ ~OnLeave(row[u])
        /\ CASE stage = "first" -> row[u].fh \in {"NULL", "Pending"}
             [] stage = "second" -> row[u].sh \in {"NULL", "Pending"}
             [] OTHER -> \/ {row[u].fh, row[u].sh} \cap {"NULL", "Pending"} # {}
                         \/ row[u].st = "Pending"}

\* The loop after the stages before have been repaired.
Repairing(stages) ==
    IF stages = <<>> THEN Idle
    ELSE [pc |-> "overdue", stages |-> stages, todo |-> Snapshot(Overdue(stages[1]))]

Rest(seq) == IF DOMAIN seq = {1} THEN <<>> ELSE <<seq[2]>>

\* The marker goes on with the repair; the admin's trigger ends here.
EndAbsences ==
    /\ loop.pc = "missing" /\ loop.todo = {}
    /\ loop' = IF loop.repair THEN Repairing(Stages) ELSE Idle
    /\ UNCHANGED <<phase, tables, job, marked, crashes, granted, fenced>>

\* The repair on its own: get_attendance_logs, get_personal_attendance_log.
Repair ==
    /\ loop = Idle
    /\ Repairing(Stages) # Idle
    /\ loop' = Repairing(Stages)
    /\ UNCHANGED <<phase, tables, job, marked, crashes, granted, fenced>>

\* One UPDATE: the columns of the stage, the status from the row as read.
RepairRow ==
    /\ loop.pc = "overdue"
    /\ \E e \in loop.todo :
          LET stage == loop.stages[1]
              past  == stage = "past"
              fh == IF past THEN (IF e.fh = "Present" THEN "Present" ELSE "Absent")
                    ELSE IF stage = "first" THEN "Absent" ELSE e.fh
              sh == IF past THEN (IF e.sh = "Present" THEN "Present" ELSE "Absent")
                    ELSE IF stage = "second" THEN "Absent" ELSE e.sh
          IN  /\ row' = [row EXCEPT ![e.u] =
                           [@ EXCEPT !.fh = fh,
                                     !.sh = IF stage = "first" THEN row[e.u].sh ELSE sh,
                                     !.st = StatusNow(fh, sh)]]
              /\ loop' = [loop EXCEPT !.todo = @ \ {e}]
    /\ UNCHANGED <<phase, morning, evening, scans, job, marked, crashes, granted, fenced>>

NextStage ==
    /\ loop.pc = "overdue" /\ loop.todo = {}
    /\ loop' = Repairing(Rest(loop.stages))
    /\ UNCHANGED <<phase, tables, job, marked, crashes, granted, fenced>>

-----------------------------------------------------------------------------
(***************************************************************************)
(* Other writers of the row.                                               *)
(***************************************************************************)
\* admin_sync_daily_attendance_status: the scans go to the session row of the
\* half their time falls in, which is then read back ...
AdminSyncSessions(u) ==
    /\ AdminSyncs /\ loop = Idle
    /\ \E c \in Scanned : scans[u][c] > 0
    /\ LET at(half) == \E c \in Scanned : c.time = half /\ scans[u][c] > 0
           m == morning \cup (IF at("first") THEN {u} ELSE {})
           e == evening \cup (IF at("second") THEN {u} ELSE {})
       IN  /\ morning' = m /\ evening' = e
           /\ loop' = [pc |-> "sync", u |-> u,
                       fh |-> IF u \in m THEN "Present" ELSE "NULL",
                       sh |-> IF u \in e THEN "Present" ELSE "NULL"]
    /\ UNCHANGED <<phase, row, scans, job, marked, crashes, granted, fenced>>

\* ... and upserted into the daily row.
AdminSyncDaily ==
    /\ loop.pc = "sync"
    /\ row' = [row EXCEPT ![loop.u] =
                 LET old == IF @ = NoRow THEN Fresh("Pending") ELSE @
                 IN  [old EXCEPT !.fh = loop.fh, !.sh = loop.sh,
                                 !.st = StatusNow(loop.fh, loop.sh),
                                 !.fhIn = @ \/ loop.fh = "Present",
                                 !.shIn = @ \/ loop.sh = "Present"]]
    /\ loop' = Idle
    /\ UNCHANGED <<phase, morning, evening, scans, job, marked, crashes, granted, fenced>>

\* admin_approve_leave_request for the whole day: an upsert that leaves the
\* halves as they are.
AdminGrantDay(u) ==
    /\ LeaveBy = "admin" /\ loop = Idle /\ u \notin granted
    /\ row' = [row EXCEPT ![u] =
                 [IF @ = NoRow THEN Fresh("Leave") ELSE @ EXCEPT !.st = "Leave", !.leave = TRUE]]
    /\ granted' = granted \cup {u}
    /\ UNCHANGED <<phase, morning, evening, scans, job, loop, marked, crashes, fenced>>

\* _credit_leave_attendance for the whole day sets both halves.
ServiceGrantDay(u) ==
    /\ LeaveBy = "service" /\ loop = Idle /\ u \notin granted
    /\ row' = [row EXCEPT ![u] =
                 [IF @ = NoRow THEN Fresh("Leave") ELSE @
                    EXCEPT !.st = "Leave", !.leave = TRUE, !.fh = "Leave", !.sh = "Leave"]]
    /\ granted' = granted \cup {u}
    /\ UNCHANGED <<phase, morning, evening, scans, job, loop, marked, crashes, fenced>>

\* A half day: the SELECT of the halves ...
GrantHalfRead(u, half) ==
    /\ LeaveBy # "nobody" /\ HalfDay /\ loop = Idle
    /\ loop' = [pc |-> "half", u |-> u, half |-> half,
                fh |-> IF row[u] = NoRow THEN "none" ELSE row[u].fh,
                sh |-> IF row[u] = NoRow THEN "none" ELSE row[u].sh]
    /\ UNCHANGED <<phase, tables, job, marked, crashes, granted, fenced>>

\* The other half of a half-day leave, as it is written back.
Kept(h) == CASE h = "none" -> IF LeaveBy = "admin" THEN "NULL" ELSE "Absent"
             [] h = "NULL" -> IF LeaveBy = "admin" THEN "NULL" ELSE "Pending"
             [] OTHER -> h

\* ... and the write: the admin's keeps the other half as it was read and
\* recomputes the day, the service's replaces an empty half by 'Pending'.
GrantHalfWrite ==
    /\ loop.pc = "half"
    /\ LET u   == loop.u
           old == IF row[u] = NoRow THEN Fresh("Leave") ELSE row[u]
           fh == IF loop.half = "first" THEN "Leave" ELSE Kept(loop.fh)
           sh == IF loop.half = "second" THEN "Leave" ELSE Kept(loop.sh)
       IN  row' = [row EXCEPT ![u] =
                     [old EXCEPT !.fh = fh, !.sh = sh, !.leave = TRUE,
                                 !.st = IF LeaveBy = "admin"
                                        THEN DailyStatus(fh, sh, TRUE, TRUE) ELSE "HalfLeave"]]
    /\ loop' = Idle
    /\ UNCHANGED <<phase, morning, evening, scans, job, marked, crashes, granted, fenced>>

\* update_user_location, sync_offline_locations: more than three minutes outside.
GeofenceAbsent(u) ==
    /\ Geofence /\ loop = Idle /\ phase < 3
    /\ row[u] # NoRow /\ u \notin fenced
    /\ row' = [row EXCEPT ![u] = [@ EXCEPT !.st = "Absent"]]
    /\ fenced' = fenced \cup {u}
    /\ UNCHANGED <<phase, morning, evening, scans, job, loop, marked, crashes, granted>>

Advance ==
    /\ phase < 3
    /\ phase = 2 => \A u \in Users : job[u] = Idle
    /\ phase' = phase + 1
    /\ UNCHANGED <<tables, job, loop, marked, crashes, granted, fenced>>

\* The process dies: running handlers and the marker's memory are lost.
Crash ==
    /\ crashes < MaxCrashes
    /\ crashes' = crashes + 1
    /\ job' = [u \in Users |-> Idle]
    /\ loop' = Idle
    /\ marked' = {}
    /\ UNCHANGED <<phase, tables, granted, fenced>>

Job(u) ==
    \/ Recheck(u) \/ LogScan(u) \/ WriteSession(u) \/ ReadSessions(u) \/ SyncDaily(u)

Running ==
    \/ MarkAbsent \/ SelectMissing \/ InsertMissing \/ EndAbsences
    \/ RepairRow \/ NextStage \/ AdminSyncDaily \/ GrantHalfWrite

DayNext ==
    \/ \E u \in Users :
          \/ RequestScan(u) \/ RequestByRole(u) \/ RequestOnHoliday(u)
          \/ Job(u) \/ OtherStaffMark(u)
          \/ AdminSyncSessions(u) \/ AdminGrantDay(u) \/ ServiceGrantDay(u)
          \/ GeofenceAbsent(u)
          \/ \E half \in Halves : GrantHalfRead(u, half)
    \/ \E half \in Halves : FireMarker(half)
    \/ TriggerEod \/ Repair \/ Running \/ Advance \/ Crash

\* The event loop and the pool go on, and the marker's task fires; the next
\* day's firing repairs the rows of this one.
DayFairness ==
    /\ WF_dayVars(Running)
    /\ \A u \in Users : WF_dayVars(Job(u))
    /\ \A half \in Halves : WF_dayVars(FireMarker(half))
    /\ WF_dayVars(phase = 3 /\ Repair)

DaySpec     == DayInit /\ [][DayNext]_dayVars
DayFairSpec == DaySpec /\ DayFairness

-----------------------------------------------------------------------------
(***************************************************************************)
(* Properties.                                                             *)
(***************************************************************************)
Scan(u, slot) == scans[u][[slot |-> slot, time |-> "first"]]
                   + scans[u][[slot |-> slot, time |-> "second"]]
DayQuiet(u) == loop = Idle /\ job[u] = Idle

\* However requests of a person overlap, each slot is logged once; a crash
\* between the log and the session row may let it be logged once more.
NoDoubleScan ==
    \A u \in Users \ OtherStaff, slot \in Slots :
        Scan(u, slot) <= 1 + crashes

\* Only a row of the half's own session table makes the half Present, whoever
\* wrote the daily row last and from whatever he had read before.
PresentHalfRecorded ==
    HalfDay => \A u \in Users : row[u] # NoRow =>
        /\ row[u].fh = "Present" => u \in morning
        /\ row[u].sh = "Present" => u \in evening

\* The halves of a day are the scans of its person.
HalvesHonest == NoDoubleScan /\ PresentHalfRecorded

\* A whole day of leave stays one, through markers, repairs and half-day leave
\* on top of it, unless the person scans or the geofence intervenes.
LeaveDayKept ==
    \A u \in granted \ fenced :
        (\A c \in Scanned : scans[u][c] = 0) /\ job[u] = Idle
            => row[u].st \in {"Leave", "HalfLeave"}

\* The times of earlier scans of the day survive every later write of the row.
TimesKept ==
    \A u \in Users : row[u] # NoRow /\ row'[u] # NoRow =>
        /\ (row[u].fhIn => row'[u].fhIn) /\ (row[u].fhOut => row'[u].fhOut)
        /\ (row[u].shIn => row'[u].shIn) /\ (row[u].shOut => row'[u].shOut)

\* Once the day is over, no half of a recorded day stays open, unless the row
\* is leave; late scans, crashes and missed markers included.
Decided ==
    \A u \in Users : row[u] # NoRow =>
        OnLeave(row[u]) \/ {row[u].fh, row[u].sh} \cap {"NULL", "Pending"} = {}

\* _process_session_absences marks absent "if they haven't marked attendance":
\* who has scanned is not Absent when nothing runs.
ScannedNotAbsent ==
    \A u \in Users \ fenced :
        DayQuiet(u) /\ (Logged(u, "check_in") \/ Logged(u, "check_out"))
               => row[u] # NoRow /\ row[u].st # "Absent"

\* Who was told to "have been marked absent" for leaving the campus stays so
\* until he scans for the other half.
GeofenceAbsenceKept ==
    \A u \in fenced : DayQuiet(u) /\ u \notin evening => row[u].st = "Absent"

\* _ensure_daily_holiday_status persists "a holiday status for a specific date".
HolidayPersists ==
    HolidayFrom = 0 =>
        \A u \in Users : row[u] # NoRow => row[u].st = "Holiday"
=============================================================================
