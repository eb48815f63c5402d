---------------------------- MODULE ClassSession ----------------------------
(***************************************************************************)
(* Live class-session attendance of src/backend/main.py: one class group,  *)
(* one calendar date.  Lecturers open and close sessions over one or more  *)
(* periods, students check in and out, staff overrides marks, and three    *)
(* automatic writers share the table student_attendance: the session       *)
(* closer, the concluded-period marker and the crediting of student leave. *)
(*                                                                         *)
(* Processes.  Every "async def" handler and every background task runs on *)
(* the event-loop thread (Loop): after its last await it holds the thread  *)
(* until it returns.  The "def" GET handlers (today-periods, active,       *)
(* session-roll) run in the thread pool and call the closer too (Pool).    *)
(* The connection is in autocommit mode (app/database/pg_adapter.py), so   *)
(* each SQL statement is a step of its own and a crash keeps every         *)
(* statement already run.  Where a statement only touches what the other   *)
(* threads cannot change, it is merged with its neighbour; each such merge *)
(* is noted.  The sweep that async handlers run before "await              *)
(* request.json()" is separated from their body by that await, so it is    *)
(* the step AutoCloser, which may precede any request.                     *)
(***************************************************************************)
EXTENDS Naturals, FiniteSets

CONSTANTS
    Students,     \* the enrolled, active students of the class group
    NPeriods,     \* number of periods of the day
    NSessions,    \* number of session rows that can be created
    FirstOf,      \* first and last period of each session
    LastOf,
    SubjectOf,    \* subject_code of each session
    Loop,         \* the event-loop thread
    Pool,         \* the thread-pool threads that may run the closer
    MaxRequests,  \* bound: handler bodies run by the event loop
    MaxFaults     \* bound: crashes and failed statements

Periods  == 1 .. NPeriods
Sessions == 1 .. NSessions
Threads  == {Loop} \cup Pool
Pairs    == Students \X Periods

ASSUME SizesAssumption == /\ NPeriods \in Nat /\ NSessions \in Nat
                          /\ MaxRequests \in Nat /\ MaxFaults \in Nat

\* "one or more consecutive periods" (docstring of start_checkin_session)
ASSUME PeriodsAssumption ==
    /\ FirstOf \in [1 .. NSessions -> 1 .. NPeriods]
    /\ LastOf \in [1 .. NSessions -> 1 .. NPeriods]
    /\ \A s \in 1 .. NSessions : FirstOf[s] <= LastOf[s]

ASSUME ThreadsAssumption == Loop \notin Pool

VARIABLES
    status,    \* class_attendance_sessions.status, "none" before the INSERT
    clock,     \* periods 1..clock ended more than ten minutes ago
    rows,      \* student_attendance: the row of a student for a period
    excused,   \* students whose student_academic_day_status is not NORMAL
    act,       \* what each thread is doing: its locals between statements
    requests,  \* handler bodies started so far
    faults,    \* crashes and failed statements so far
    cleared,   \* history: pairs whose row was deleted, or whose write failed
    exempt     \* history: see Watch

vars == <<status, clock, rows, excused, act, requests, faults, cleared, exempt>>

Statuses == {"none", "checkin_open", "checkin_closed", "checkout_open", "closed"}
Unclosed == {"checkin_open", "checkin_closed", "checkout_open"}
Open     == {"checkin_open", "checkout_open"}

\* The data of a mark: On-Duty, Leave and the credited leave labels are one.
Marks == {"none", "Present", "Absent", "Excused", "Pending"}
Row   == [st : Marks, sid : 0 .. NSessions]
NoRow == [st |-> "none", sid |-> 0]

NoStudent == "no student"

\* The locals of a running handler or sweep: its session, student and mark,
\* the pairs it still has to write, the students its close saw present, the
\* sessions its sweep still has to look at, and, for the marker, the number
\* of concluded periods it was started for.
Activity ==
    [pc : {"idle", "sweep", "present", "excused", "absent", "marker",
           "closeCheckin", "startCheckout", "dup", "dupToday", "mark",
           "markToday", "checkoutInsert", "replace", "insert", "credit"},
     s : 0 .. NSessions, r : Students \cup {NoStudent}, st : Marks,
     todo : SUBSET Pairs, seen : SUBSET Students,
     queue : SUBSET Sessions, upto : 0 .. NPeriods]

Idle == [pc |-> "idle", s |-> 0, r |-> NoStudent, st |-> "none",
         todo |-> {}, seen |-> {}, queue |-> {}, upto |-> 0]

PeriodsOf(s) == FirstOf[s] .. LastOf[s]
Expired(s)   == LastOf[s] <= clock
Overlap(s, u) == PeriodsOf(s) \cap PeriodsOf(u) # {}
PresentIn(table, r, s) ==
    \E p \in Periods : table[<<r, p>>] = [st |-> "Present", sid |-> s]
HasRow(r, p) == rows[<<r, p>>].st # "none"

\* "for pn in period_list": the earliest period of its student still to do.
IsNext(w, todo) == w \in todo /\ \A v \in todo : v[1] = w[1] => w[2] <= v[2]

Closing == {"present", "excused", "absent"}

TypeOK ==
    /\ status \in [Sessions -> Statuses]
    /\ clock \in 0 .. NPeriods
    /\ rows \in [Pairs -> Row]
    /\ excused \in SUBSET Students
    /\ act \in [Threads -> Activity]
    /\ requests \in 0 .. MaxRequests
    /\ faults \in 0 .. MaxFaults
    /\ cleared \in SUBSET Pairs
    /\ exempt \in [Threads -> SUBSET Students]

Init ==
    /\ status = [s \in Sessions |-> "none"]
    /\ clock = 0
    /\ rows = [w \in Pairs |-> NoRow]
    /\ excused = {}
    /\ act = [t \in Threads |-> Idle]
    /\ requests = 0
    /\ faults = 0
    /\ cleared = {}
    /\ exempt = [t \in Threads |-> {}]

-----------------------------------------------------------------------------
(***************************************************************************)
(* History variables, updated by every step.  While thread t closes        *)
(* session s, exempt[t] holds the students who were checked in to s, or    *)
(* excused for the day, when t began, and who have been one or the other   *)
(* in every state since.  cleared holds the pairs whose record a step      *)
(* deleted or failed to write (extra), until a row appears again.          *)
(***************************************************************************)
Watch(extra) ==
    /\ cleared' = {w \in cleared \cup extra : rows'[w].st = "none"}
    /\ exempt' =
        [t \in Threads |->
            IF act'[t].pc \notin Closing THEN {}
            ELSE {r \in (IF act[t].pc \in Closing THEN exempt[t] ELSE Students) :
                    r \in excused' \/ PresentIn(rows', r, act'[t].s)}]

Become(t, a) == act' = [act EXCEPT ![t] = a]

-----------------------------------------------------------------------------
(***************************************************************************)
(* The closer: _auto_close_expired_class_sessions and                      *)
(* _execute_close_class_session.                                           *)
(***************************************************************************)
\* Slip: the sweep's SELECT lists the open statuses only.
ExpiringOpenOnly == {s \in Sessions : status[s] \in Open /\ Expired(s)}

Expiring == {s \in Sessions : status[s] \in Unclosed /\ Expired(s)}

\* The sweep's SELECT of unclosed sessions; the clock is read just before it.
AutoCloser(t) ==
    /\ act[t].pc = "idle"
    /\ Expiring # {}
    /\ Become(t, [Idle EXCEPT !.pc = "sweep", !.queue = Expiring])
    /\ UNCHANGED <<status, clock, rows, excused, requests, faults>>
    /\ Watch({})

\* Read of the session row and of the roster (which nobody changes): a
\* session found closed is left alone, any other is closed from here on.
BeginClose(t) ==
    /\ act[t].pc = "sweep"
    /\ \E s \in act[t].queue :
         IF status[s] = "closed"
         THEN Become(t, [act[t] EXCEPT !.queue = @ \ {s}])
         ELSE Become(t, [act[t] EXCEPT !.pc = "present", !.s = s,
                                       !.queue = @ \ {s}])
    /\ UNCHANGED <<status, clock, rows, excused, requests, faults>>
    /\ Watch({})

\* The end of the sweep: the marker, if it ordered it, goes on to its periods.
EndSweep(t) ==
    /\ act[t].pc = "sweep"
    /\ act[t].queue = {}
    /\ Become(t, IF act[t].upto = 0 THEN Idle
                 ELSE [Idle EXCEPT !.pc = "marker",
                                   !.todo = Students \X (1 .. act[t].upto)])
    /\ UNCHANGED <<status, clock, rows, excused, requests, faults>>
    /\ Watch({})

\* Slip: presence is looked up in the session's first period.
ReadPresentFirst(t) ==
    /\ act[t].pc = "present"
    /\ Become(t, [act[t] EXCEPT !.pc = "excused",
                    !.seen = {r \in Students :
                                rows[<<r, FirstOf[act[t].s]>>] =
                                    [st |-> "Present", sid |-> act[t].s]}])
    /\ UNCHANGED <<status, clock, rows, excused, requests, faults>>
    /\ Watch({})

\* present_regs: the students with a Present row of this session.
ReadPresent(t) ==
    /\ act[t].pc = "present"
    /\ Become(t, [act[t] EXCEPT !.pc = "excused",
                    !.seen = {r \in Students : PresentIn(rows, r, act[t].s)}])
    /\ UNCHANGED <<status, clock, rows, excused, requests, faults>>
    /\ Watch({})

\* excused_regs, and with it the students the loop below will mark absent.
ReadExcused(t) ==
    /\ act[t].pc = "excused"
    /\ Become(t, [act[t] EXCEPT !.pc = "absent",
                    !.todo = (Students \ (act[t].seen \cup excused))
                               \X PeriodsOf(act[t].s)])
    /\ UNCHANGED <<status, clock, rows, excused, requests, faults>>
    /\ Watch({})

\* One upsert of the absentee loop: whatever the row held becomes Absent.
WriteAbsent(t) ==
    /\ act[t].pc = "absent"
    /\ \E w \in act[t].todo :
         /\ IsNext(w, act[t].todo)
         /\ rows' = [rows EXCEPT ![w] = [st |-> "Absent", sid |-> act[t].s]]
         /\ Become(t, [act[t] EXCEPT !.todo = @ \ {w}])
    /\ UNCHANGED <<status, clock, excused, requests, faults>>
    /\ Watch({})

\* The upsert raises: the loop prints the error and goes on with the next one.
WriteAbsentFails(t) ==
    /\ act[t].pc = "absent"
    /\ faults < MaxFaults
    /\ faults' = faults + 1
    /\ UNCHANGED <<status, clock, rows, excused, requests>>
    /\ \E w \in act[t].todo :
         /\ IsNext(w, act[t].todo)
         /\ Become(t, [act[t] EXCEPT !.todo = @ \ {w}])
         /\ Watch({w})

\* Another statement of the close raises: the sweep's except clause prints the
\* error, and the sweep goes on to the next session.
CloseFails(t) ==
    /\ act[t].pc \in Closing
    /\ faults < MaxFaults
    /\ faults' = faults + 1
    /\ Become(t, [Idle EXCEPT !.pc = "sweep", !.queue = act[t].queue,
                              !.upto = act[t].upto])
    /\ UNCHANGED <<status, clock, rows, excused, requests>>
    /\ Watch({})

\* Slip: the session is closed before the absentee loop is over.
FinishCloseEarly(t) ==
    /\ act[t].pc = "absent"
    /\ status' = [status EXCEPT ![act[t].s] = "closed"]
    /\ Become(t, [Idle EXCEPT !.pc = "sweep", !.queue = act[t].queue,
                              !.upto = act[t].upto])
    /\ UNCHANGED <<clock, rows, excused, requests, faults>>
    /\ Watch({})

\* UPDATE ... SET status='closed'; the thread resumes its sweep, if any.
FinishClose(t) ==
    /\ act[t].pc = "absent"
    /\ act[t].todo = {}
    /\ status' = [status EXCEPT ![act[t].s] = "closed"]
    /\ Become(t, [Idle EXCEPT !.pc = "sweep", !.queue = act[t].queue,
                              !.upto = act[t].upto])
    /\ UNCHANGED <<clock, rows, excused, requests, faults>>
    /\ Watch({})

-----------------------------------------------------------------------------
(***************************************************************************)
(* Staff handlers, on the event loop.                                      *)
(***************************************************************************)
Request(a) ==
    /\ act[Loop].pc = "idle"
    /\ requests < MaxRequests
    /\ requests' = requests + 1
    /\ Become(Loop, a)

\* Session ids are numbered in the order of created_at.
Creatable(s) == /\ status[s] = "none"
                /\ \A u \in Sessions : u < s => status[u] # "none"

\* start_checkin_session: the guard looks for an open session over any of the
\* periods.  Only this thread inserts, so SELECT and INSERT are one step.
StartCheckin(s) ==
    /\ Creatable(s)
    /\ \A u \in Sessions : Overlap(s, u) => status[u] \notin Open
    /\ Request(Idle)
    /\ status' = [status EXCEPT ![s] = "checkin_open"]
    /\ UNCHANGED <<clock, rows, excused, faults>>
    /\ Watch({})

\* Slip: resuming a session opens its check-in again.
QuickStartReopens(s) ==
    /\ Creatable(s) \/ status[s] \in Unclosed
    /\ Request(Idle)
    /\ status' = [status EXCEPT ![s] = "checkin_open"]
    /\ UNCHANGED <<clock, rows, excused, faults>>
    /\ Watch({})

\* quick_start_class_session: an unclosed session of the same subject is
\* resumed (nothing changes); otherwise one is created, whatever else is open.
QuickStart(s) ==
    /\ Creatable(s)
    /\ \A u \in Sessions : SubjectOf[u] = SubjectOf[s] => status[u] \notin Unclosed
    /\ Request(Idle)
    /\ status' = [status EXCEPT ![s] = "checkin_open"]
    /\ UNCHANGED <<clock, rows, excused, faults>>
    /\ Watch({})

\* close_checkin and start_checkout: the SELECT that checks the status ...
CloseCheckin(s) ==
    /\ status[s] = "checkin_open"
    /\ Request([Idle EXCEPT !.pc = "closeCheckin", !.s = s])
    /\ UNCHANGED <<status, clock, rows, excused, faults>>
    /\ Watch({})

StartCheckout(s) ==
    /\ status[s] \in {"checkin_open", "checkin_closed"}
    /\ Request([Idle EXCEPT !.pc = "startCheckout", !.s = s])
    /\ UNCHANGED <<status, clock, rows, excused, faults>>
    /\ Watch({})

\* ... and the UPDATE, which does not look at the status again.
UpdateStatus ==
    /\ act[Loop].pc \in {"closeCheckin", "startCheckout"}
    /\ status' = [status EXCEPT ![act[Loop].s] =
                    IF act[Loop].pc = "closeCheckin" THEN "checkin_closed"
                                                     ELSE "checkout_open"]
    /\ Become(Loop, Idle)
    /\ UNCHANGED <<clock, rows, excused, requests, faults>>
    /\ Watch({})

\* close_session: the close runs on the event loop, from its first read.
CloseSession(s) ==
    /\ status[s] \in Unclosed
    /\ Request([Idle EXCEPT !.pc = "present", !.s = s])
    /\ UNCHANGED <<status, clock, rows, excused, faults>>
    /\ Watch({})

\* session_manual_override ("Pending" only deletes: mark "none"), batch
\* override (which also inserts Pending rows), in any status of the session.
Override(s, rs, st) ==
    /\ status[s] # "none"
    /\ Request([Idle EXCEPT !.pc = "replace", !.s = s, !.st = st,
                            !.todo = rs \X PeriodsOf(s)])
    /\ UNCHANGED <<status, clock, rows, excused, faults>>
    /\ Watch({})

\* scan_session_face: the recognised student, in a session not closed.
ScanFace(s, r) ==
    /\ status[s] \in Unclosed
    /\ Request([Idle EXCEPT !.pc = "replace", !.s = s, !.st = "Present",
                            !.todo = {r} \X PeriodsOf(s)])
    /\ UNCHANGED <<status, clock, rows, excused, faults>>
    /\ Watch({})

\* Both replace a row by a DELETE ...
ReplaceDelete ==
    /\ act[Loop].pc = "replace"
    /\ \E w \in act[Loop].todo :
         /\ IsNext(w, act[Loop].todo)
         /\ rows' = [rows EXCEPT ![w] = NoRow]
         /\ Become(Loop, IF act[Loop].st = "none"
                         THEN [act[Loop] EXCEPT !.todo = @ \ {w}]
                         ELSE [act[Loop] EXCEPT !.pc = "insert", !.r = w[1]])
         /\ UNCHANGED <<status, clock, excused, requests, faults>>
         /\ Watch({w})

\* ... and an INSERT, which a row written in between makes fail: the
\* exception ends the handler, the periods still to do keep what they had.
ReplaceInsert ==
    /\ act[Loop].pc = "insert"
    /\ \E w \in act[Loop].todo :
         /\ w[1] = act[Loop].r
         /\ IsNext(w, act[Loop].todo)
         /\ IF HasRow(w[1], w[2])
            THEN /\ Become(Loop, Idle)
                 /\ UNCHANGED rows
            ELSE /\ rows' = [rows EXCEPT ![w] = [st |-> act[Loop].st,
                                                 sid |-> act[Loop].s]]
                 /\ Become(Loop, [act[Loop] EXCEPT !.pc = "replace",
                                    !.r = NoStudent, !.todo = @ \ {w}])
    /\ UNCHANGED <<status, clock, excused, requests, faults>>
    /\ Watch({})

\* The handler returns once every period is done.
ReplaceDone ==
    /\ act[Loop].pc = "replace"
    /\ act[Loop].todo = {}
    /\ Become(Loop, Idle)
    /\ UNCHANGED <<status, clock, rows, excused, requests, faults>>
    /\ Watch({})

-----------------------------------------------------------------------------
(***************************************************************************)
(* Student handlers, on the event loop.                                    *)
(***************************************************************************)
\* student_session_checkin: the SELECT of the session must find check-in open.
StudentCheckin(r, s) ==
    /\ status[s] = "checkin_open"
    /\ Request([Idle EXCEPT !.pc = "dup", !.s = s, !.r = r])
    /\ UNCHANGED <<status, clock, rows, excused, faults>>
    /\ Watch({})

\* student_mark_attendance: the class's latest session open for check-in.
MarkAttendance(r, s) ==
    /\ status[s] = "checkin_open"
    /\ \A u \in Sessions : u > s => status[u] # "checkin_open"
    /\ Request([Idle EXCEPT !.pc = "dupToday", !.s = s, !.r = r])
    /\ UNCHANGED <<status, clock, rows, excused, faults>>
    /\ Watch({})

\* The duplicate check of each: 409 or 400 if it finds a Present row.
DuplicateCheck ==
    /\ act[Loop].pc \in {"dup", "dupToday"}
    /\ LET a == act[Loop]
           found == \/ PresentIn(rows, a.r, a.s)
                    \/ /\ a.pc = "dupToday"
                       /\ rows[<<a.r, FirstOf[a.s]>>].st = "Present"
       IN  Become(Loop, IF found THEN Idle
                        ELSE [a EXCEPT !.pc = IF @ = "dup" THEN "mark" ELSE "markToday",
                                       !.todo = {a.r} \X PeriodsOf(a.s)])
    /\ UNCHANGED <<status, clock, rows, excused, requests, faults>>
    /\ Watch({})

\* One upsert of the check-in; the handler returns after the last.
MarkPresent ==
    /\ act[Loop].pc \in {"mark", "markToday"}
    /\ \E w \in act[Loop].todo :
         /\ IsNext(w, act[Loop].todo)
         /\ rows' = [rows EXCEPT ![w] = [st |-> "Present", sid |-> act[Loop].s]]
         /\ Become(Loop, IF act[Loop].todo = {w} THEN Idle
                         ELSE [act[Loop] EXCEPT !.todo = @ \ {w}])
    /\ UNCHANGED <<status, clock, excused, requests, faults>>
    /\ Watch({})

\* student_session_checkout, whose session_id may name a session in any
\* status: every row of the student with that session, and the row of the
\* session's first period, becomes Present and keeps its session_id.
CheckoutRows(r, s) ==
    {p \in Periods : HasRow(r, p) /\ (rows[<<r, p>>].sid = s \/ p = FirstOf[s])}

StudentCheckout(r, s) ==
    /\ status[s] # "none"
    /\ rows' = [w \in Pairs |->
                  IF w[1] = r /\ w[2] \in CheckoutRows(r, s)
                  THEN [rows[w] EXCEPT !.st = "Present"] ELSE rows[w]]
    /\ Request(IF CheckoutRows(r, s) = {}
               THEN [Idle EXCEPT !.pc = "checkoutInsert", !.s = s, !.r = r]
               ELSE Idle)
    /\ UNCHANGED <<status, clock, excused, faults>>
    /\ Watch({})

\* "If no row updated": INSERT for the first period only, or on conflict
\* Present with the session_id the row has.
CheckoutInsert ==
    /\ act[Loop].pc = "checkoutInsert"
    /\ LET w == <<act[Loop].r, FirstOf[act[Loop].s]>>
           sid == IF HasRow(w[1], w[2]) THEN rows[w].sid ELSE act[Loop].s
       IN  rows' = [rows EXCEPT ![w] = [st |-> "Present", sid |-> sid]]
    /\ Become(Loop, Idle)
    /\ UNCHANGED <<status, clock, excused, requests, faults>>
    /\ Watch({})

-----------------------------------------------------------------------------
(***************************************************************************)
(* The other automatic writers of student_attendance.                      *)
(***************************************************************************)
\* _credit_student_attendance_v2 for one date, at an approval: ps is what the
\* timetable and session_half select; the day status comes last and covers
\* the whole day.
GrantLeave(r, ps) ==
    /\ Request([Idle EXCEPT !.pc = "credit", !.r = r, !.todo = {r} \X ps])
    /\ UNCHANGED <<status, clock, rows, excused, faults>>
    /\ Watch({})

CreditPeriod ==
    /\ act[Loop].pc = "credit"
    /\ \E w \in act[Loop].todo :
         /\ IsNext(w, act[Loop].todo)
         /\ rows' = [rows EXCEPT ![w].st = "Excused"]
         /\ Become(Loop, [act[Loop] EXCEPT !.todo = @ \ {w}])
    /\ UNCHANGED <<status, clock, excused, requests, faults>>
    /\ Watch({})

CreditDayStatus ==
    /\ act[Loop].pc = "credit"
    /\ act[Loop].todo = {}
    /\ excused' = excused \cup {act[Loop].r}
    /\ Become(Loop, Idle)
    /\ UNCHANGED <<status, clock, rows, requests, faults>>
    /\ Watch({})

\* periodic_student_timetable_absent_marker: the minute is read, then
\* _process_student_period_absences sweeps, then goes through the periods.
StartMarker ==
    /\ act[Loop].pc = "idle"
    /\ clock > 0
    /\ Become(Loop, [Idle EXCEPT !.pc = "sweep", !.queue = Expiring,
                                 !.upto = clock])
    /\ UNCHANGED <<status, clock, rows, excused, requests, faults>>
    /\ Watch({})

\* Slip: a period that ever had a session is left to its closer.
MarkerPeriodNoSession ==
    /\ act[Loop].pc = "marker"
    /\ \E p \in Periods :
         /\ \E r \in Students : <<r, p>> \in act[Loop].todo
         /\ \A w \in act[Loop].todo : p <= w[2]
         /\ rows' =
              IF \E s \in Sessions : status[s] # "none" /\ p \in PeriodsOf(s)
              THEN rows
              ELSE [w \in Pairs |->
                      IF w[2] = p /\ rows[w].st = "none"
                      THEN [st |-> IF w[1] \in excused THEN "Excused" ELSE "Absent",
                            sid |-> 0]
                      ELSE rows[w]]
         /\ LET left == {w \in act[Loop].todo : w[2] # p}
            IN  Become(Loop, IF left = {} THEN Idle
                             ELSE [act[Loop] EXCEPT !.todo = left])
    /\ UNCHANGED <<status, clock, excused, requests, faults>>
    /\ Watch({})

\* A concluded period without an open session: ON CONFLICT DO NOTHING inserts
\* for each student, so the inserts of one period are one step.
MarkerPeriod ==
    /\ act[Loop].pc = "marker"
    /\ \E p \in Periods :
         /\ \E r \in Students : <<r, p>> \in act[Loop].todo
         /\ \A w \in act[Loop].todo : p <= w[2]
         /\ rows' =
              IF \E s \in Sessions : status[s] \in Open /\ p \in PeriodsOf(s)
              THEN rows
              ELSE [w \in Pairs |->
                      IF w[2] = p /\ rows[w].st = "none"
                      THEN [st |-> IF w[1] \in excused THEN "Excused" ELSE "Absent",
                            sid |-> 0]
                      ELSE rows[w]]
         /\ LET left == {w \in act[Loop].todo : w[2] # p}
            IN  Become(Loop, IF left = {} THEN Idle
                             ELSE [act[Loop] EXCEPT !.todo = left])
    /\ UNCHANGED <<status, clock, excused, requests, faults>>
    /\ Watch({})

-----------------------------------------------------------------------------
\* Slip: the last period is counted twice.
TickPastEnd ==
    /\ clock <= NPeriods
    /\ clock' = clock + 1
    /\ UNCHANGED <<status, rows, excused, act, requests, faults>>
    /\ Watch({})

\* The cutoff of one more period passes (its end plus ten minutes).
Tick ==
    /\ clock < NPeriods
    /\ clock' = clock + 1
    /\ UNCHANGED <<status, rows, excused, act, requests, faults>>
    /\ Watch({})

\* A statement of a handler raises and the exception ends the handler: what it
\* wrote stays, what it had still to write is given up.  The crediting prints a
\* failed upsert of the day status, its last statement.
HandlerFails ==
    /\ \/ act[Loop].pc \in {"closeCheckin", "startCheckout", "dup", "dupToday",
                            "mark", "checkoutInsert", "replace", "insert"}
       \/ act[Loop].pc = "credit" /\ act[Loop].todo = {}
    /\ faults < MaxFaults
    /\ faults' = faults + 1
    /\ Become(Loop, Idle)
    /\ UNCHANGED <<status, clock, rows, excused, requests>>
    /\ Watch({})

\* The upserts of student_mark_attendance and of the crediting have an except
\* clause each: a failed one is printed and the next one is tried.
UpsertSkipped ==
    /\ act[Loop].pc \in {"markToday", "credit"}
    /\ faults < MaxFaults
    /\ faults' = faults + 1
    /\ \E w \in act[Loop].todo :
         /\ IsNext(w, act[Loop].todo)
         /\ Become(Loop, IF act[Loop].pc = "markToday" /\ act[Loop].todo = {w}
                         THEN Idle
                         ELSE [act[Loop] EXCEPT !.todo = @ \ {w}])
    /\ UNCHANGED <<status, clock, rows, excused, requests>>
    /\ Watch({})

\* The process dies and is restarted: every local is gone, every row stays.
Crash ==
    /\ faults < MaxFaults
    /\ \E t \in Threads : act[t].pc # "idle"
    /\ faults' = faults + 1
    /\ act' = [t \in Threads |-> Idle]
    /\ UNCHANGED <<status, clock, rows, excused, requests>>
    /\ Watch({})

\* What a busy thread does next.
CloserStep(t) ==
    \/ BeginClose(t) \/ EndSweep(t) \/ ReadPresent(t) \/ ReadExcused(t)
    \/ WriteAbsent(t) \/ FinishClose(t)

CloserFault(t) == WriteAbsentFails(t) \/ CloseFails(t)
HandlerFault   == HandlerFails \/ UpsertSkipped

HandlerStep ==
    \/ UpdateStatus \/ ReplaceDelete \/ ReplaceInsert \/ ReplaceDone
    \/ DuplicateCheck \/ MarkPresent \/ CheckoutInsert
    \/ CreditPeriod \/ CreditDayStatus \/ MarkerPeriod

StaffRequest ==
    \E s \in Sessions :
        \/ StartCheckin(s) \/ QuickStart(s) \/ CloseCheckin(s)
        \/ StartCheckout(s) \/ CloseSession(s)
        \/ \E rs \in SUBSET Students \ {{}}, st \in Marks : Override(s, rs, st)

StudentRequest ==
    \E r \in Students :
        \/ \E s \in Sessions : \/ StudentCheckin(r, s) \/ MarkAttendance(r, s)
                               \/ StudentCheckout(r, s) \/ ScanFace(s, r)
        \/ \E ps \in SUBSET Periods : GrantLeave(r, ps)

Next ==
    \/ \E t \in Threads : AutoCloser(t) \/ CloserStep(t) \/ CloserFault(t)
    \/ HandlerStep
    \/ HandlerFault
    \/ StaffRequest
    \/ StudentRequest
    \/ StartMarker
    \/ Tick
    \/ Crash

(***************************************************************************)
(* Fairness: a running thread is scheduled until it returns, and the two   *)
(* background tasks (every 30 and every 60 seconds) get their turn on the  *)
(* event loop; time passes.  Nothing is assumed of staff, students and     *)
(* polling clients.                                                        *)
(***************************************************************************)
Fairness ==
    /\ \A t \in Threads : WF_vars(CloserStep(t))
    /\ WF_vars(HandlerStep)
    /\ WF_vars(AutoCloser(Loop))
    /\ WF_vars(StartMarker)
    /\ WF_vars(Tick)

Spec     == Init /\ [][Next]_vars
FairSpec == Spec /\ Fairness

-----------------------------------------------------------------------------
(***************************************************************************)
(* Properties.                                                             *)
(***************************************************************************)
\* A close never queues for an absent mark a student who has been checked in
\* to the session, or excused for the day, ever since that close began:
\* reading the present rows before the day statuses, with leave being
\* credited in the opposite order, must not let anyone fall between.
ExemptNeverQueued ==
    \A t \in Threads : act[t].pc = "absent" =>
        \A w \in act[t].todo : w[1] \notin exempt[t]

\* Once a session is closed every student of the roster has a record in one
\* of its periods, is excused, or lost a record to a staff deletion or a
\* failed statement: neither two closers at once nor a crash between the
\* absentee loop and the final UPDATE may skip a student.
Accounted(r, s) ==
    \/ r \in excused
    \/ \E p \in PeriodsOf(s) : HasRow(r, p) \/ <<r, p>> \in cleared

ClosedIsAccounted ==
    \A s \in Sessions, r \in Students : status[s] = "closed" => Accounted(r, s)

\* Check-in is never reopened, whichever stale UPDATE lands last: no session
\* that left checkin_open is ever in checkin_open again.
CheckinNeverReopens ==
    [][\A s \in Sessions :
          status'[s] = "checkin_open" => status[s] \in {"none", "checkin_open"}]_vars

\* Every session whose cutoff passed ends closed, whatever handler was
\* writing its status at that moment.
ExpiredGetsClosed ==
    \A s \in Sessions :
        (status[s] \in Unclosed /\ Expired(s)) ~> (status[s] = "closed")

\* Every student ends with a record for every concluded period: what a
\* crash, a failed statement, a "Pending" override or a check-out that only
\* covers the first period left open is filled in by the marker.
ConcludedGetsRecorded ==
    \A r \in Students, p \in Periods : (p <= clock) ~> HasRow(r, p)

\* A check-in writes every period of its session, a check-out only the first.
CheckedIn(r, s) ==
    \A p \in PeriodsOf(s) : rows[<<r, p>>] = [st |-> "Present", sid |-> s]

\* What the docstring of _execute_close_class_session says: "Auto-marks absent
\* any enrolled student in the class who did not check in".  No step of a
\* close turns Absent a row of a student checked in to all of its session.
OnlyNoShowsMarkedAbsent ==
    [][\A t \in Threads, w \in Pairs :
          act[t].pc = "absent" /\ act'[t].todo = act[t].todo \ {w} /\ w \in act[t].todo
            => ~ (CheckedIn(w[1], act[t].s) /\ rows'[w].st = "Absent")]_vars

\* The comment on the guard of start_checkin_session: "no other open session
\* for same class + any of these periods today".
NoOverlappingOpen ==
    \A s, u \in Sessions :
        s # u /\ Overlap(s, u) => ~ (status[s] \in Open /\ status[u] \in Open)
=============================================================================
