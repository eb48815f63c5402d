---------------------------- MODULE StaffSchedule ----------------------------
(***************************************************************************)
(* The schedule of one date: what a teacher's calendar lists, what a class *)
(* is shown, and the reminders before a lesson.  Leaves put assignments of *)
(* alternates over the timetable, the calendar may give the date another   *)
(* weekday's timetable, and the timetable may change meanwhile.            *)
(***************************************************************************)
EXTENDS Integers, FiniteSets

CONSTANTS Teachers, SClasses, LastPeriod,
          Weekdays,    \* the weekdays that are timetabled
          Today,       \* the date's own weekday
          Timetables,  \* the initial timetables: [Weekdays \X Periods \X SClasses -> Teachers or NoOne]
          SubjectOf,   \* the subject a class is taught by its teachers: [SClasses -> name]
          Leads,       \* the lead times that are chosen, in minutes
          DefaultLead, \* the lead time of a teacher who has chosen none
          FirstStart, LessonTime, BreakAfter, BreakTime, \* the times of the periods
          DayEvents,   \* the operations used in this instance
          MaxNow,      \* bound: the last minute
          MaxEvents,   \* bound: leaves, timetable and calendar changes
          NoOne        \* a model value: nobody

SPeriods == 1 .. LastPeriod
(* What the theorems take from the constants. *)
ScheduleSettings ==
  /\ LastPeriod \in Nat /\ MaxNow \in Nat
  /\ {FirstStart, LessonTime, BreakAfter, BreakTime} \subseteq Nat
  /\ Leads \cup {DefaultLead} \subseteq Nat
  /\ "dispatch" \in DayEvents => Leads \cup {DefaultLead} \subseteq 0 .. MaxNow
  /\ Today \in Weekdays /\ "holiday" \notin Weekdays /\ NoOne \notin Teachers
  /\ Timetables \subseteq [Weekdays \X SPeriods \X SClasses -> Teachers \cup {NoOne}]
Assignments == [period : SPeriods, class : SClasses, orig : Teachers, alt : Teachers]

VARIABLES table,  \* class_timetable: who teaches a class in a period of a weekday
          follows, \* the weekday whose timetable the date follows, or "holiday"
          leave,  \* who has accepted to stand in for a teacher on the date, or NoOne
          cover,  \* staff_leave_timetable_assignments: the ACTIVE rows of the date
          lead,   \* staff_session_reminder_preferences: lead_time_minutes
          now,    \* the minute of the date
          sent,   \* notifications_all_roles: the reminders of the date
          act,    \* ghost: the last operation
          sOps    \* the changes so far
schVars == <<table, follows, leave, cover, lead, now, sent, act, sOps>>

(* The type invariant. *)
SchTypeOK == /\ table \in [Weekdays \X SPeriods \X SClasses -> Teachers \cup {NoOne}]
             /\ follows \in Weekdays \cup {"holiday"}
             /\ leave \in [Teachers -> Teachers \cup {NoOne}]
             /\ cover \subseteq Assignments
             /\ lead \in [Teachers -> Leads \cup {DefaultLead}]
             /\ now \in 0 .. MaxNow
             /\ sent \subseteq [to : Teachers, in : 1 .. MaxNow, class : SClasses, period : SPeriods]

SchInit == /\ table \in Timetables
           /\ follows = Today
           /\ leave = [t \in Teachers |-> NoOne]
           /\ cover = {}
           /\ lead = [t \in Teachers |-> DefaultLead]
           /\ now = 0
           /\ sent = {}
           /\ act = "none"
           /\ sOps = 0

Change(op) == op \in DayEvents /\ sOps < MaxEvents /\ sOps' = sOps + 1 /\ act' = op

-----------------------------------------------------------------------------
(* What is shown.                                                          *)

StartOf(p) == FirstStart + (p - 1) * LessonTime + (IF p > BreakAfter THEN BreakTime ELSE 0)
EndOf(p) == StartOf(p) + LessonTime
Status(p) == IF now >= EndOf(p) THEN "COMPLETED" ELSE IF now >= StartOf(p) THEN "LIVE" ELSE "UPCOMING"

\* The lessons of the date: the slots of the weekday it follows.
DayLessons == IF follows = "holiday" THEN {}
           ELSE {l \in SPeriods \X SClasses : table[<<follows, l[1], l[2]>>] # NoOne}
TeacherOf(l) == table[<<follows, l[1], l[2]>>]

\* The assignments of a lesson; one of them is read.
CoverOf(l) == {a \in cover : a.period = l[1] /\ a.class = l[2]}
RowOf(l) == CHOOSE a \in CoverOf(l) : TRUE

\* The lessons in a teacher's list: the own ones, and those with an assignment.
SessionsOf(t) == {l \in DayLessons : TeacherOf(l) = t \/ \E a \in CoverOf(l) : a.alt = t}
\* Slip: a class of another teacher is never marked.
SubstitutedCover(t, l) == CoverOf(l) # {} /\ RowOf(l).alt = t
Substituted(t, l) == CoverOf(l) # {} /\ TeacherOf(l) = t /\ RowOf(l).alt # t
\* The lessons a teacher's device calendar gets.
Exported(t) == {l \in SessionsOf(t) : ~Substituted(t, l)}

\* The teacher a class is shown for a lesson.
ShownTo(l) == IF CoverOf(l) = {} THEN TeacherOf(l) ELSE RowOf(l).alt

\* The slots shown to a class: its own, else those of the other classes of the semester.
ClassView(c) == LET own == {l \in DayLessons : l[2] = c}
                IN  IF own # {} THEN own ELSE DayLessons

-----------------------------------------------------------------------------
(* Changes. *)

(* The lessons of a teacher that an alternate takes over with a leave of the date. *)

\* The slots of the date's own weekday: the resolver's result has no day_order_day_name.
HandedOver(t) == {l \in SPeriods \X SClasses : table[<<Today, l[1], l[2]>>] = t}

\* The alternate accepts: the slots of that moment are assigned.
AcceptAlternate(t, a) ==
  /\ Change("accept")
  /\ t # a /\ leave[t] = NoOne
  /\ leave' = [leave EXCEPT ![t] = a]
  /\ cover' = cover \cup (IF follows = "holiday" THEN {}
                          ELSE {[period |-> l[1], class |-> l[2], orig |-> t, alt |-> a] : l \in HandedOver(t)})
  /\ UNCHANGED <<table, follows, lead, now, sent>>

\* The leave is cancelled or rejected.
RevokeAlternate(t) ==
  /\ Change("revoke")
  /\ leave[t] # NoOne
  /\ leave' = [leave EXCEPT ![t] = NoOne]
  /\ cover' = {a \in cover : a.orig # t}
  /\ UNCHANGED <<table, follows, lead, now, sent>>

\* A slot is given to another teacher.
Edit(d, p, c, t) ==
  /\ Change("edit")
  /\ table[<<d, p, c>>] # t
  /\ table' = [table EXCEPT ![<<d, p, c>>] = t]
  /\ UNCHANGED <<follows, leave, cover, lead, now, sent>>

\* The calendar gives the date another weekday's timetable, or declares a holiday.
Override(d) ==
  /\ Change("override")
  /\ follows # d
  /\ follows' = d
  /\ UNCHANGED <<table, leave, cover, lead, now, sent>>

UpdatePreferences(t, m) ==
  /\ Change("prefs")
  /\ lead' = [lead EXCEPT ![t] = m]
  /\ UNCHANGED <<table, follows, leave, cover, now, sent>>

MinutePasses == /\ now < MaxNow
                /\ now' = now + 1
                /\ act' = "tick"
                /\ UNCHANGED <<table, follows, leave, cover, lead, sent, sOps>>

-----------------------------------------------------------------------------
(* Reminders. *)

\* The teachers that are considered: those with a slot on the date's own weekday.
Considered == {t \in Teachers : \E p \in SPeriods, c \in SClasses : table[<<Today, p, c>>] = t}

\* The lessons of a teacher that start within the lead time.
Due(t) == {l \in SessionsOf(t) : /\ Status(l[1]) = "UPCOMING"
                                 /\ StartOf(l[1]) - now <= lead[t]}

\* A reminder is sent unless one of the same title exists: the minutes and the subject.
\* The lessons that start at one time are those of one period.
Reminders(t) ==
  {[to |-> t, in |-> StartOf(l[1]) - now, class |-> l[2], period |-> l[1]] : l \in Due(t)}
SameTitle(n, m) == n.to = m.to /\ n.in = m.in /\ SubjectOf[n.class] = SubjectOf[m.class]

Dispatch ==
  /\ "dispatch" \in DayEvents
  /\ act' = "dispatch"
  /\ sent' = sent \cup {n \in UNION {Reminders(t) : t \in Considered} : \A m \in sent : ~SameTitle(n, m)}
  /\ UNCHANGED <<table, follows, leave, cover, lead, now, sOps>>

SchNext ==
  \/ \E t, a \in Teachers : AcceptAlternate(t, a)
  \/ \E t \in Teachers : RevokeAlternate(t)
  \/ \E d \in Weekdays, p \in SPeriods, c \in SClasses, t \in Teachers : Edit(d, p, c, t)
  \/ \E d \in Weekdays \cup {"holiday"} : Override(d)
  \/ \E t \in Teachers, m \in Leads : UpdatePreferences(t, m)
  \/ MinutePasses
  \/ Dispatch

SchSpec == SchInit /\ [][SchNext]_schVars

-----------------------------------------------------------------------------
(* Properties. *)

\* The calendars and the classes tell one story: a lesson is in the calendar of
\* the teacher its class is shown, and in no other, whatever leaves were
\* accepted and revoked and whatever weekday the date follows.
OneStory == \A l \in DayLessons : {t \in Teachers : l \in Exported(t)} = {ShownTo(l)}

\* Whatever happens to the timetable meanwhile, the teacher a class is shown has the lesson.
Announced == \A l \in DayLessons : l \in Exported(ShownTo(l))

\* A class is shown a substitute only for a teacher who is away.
SubstitutesForAway == \A l \in DayLessons : ShownTo(l) # TeacherOf(l) => leave[TeacherOf(l)] # NoOne

\* Once an alternate has accepted, no lesson of the date is left to the teacher who is away.
AwayCovered == \A l \in DayLessons : leave[TeacherOf(l)] # NoOne => CoverOf(l) # {}

\* Everybody is shown one day: teachers and classes see the same lessons, who is
\* away is replaced, and nobody else is.
OneDay == SchTypeOK /\ OneStory /\ AwayCovered /\ SubstitutesForAway

\* After a run of the reminders every teacher has been told of each lesson in
\* the calendar that starts within the lead time.
Warned ==
  act' = "dispatch" =>
    \A t \in Teachers : \A l \in Exported(t) :
      Status(l[1]) = "UPCOMING" /\ StartOf(l[1]) - now <= lead[t] =>
        \E n \in sent' : n.to = t /\ n.class = l[2] /\ n.period = l[1]

\* A teacher is reminded of a lesson once.
RemindedOnce == \A n, m \in sent :
                  n.to = m.to /\ n.class = m.class /\ n.period = m.period => n = m

\* A class is shown its own lessons only.
OwnLessons == \A c \in SClasses : \A l \in ClassView(c) : l[2] = c
=============================================================================
