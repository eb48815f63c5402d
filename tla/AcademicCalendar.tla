-------------------------- MODULE AcademicCalendar --------------------------
(***************************************************************************)
(* The calendar of the college: the year's ranges and holidays in the      *)
(* settings, the overrides of single dates with their day orders, the      *)
(* table of declared holidays, and the day status stored per student.      *)
(* Three readers decide from it whether a date is a day off.               *)
(***************************************************************************)
EXTENDS Naturals, FiniteSets

CONSTANTS LastDay,        \* the modelled dates are 1 .. LastDay
          FirstWeekday,   \* the weekday of date 1 (0 is Monday, 6 is Sunday)
          Students,
          RangeSets,      \* the sets of ranges <<first, last>> an admin may send
          Holidays,       \* the maps of holiday overrides an admin may send
          Types,          \* the day types an admin may send
          Cycles,         \* the cycle lengths an admin may send
          MaxOps,         \* bound: the changes of the calendar
          NoRow           \* a model value: no override of a date

Days == 1 .. LastDay
Weekday(d) == (FirstWeekday + d - 1) % 7
Sunday(d) == Weekday(d) = 6

OffTypes == {"HOLIDAY", "OFF_DAY", "DECLARED_HOLIDAY", "PUBLIC_HOLIDAY", "INSTITUTIONAL_HOLIDAY"}
OccasionTypes == {"SPECIAL_EVENT", "SPECIAL_OCCASION", "SPORTS_DAY", "SYMPOSIUM", "ANNUAL_DAY",
                  "CULTURAL", "CULTURAL_EVENT", "FESTIVAL", "EXAM_DAY", "CELEBRATION"}

VARIABLES ranges,     \* academic_settings: the ranges of the year
          holidays,   \* academic_settings: [date -> "none", "holiday", "working_day"]
          dateOver,   \* academic_calendar_date_overrides: [date -> NoRow or a row]
          declared,   \* holiday_calendar: the dates declared as holidays
          active,     \* the students with is_active
          dayStatus,  \* student_academic_day_status: [student -> [date -> day type]]
          bulk,       \* ghost: the last bulk request, <<>> before the first
          ops         \* the changes so far
calVars == <<ranges, holidays, dateOver, declared, active, dayStatus, bulk, ops>>

Row(t, m, o) == [type |-> t, mapped |-> m, order |-> o]
Rows == [type : Types \cup {"WORKING_DAY"}, mapped : 0 .. 6, order : 0 .. 6]

(* The type invariant. *)
CalTypeOK == /\ ranges \in RangeSets
             /\ holidays \in [Days -> {"none", "holiday", "working_day"}]
             /\ dateOver \in [Days -> Rows \cup {NoRow}]
             /\ declared \subseteq Days
             /\ active \subseteq Students
             /\ dayStatus \in [Students -> [Days -> {"none", "HOLIDAY", "APPROVED_OD"}]]
             /\ ops \in 0 .. MaxOps

CalInit == /\ ranges = {}
           /\ holidays = [d \in Days |-> "none"]
           /\ dateOver = [d \in Days |-> NoRow]
           /\ declared = {}
           /\ active \in SUBSET Students
           /\ dayStatus = [s \in Students |-> [d \in Days |-> "none"]]
           /\ bulk = <<>>
           /\ ops = 0

-----------------------------------------------------------------------------
(* The readers. *)

\* No ranges at all make every date valid.
InRanges(d) == ranges = {} \/ \E r \in ranges : r[1] <= d /\ d <= r[2]

HasType(d, S) == dateOver[d] # NoRow /\ dateOver[d].type \in S

\* The override of the date, then the declared holidays, then the settings,
\* then Sunday; a type of no list is passed over.
Status(d) == CASE ~InRanges(d) -> "outside_academic_year"
               [] HasType(d, OffTypes) -> "holiday"
               [] HasType(d, OccasionTypes) -> "special_occasion"
               [] HasType(d, {"WORKING_DAY"}) -> "working_day"
               [] d \in declared -> "holiday"
               [] holidays[d] # "none" -> holidays[d]
               [] Sunday(d) -> "holiday"
               [] OTHER -> "working_day"

\* What _academic_status_for_date returns third.
IsHoliday(d) == Status(d) # "working_day"

\* The resolver of staff schedules.
StaffDay(d) ==
  IF dateOver[d] # NoRow
  THEN [off |-> dateOver[d].type \in OffTypes \cup OccasionTypes, mapped |-> dateOver[d].mapped]
  ELSE [off |-> d \in declared \/ Sunday(d), mapped |-> Weekday(d)]

\* The resolver of timetables by date.
TimetableDay(d) ==
  IF dateOver[d] # NoRow
  THEN [off |-> dateOver[d].type \in {"HOLIDAY", "OFF_DAY"}, mapped |-> dateOver[d].mapped]
  ELSE [off |-> IsHoliday(d), mapped |-> Weekday(d)]

-----------------------------------------------------------------------------
(* The writers. *)

Changed == ops < MaxOps /\ ops' = ops + 1

\* Every active student gets a HOLIDAY row for each date of D.
SyncHolidays(D) ==
  dayStatus' = [s \in Students |-> [d \in Days |->
                  IF s \in active /\ d \in D THEN "HOLIDAY" ELSE dayStatus[s][d]]]

SaveAcademics(R, H) ==
  /\ Changed
  /\ ranges' = R
  /\ holidays' = H
  /\ SyncHolidays({d \in Days : H[d] = "holiday"})
  /\ UNCHANGED <<dateOver, declared, active, bulk>>

SyncDayStatus ==
  /\ Changed
  /\ ranges # {}
  /\ SyncHolidays({d \in Days : InRanges(d) /\ IsHoliday(d)})
  /\ UNCHANGED <<ranges, holidays, dateOver, declared, active, bulk>>

\* Without a weekday in the request the date's own is stored.
SaveOverride(d, t, m) ==
  /\ Changed
  /\ dateOver' = [dateOver EXCEPT ![d] = Row(t, m, 0)]
  /\ UNCHANGED <<ranges, holidays, declared, active, dayStatus, bulk>>

DeleteOverride(d) ==
  /\ Changed
  /\ dateOver[d] # NoRow
  /\ dateOver' = [dateOver EXCEPT ![d] = NoRow]
  /\ UNCHANGED <<ranges, holidays, declared, active, dayStatus, bulk>>

\* The dates that a bulk request writes.
Generated(lo, hi, skip) ==
  {d \in lo .. hi : ~(skip /\ Sunday(d)) /\ ~HasType(d, {"HOLIDAY", "OFF_DAY"})}

\* Slips: the counter goes on over skipped dates, or starts at 0.
\* The day order counter when the loop reaches a date.
Counter(lo, hi, cycle, skip) ==
  LET at[d \in lo .. hi] == IF d = lo THEN 1
                            ELSE IF d - 1 \in Generated(lo, hi, skip) THEN (at[d - 1] % cycle) + 1
                            ELSE at[d - 1]
  IN  at

BulkDayOrders(lo, hi, cycle, skip) ==
  /\ Changed
  /\ LET G == Generated(lo, hi, skip)
         at == Counter(lo, hi, cycle, skip)
     IN  dateOver' = [d \in Days |-> IF d \in G THEN Row("WORKING_DAY", at[d] - 1, at[d])
                                     ELSE dateOver[d]]
  /\ bulk' = <<lo, hi, cycle, skip, ops'>>
  /\ UNCHANGED <<ranges, holidays, declared, active, dayStatus>>

\* A declared holiday reaches the readers at once and the students' rows
\* only with the next synchronisation.
Declare(D) == /\ Changed
              /\ declared' = D
              /\ UNCHANGED <<ranges, holidays, dateOver, active, dayStatus, bulk>>
AddHoliday(d)    == Declare(declared \cup {d})
DeleteHoliday(d) == d \in declared /\ Declare(declared \ {d})

\* Elsewhere a student is registered.
Enrol(s) == /\ s \notin active
            /\ active' = active \cup {s}
            /\ UNCHANGED <<ranges, holidays, dateOver, declared, dayStatus, bulk, ops>>
\* An approved on-duty request is credited, on holidays it is not.
ApproveOD(s, d) == /\ Changed
                   /\ s \in active /\ ~IsHoliday(d)
                   /\ dayStatus' = [dayStatus EXCEPT ![s][d] = "APPROVED_OD"]
                   /\ UNCHANGED <<ranges, holidays, dateOver, declared, active, bulk>>

CalNext == \/ \E R \in RangeSets, H \in Holidays : SaveAcademics(R, H)
           \/ SyncDayStatus
           \/ \E d \in Days, t \in Types : SaveOverride(d, t, Weekday(d)) \/ SaveOverride(d, t, 0)
           \/ \E d \in Days : DeleteOverride(d) \/ AddHoliday(d) \/ DeleteHoliday(d)
           \/ \E lo, hi \in Days, c \in Cycles, skip \in BOOLEAN :
                lo <= hi /\ BulkDayOrders(lo, hi, c, skip)
           \/ \E s \in Students : Enrol(s)
           \/ \E s \in Students, d \in Days : ApproveOD(s, d)

CalSpec == CalInit /\ [][CalNext]_calVars

-----------------------------------------------------------------------------
(* Properties. *)

\* A bulk request starts at day order 1, and from one date it sets to the
\* next one the order and the weekday advance by one in the cycle, whatever
\* lies between them; holidays stay as they were (main.py:37071).
BulkOrder ==
  bulk' # bulk =>
  LET lo == bulk'[1]  hi == bulk'[2]  cycle == bulk'[3]  skip == bulk'[4]
      Kept == {d \in lo .. hi : HasType(d, {"HOLIDAY", "OFF_DAY"}) \/ (skip /\ Sunday(d))}
      W == (lo .. hi) \ Kept
  IN  /\ \A d \in Kept \cup (Days \ (lo .. hi)) : dateOver'[d] = dateOver[d]
      /\ \A d \in W : (\A e \in W : d <= e) => dateOver'[d].order = 1
      /\ \A d, e \in W : d < e /\ (\A x \in W : ~(d < x /\ x < e)) =>
           /\ dateOver'[e].order = (dateOver'[d].order % cycle) + 1
           /\ dateOver'[e].mapped + 1 = dateOver'[e].order

\* "Automatically skipping Sundays and holidays" (main.py:37074): a bulk
\* request makes no holiday a working day, unless it asks for the Sundays.
BulkKeepsHolidays ==
  bulk' # bulk => \A d \in bulk'[1] .. bulk'[2] :
                    Status(d) = "holiday" /\ (bulk'[4] \/ ~Sunday(d)) => Status(d)' = "holiday"

\* Once a holiday is withdrawn the students of a working day attend: nobody
\* keeps a HOLIDAY row for a date the calendar has as a working day.
WithdrawnHoliday == \A s \in Students, d \in Days :
                       Status(d) = "working_day" => dayStatus[s][d] # "HOLIDAY"

\* A date that is off for the attendance is off in both schedules.
ResolversAgree == \A d \in Days : Status(d) \in {"holiday", "special_occasion"}
                                  => StaffDay(d).off /\ TimetableDay(d).off
=============================================================================
