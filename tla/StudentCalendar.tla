--------------------------- MODULE StudentCalendar ---------------------------
(***************************************************************************)
(* The students' academic settings: ranges (semesters) of which one is     *)
(* active, the academic year and overrides of dates, one JSON value of     *)
(* system_config behind a dict in memory that is read again once it is     *)
(* older than a few seconds.  The handlers change the dict itself before   *)
(* they have checked the request.  It stands beside the college's calendar *)
(* (AcademicCalendar), which decides who is off.                           *)
(***************************************************************************)
EXTENDS AcademicCalendar

CONSTANTS Years,      \* the values of active_academic_year
          Semesters,  \* the possible lists of ranges, as sequences of records
          RangeIds,   \* the identifiers and semester types an admin may ask for
          Refusals    \* TRUE: requests that are refused are made too

VARIABLES mem,       \* _student_academic_settings
          stored,    \* the value of system_config
          accepted,  \* ghost: what the accepted requests have made of the settings
          fresh      \* the dict is younger than its refresh time
stuVars == <<mem, stored, accepted, fresh>>

Inactive(q) == [i \in DOMAIN q |-> [q[i] EXCEPT !.active = FALSE]]
(* The type invariant. *)
TypeOK == /\ CalTypeOK
          /\ \A s \in {mem, stored, accepted} :
                /\ s.year \in Years
                /\ Inactive(s.sems) \in {Inactive(q) : q \in Semesters}
                /\ s.over \in [Days -> {"none", "holiday", "working_day"}]
          /\ fresh \in BOOLEAN

Init == /\ CalInit
        /\ \E y \in Years, q \in Semesters :
             mem = [year |-> y, sems |-> q, over |-> [d \in Days |-> "none"]]
        /\ stored = mem /\ accepted = mem
        /\ fresh = TRUE

\* The dict a handler starts from: the one in memory, or the stored value.
Loaded == IF fresh THEN mem ELSE stored

\* An accepted request stores the dict and reads it back.
Accept(s, want) == /\ mem' = s /\ stored' = s
                   /\ accepted' = want
                   /\ fresh' = TRUE
\* A refused one leaves behind what it had written into the dict.
Refuse(s) == /\ Refusals
             /\ mem' = s
             /\ fresh' = TRUE
             /\ UNCHANGED <<stored, accepted>>

SaveSettings(y, q) ==
  Accept([Loaded EXCEPT !.year = y, !.sems = q], [accepted EXCEPT !.year = y, !.sems = q])

\* The year is set before the ranges are found to be wrong.
SaveSettingsRefused(y) == Refuse([Loaded EXCEPT !.year = y])

\* By identifier, else by the semester type.
Named(q, r) == IF \E i \in DOMAIN q : q[i].id = r THEN {i \in DOMAIN q : q[i].id = r}
               ELSE {i \in DOMAIN q : q[i].kind = r}
Activated(s, r) == [s EXCEPT !.sems = [i \in DOMAIN s.sems |->
                                         [s.sems[i] EXCEPT !.active = i \in Named(s.sems, r)]]]
Activate(r) ==
  LET s == Activated(Loaded, r)
  IN  IF Named(Loaded.sems, r) # {} THEN Accept(s, Activated(accepted, r))
      ELSE Refuse(s)      \* 404, with every range switched off

Overridden(s, D, v) == [s EXCEPT !.over = [d \in Days |-> IF d \in D THEN v ELSE s.over[d]]]
OverrideDay(d, v) == Accept(Overridden(Loaded, {d}, v), Overridden(accepted, {d}, v))
OverrideRange(lo, hi, v) ==
  lo <= hi /\ Accept(Overridden(Loaded, lo .. hi, v), Overridden(accepted, lo .. hi, v))
RemoveOverride(d) ==
  /\ Loaded.over[d] # "none"
  /\ Accept(Overridden(Loaded, {d}, "none"), Overridden(accepted, {d}, "none"))

\* The rows of the calendar, by the range they come from: a date belongs to
\* the first range that has it.
CalendarRows(q, over) ==
  [i \in DOMAIN q |-> {[date |-> d, status |-> IF over[d] # "none" THEN over[d]
                                                ELSE IF Sunday(d) THEN "holiday" ELSE "working_day"] :
                         d \in {e \in q[i].first .. q[i].last :
                                  \A j \in DOMAIN q : j < i => ~(q[j].first <= e /\ e <= q[j].last)}}]

\* What the calendar's statistics count.
Counted(rows, v) == LET n[i \in 0 .. Cardinality(DOMAIN rows)] ==
                          IF i = 0 THEN 0 ELSE n[i - 1] + Cardinality({x \in rows[i] : x.status = v})
                    IN  n[Cardinality(DOMAIN rows)]

\* The dict grows old.
Age == /\ fresh
       /\ fresh' = FALSE
       /\ UNCHANGED <<mem, stored, accepted>>

StudentStep ==
  /\ Changed
  /\ \/ \E y \in Years, q \in Semesters : SaveSettings(y, q)
     \/ \E y \in Years : SaveSettingsRefused(y)
     \/ \E r \in RangeIds : Activate(r)
     \/ \E d \in Days, v \in {"holiday", "working_day"} : OverrideDay(d, v)
     \/ \E lo, hi \in Days : OverrideRange(lo, hi, "holiday")
     \/ \E d \in Days : RemoveOverride(d)
  /\ UNCHANGED <<ranges, holidays, dateOver, declared, active, dayStatus, bulk>>

Next == \/ StudentStep
        \/ Age /\ UNCHANGED calVars
        \/ CalNext /\ UNCHANGED stuVars

Spec == Init /\ [][Next]_<<calVars, stuVars>>

-----------------------------------------------------------------------------
(* Properties. *)

\* The statistics of the students' calendar count every date of the ranges
\* once, and its holidays are its Sundays and overrides.
CountedOnce ==
  LET s == Loaded
      rows == CalendarRows(s.sems, s.over)
      D == UNION {s.sems[i].first .. s.sems[i].last : i \in DOMAIN s.sems}
      H == {d \in D : s.over[d] = "holiday" \/ (Sunday(d) /\ s.over[d] = "none")}
  IN  /\ Counted(rows, "holiday") = Cardinality(H)
      /\ Counted(rows, "holiday") + Counted(rows, "working_day") = Cardinality(D)

\* The stored settings are what the accepted requests have asked for.
OnlyAccepted == stored = accepted

=============================================================================
