---------------------------- MODULE DailyProofs -----------------------------
(***************************************************************************)
(* Theorems about a date of the staff and the disputes about it, for any   *)
(* number of people, any slots and settings: nothing that scans, markers,  *)
(* the repair, leave, the administrators' synchronisation and corrections  *)
(* write to a day's row from what they read earlier loses a time, makes a  *)
(* half Present that no session row shows, or logs a slot twice; leave for *)
(* a whole day stays leave; one dispute about a date is open at a time.    *)
(* And about the timetables of the classes: for any classes, teachers,     *)
(* subjects and days, slots, matrices and automatic schedules book no      *)
(* teacher twice.  And about the campus watch: within a day of live        *)
(* reports nobody is marked absent before the allowed minutes outside, and *)
(* over any days one alert is active at a time.                            *)
(***************************************************************************)
EXTENDS Correction, Timetable, CampusTracking, SetSums

\* The values a scan or the event loop has read, and writes back later: a half
\* it holds as Present has its session row, and the rows of a list exist.
JobsRecorded ==
  HalfDay => \A u \in Users : job[u].pc = "sync" =>
    /\ job[u].fh = "Present" => u \in morning
    /\ job[u].sh = "Present" => u \in evening

LoopRecorded ==
  /\ loop.pc \in {"absences", "overdue"} => \A e \in loop.todo :
       /\ row[e.u] # NoRow
       /\ HalfDay => /\ e.fh = "Present" => e.u \in morning
                     /\ e.sh = "Present" => e.u \in evening
  /\ HalfDay /\ loop.pc \in {"sync", "half"} =>
       /\ loop.fh = "Present" => loop.u \in morning
       /\ loop.sh = "Present" => loop.u \in evening

DailyInv == DayTypeOK /\ PresentHalfRecorded /\ JobsRecorded /\ LoopRecorded

\* A step of the date with the disputes about it.
Step == DayNext \/ MarkApproved \/ \E u \in Users, i \in Nat : Approve(u, i)

\* Times once set stay.
TimesFrom(old, new) ==
  /\ old.fhIn => new.fhIn
  /\ old.fhOut => new.fhOut
  /\ old.shIn => new.shIn
  /\ old.shOut => new.shOut

\* The step writes the row of u, which keeps its times; a half that is Present
\* has its session row.
Put(u, r) ==
  /\ r \in DayRow
  /\ row' = [row EXCEPT ![u] = r]
  /\ row[u] # NoRow => TimesFrom(row[u], r)
  /\ HalfDay => /\ r.fh = "Present" => u \in morning
                /\ r.sh = "Present" => u \in evening

RowsGrow == \A u \in Users : row[u] # NoRow => row'[u] # NoRow /\ TimesFrom(row[u], row'[u])

-----------------------------------------------------------------------------
(* What the handlers compute. *)
LEMMA FreshIs ==
  ASSUME NEW st \in DayStatus
  PROVE  /\ Fresh(st) \in DayRow /\ Fresh(st).st = st
         /\ Fresh(st).fh = "Pending" /\ Fresh(st).sh = "Pending"
  BY DEF Fresh, DayRow, HalfStatus

LEMMA Statuses ==
  ASSUME NEW a, NEW b
  PROVE  StatusNow(a, b) \in DayStatus /\ DailyStatus(a, b, TRUE, TRUE) \in DayStatus
  BY DEF StatusNow, DailyStatus, DayStatus

LEMMA StagesIs ==
  /\ Stages \in StageLists \cup {<<>>}
  /\ \A s \in StageLists : s[1] \in {"past", "first", "second"} /\ Rest(s) \in StageLists \cup {<<>>}
  BY DEF Stages, Rest, StageLists

LEMMA RowFields ==
  ASSUME NEW r \in DayRow
  PROVE  /\ r.st \in DayStatus /\ r.fh \in HalfStatus /\ r.sh \in HalfStatus
         /\ r.fhIn \in BOOLEAN /\ r.fhOut \in BOOLEAN /\ r.shIn \in BOOLEAN /\ r.shOut \in BOOLEAN
         /\ r.in \in BOOLEAN /\ r.out \in BOOLEAN /\ r.leave \in BOOLEAN
  BY DEF DayRow

\* What an upsert starts from.
LEMMA Starting ==
  ASSUME DailyInv, NEW u \in Users, NEW st \in DayStatus
  PROVE  \E o \in DayRow : /\ o = IF row[u] = NoRow THEN Fresh(st) ELSE row[u]
                           /\ row[u] # NoRow => TimesFrom(row[u], o)
                           /\ HalfDay => /\ o.fh = "Present" => u \in morning
                                         /\ o.sh = "Present" => u \in evening
  <1>1. CASE row[u] = NoRow BY <1>1, FreshIs
  <1>2. CASE row[u] # NoRow
    <2>1. row[u] \in DayRow BY <1>2 DEF DailyInv, DayTypeOK
    <2>2. TimesFrom(row[u], row[u]) BY DEF TimesFrom
    <2>3. HalfDay => /\ row[u].fh = "Present" => u \in morning
                     /\ row[u].sh = "Present" => u \in evening
      BY <1>2 DEF DailyInv, PresentHalfRecorded
    <2> QED BY <1>2, <2>1, <2>2, <2>3
  <1> QED BY <1>1, <1>2

-----------------------------------------------------------------------------
(* Writers of the row. *)
\* A finished scan leaves its time in the row.
TimeSet(u, r) ==
  /\ job[u].half = "first" /\ job[u].slot.type = "check_in" => r.fhIn
  /\ job[u].half = "first" /\ job[u].slot.type = "check_out" => r.fhOut
  /\ job[u].half = "second" /\ job[u].slot.type = "check_in" => r.shIn
  /\ job[u].half = "second" /\ job[u].slot.type = "check_out" => r.shOut

LEMMA SyncPuts ==
  ASSUME DailySettings, DailyInv, NEW u \in Users, SyncDaily(u)
  PROVE  \E r \in DayRow : Put(u, r) /\ (HalfDay => TimeSet(u, r))
  <1>1. CASE HalfDay
    <2>1. PICK o \in DayRow : /\ o = IF row[u] = NoRow THEN Fresh("Pending") ELSE row[u]
                              /\ row[u] # NoRow => TimesFrom(row[u], o)
      BY Starting DEF DayStatus
    <2>2. PICK j \in [pc : {"sync"}, slot : Slots, half : Halves, fh : Seen, sh : Seen] : job[u] = j
      BY <1>1 DEF SyncDaily, DailyInv, DayTypeOK, JobRecord, Idle
    <2> DEFINE at(half, type) == j.half = half /\ j.slot.type = type
               a == o.fhIn \/ at("first", "check_in")
               b == o.fhOut \/ at("first", "check_out")
               c == o.shIn \/ at("second", "check_in")
               d == o.shOut \/ at("second", "check_out")
               st == StatusNow(j.fh, j.sh)
               r == [o EXCEPT !.st = st, !.fh = j.fh, !.sh = j.sh, !.fhIn = a, !.fhOut = b,
                              !.shIn = c, !.shOut = d]
    <2>3. a \in BOOLEAN /\ b \in BOOLEAN /\ c \in BOOLEAN /\ d \in BOOLEAN OBVIOUS
    <2>4. /\ o.fhIn => a
          /\ o.fhOut => b
          /\ o.shIn => c
          /\ o.shOut => d
          /\ j.half = "first" /\ j.slot.type = "check_in" => a
          /\ j.half = "first" /\ j.slot.type = "check_out" => b
          /\ j.half = "second" /\ j.slot.type = "check_in" => c
          /\ j.half = "second" /\ j.slot.type = "check_out" => d
      OBVIOUS
    <2>5. HalfDayRow(u) = r BY <2>1, <2>2 DEF HalfDayRow
    <2>6. st \in DayStatus /\ j.fh \in HalfStatus /\ j.sh \in HalfStatus
      BY Statuses DEF Seen, HalfStatus
    <2>7. row' = [row EXCEPT ![u] = r] BY <1>1, <2>5 DEF SyncDaily
    <2> HIDE DEF a, b, c, d, st
    <2>8. r \in DayRow BY <2>3, <2>6 DEF DayRow
    <2>9. /\ r.fh = j.fh /\ r.sh = j.sh
          /\ r.fhIn = a /\ r.fhOut = b /\ r.shIn = c /\ r.shOut = d
      BY DEF DayRow
    <2> HIDE DEF r
    <2>10. TimesFrom(o, r) BY <2>4, <2>9 DEF TimesFrom
    <2>11. row[u] # NoRow => TimesFrom(row[u], r) BY <2>1, <2>10
    <2>12. /\ j.fh = "Present" => u \in morning
           /\ j.sh = "Present" => u \in evening
      BY <1>1, <2>2 DEF DailyInv, JobsRecorded
    <2>13. TimeSet(u, r) BY <2>2, <2>4, <2>9 DEF TimeSet
    <2> QED BY <2>7, <2>8, <2>9, <2>11, <2>12, <2>13 DEF Put
  <1>2. CASE ~HalfDay
    <2>1. PICK o \in DayRow : /\ o = IF row[u] = NoRow THEN Fresh("Present") ELSE row[u]
                              /\ row[u] # NoRow => TimesFrom(row[u], o)
      BY Starting DEF DayStatus
    <2> DEFINE in == job[u].slot.type = "check_in"
               a == o.in \/ in
               b == o.out \/ ~in
               r == [o EXCEPT !.st = "Present", !.in = a, !.out = b, !.leave = FALSE]
    <2>2. a \in BOOLEAN /\ b \in BOOLEAN OBVIOUS
    <2>3. FullDayRow(u) = r BY <2>1 DEF FullDayRow
    <2>4. row' = [row EXCEPT ![u] = r] BY <1>2, <2>3 DEF SyncDaily
    <2> HIDE DEF a, b
    <2>5. r \in DayRow BY <2>2 DEF DayRow, DayStatus
    <2>6. TimesFrom(o, r) BY DEF DayRow, TimesFrom
    <2> HIDE DEF r
    <2> QED BY <1>2, <2>1, <2>4, <2>5, <2>6 DEF Put
  <1> QED BY <1>1, <1>2

\* An edit that leaves the halves and their times alone.
LEMMA EditPuts ==
  ASSUME DailyInv, NEW u \in Users, NEW o \in DayRow, NEW r \in DayRow,
         row[u] # NoRow => TimesFrom(row[u], o),
         HalfDay => /\ o.fh = "Present" => u \in morning
                    /\ o.sh = "Present" => u \in evening,
         TimesFrom(o, r), r.fh = o.fh, r.sh = o.sh, row' = [row EXCEPT ![u] = r]
  PROVE  Put(u, r)
  BY DEF Put, TimesFrom

LEMMA HolidayPuts ==
  ASSUME DailyInv, NEW u \in Users, RequestOnHoliday(u)
  PROVE  \E r \in DayRow : Put(u, r)
  <1>1. PICK o \in DayRow : /\ o = IF row[u] = NoRow THEN Fresh("Holiday") ELSE row[u]
                            /\ row[u] # NoRow => TimesFrom(row[u], o)
                            /\ HalfDay => /\ o.fh = "Present" => u \in morning
                                          /\ o.sh = "Present" => u \in evening
    BY Starting DEF DayStatus
  <1> DEFINE r == IF row[u] = NoRow THEN o ELSE [o EXCEPT !.st = "Holiday", !.leave = FALSE]
  <1>2. row' = [row EXCEPT ![u] = r] BY <1>1 DEF RequestOnHoliday
  <1>3. r \in DayRow BY DEF DayRow, DayStatus
  <1>4. TimesFrom(o, r) /\ r.fh = o.fh /\ r.sh = o.sh BY DEF TimesFrom, DayRow
  <1> HIDE DEF r
  <1> QED BY <1>1, <1>2, <1>3, <1>4, EditPuts

LEMMA OtherStaffPuts ==
  ASSUME DailyInv, NEW u \in Users, OtherStaffMark(u)
  PROVE  \E r \in DayRow : Put(u, r)
  <1>1. PICK o \in DayRow : /\ o = IF row[u] = NoRow THEN Fresh("Present") ELSE row[u]
                            /\ row[u] # NoRow => TimesFrom(row[u], o)
                            /\ HalfDay => /\ o.fh = "Present" => u \in morning
                                          /\ o.sh = "Present" => u \in evening
    BY Starting DEF DayStatus
  <1> DEFINE l == o.leave /\ o.st \notin {"Absent", "Leave"}
             r == IF row[u] = NoRow THEN o ELSE [o EXCEPT !.st = "Present", !.leave = l]
  <1>2. l \in BOOLEAN OBVIOUS
  <1>3. row' = [row EXCEPT ![u] = r] BY <1>1 DEF OtherStaffMark
  <1> HIDE DEF l
  <1>4. r \in DayRow BY <1>2 DEF DayRow, DayStatus
  <1>5. TimesFrom(o, r) /\ r.fh = o.fh /\ r.sh = o.sh BY DEF TimesFrom, DayRow
  <1> HIDE DEF r
  <1> QED BY <1>1, <1>3, <1>4, <1>5, EditPuts

LEMMA GeofencePuts ==
  ASSUME DailyInv, NEW u \in Users, GeofenceAbsent(u)
  PROVE  \E r \in DayRow : Put(u, r)
  <1>1. PICK o \in DayRow : /\ o = row[u]
                            /\ row[u] # NoRow => TimesFrom(row[u], o)
                            /\ HalfDay => /\ o.fh = "Present" => u \in morning
                                          /\ o.sh = "Present" => u \in evening
    BY Starting DEF GeofenceAbsent, DayStatus
  <1> DEFINE r == [o EXCEPT !.st = "Absent"]
  <1>2. row' = [row EXCEPT ![u] = r] BY <1>1 DEF GeofenceAbsent
  <1>3. r \in DayRow BY DEF DayRow, DayStatus
  <1>4. TimesFrom(o, r) /\ r.fh = o.fh /\ r.sh = o.sh BY DEF TimesFrom, DayRow
  <1> HIDE DEF r
  <1> QED BY <1>1, <1>2, <1>3, <1>4, EditPuts

LEMMA AdminGrantPuts ==
  ASSUME DailyInv, NEW u \in Users, AdminGrantDay(u)
  PROVE  \E r \in DayRow : Put(u, r)
  <1>1. PICK o \in DayRow : /\ o = IF row[u] = NoRow THEN Fresh("Leave") ELSE row[u]
                            /\ row[u] # NoRow => TimesFrom(row[u], o)
                            /\ HalfDay => /\ o.fh = "Present" => u \in morning
                                          /\ o.sh = "Present" => u \in evening
    BY Starting DEF DayStatus
  <1> DEFINE r == [o EXCEPT !.st = "Leave", !.leave = TRUE]
  <1>2. row' = [row EXCEPT ![u] = r] BY <1>1 DEF AdminGrantDay
  <1>3. r \in DayRow BY DEF DayRow, DayStatus
  <1>4. TimesFrom(o, r) /\ r.fh = o.fh /\ r.sh = o.sh BY DEF TimesFrom, DayRow
  <1> HIDE DEF r
  <1> QED BY <1>1, <1>2, <1>3, <1>4, EditPuts

LEMMA ApprovePuts ==
  ASSUME CorTypeOK, CorrectionSettings, DailyInv, NEW u \in Users, NEW i \in DOMAIN asked[u],
         Approve(u, i)
  PROVE  \E r \in DayRow : Put(u, r)
  <1>1. PICK o \in DayRow : /\ o = IF row[u] = NoRow THEN Fresh("Pending") ELSE row[u]
                            /\ row[u] # NoRow => TimesFrom(row[u], o)
                            /\ HalfDay => /\ o.fh = "Present" => u \in morning
                                          /\ o.sh = "Present" => u \in evening
    BY Starting DEF DayStatus
  <1>2. PICK w \in DayStatus : w = asked[u][i].want
    BY DEF CorTypeOK, CorrectionSettings, Asked
  <1> DEFINE r == [o EXCEPT !.st = w, !.in = TRUE, !.out = TRUE]
  <1>3. row' = [row EXCEPT ![u] = r] BY <1>1, <1>2 DEF Approve
  <1>4. r \in DayRow BY DEF DayRow
  <1>5. TimesFrom(o, r) /\ r.fh = o.fh /\ r.sh = o.sh BY DEF TimesFrom, DayRow
  <1> HIDE DEF r
  <1> QED BY <1>1, <1>3, <1>4, <1>5, EditPuts

\* An edit of the halves that keeps the times.
LEMMA HalvesPut ==
  ASSUME DailyInv, NEW u \in Users, NEW o \in DayRow, NEW r \in DayRow,
         row[u] # NoRow => TimesFrom(row[u], o), TimesFrom(o, r),
         HalfDay => /\ r.fh = "Present" => u \in morning
                    /\ r.sh = "Present" => u \in evening,
         row' = [row EXCEPT ![u] = r]
  PROVE  Put(u, r)
  BY DEF Put, TimesFrom

LEMMA ServiceGrantPuts ==
  ASSUME DailyInv, NEW u \in Users, ServiceGrantDay(u)
  PROVE  \E r \in DayRow : Put(u, r) /\ r.st = "Leave" /\ r.leave /\ r.fh = "Leave" /\ r.sh = "Leave"
  <1>1. PICK o \in DayRow : /\ o = IF row[u] = NoRow THEN Fresh("Leave") ELSE row[u]
                            /\ row[u] # NoRow => TimesFrom(row[u], o)
    BY Starting DEF DayStatus
  <1> DEFINE r == [o EXCEPT !.st = "Leave", !.leave = TRUE, !.fh = "Leave", !.sh = "Leave"]
  <1>2. row' = [row EXCEPT ![u] = r] BY <1>1 DEF ServiceGrantDay
  <1>3. r \in DayRow BY DEF DayRow, DayStatus, HalfStatus
  <1>4. TimesFrom(o, r) /\ r.fh = "Leave" /\ r.sh = "Leave" /\ r.st = "Leave" /\ r.leave
    BY DEF TimesFrom, DayRow
  <1> HIDE DEF r
  <1> QED BY <1>1, <1>2, <1>3, <1>4, HalvesPut

LEMMA GrantHalfPuts ==
  ASSUME DailyInv, GrantHalfWrite
  PROVE  \E u \in Users, r \in DayRow :
           /\ Put(u, r) /\ r.leave
           /\ LeaveBy = "service" => r.st = "HalfLeave" /\ r.fh # "NULL" /\ r.sh # "NULL"
  <1>1. loop \in [pc : {"half"}, u : Users, half : Halves, fh : HalfStatus \cup {"none"},
                  sh : HalfStatus \cup {"none"}]
    BY DEF GrantHalfWrite, DailyInv, DayTypeOK, LoopRecord, Idle
  <1>2. PICK u \in Users : u = loop.u BY <1>1
  <1>3. PICK o \in DayRow : /\ o = IF row[u] = NoRow THEN Fresh("Leave") ELSE row[u]
                            /\ row[u] # NoRow => TimesFrom(row[u], o)
    BY Starting DEF DayStatus
  <1> DEFINE fh == IF loop.half = "first" THEN "Leave" ELSE Kept(loop.fh)
             sh == IF loop.half = "second" THEN "Leave" ELSE Kept(loop.sh)
             st == IF LeaveBy = "admin" THEN DailyStatus(fh, sh, TRUE, TRUE) ELSE "HalfLeave"
             r == [o EXCEPT !.fh = fh, !.sh = sh, !.leave = TRUE, !.st = st]
  <1>4. \A h \in HalfStatus \cup {"none"} :
          /\ Kept(h) \in HalfStatus
          /\ Kept(h) = "Present" => h = "Present"
          /\ LeaveBy = "service" => Kept(h) # "NULL"
    BY DEF Kept, HalfStatus
  <1>5. /\ fh \in HalfStatus /\ sh \in HalfStatus
        /\ fh = "Present" => loop.fh = "Present"
        /\ sh = "Present" => loop.sh = "Present"
        /\ LeaveBy = "service" => fh # "NULL" /\ sh # "NULL"
    BY <1>1, <1>4 DEF HalfStatus
  <1>6. row' = [row EXCEPT ![u] = r] BY <1>2, <1>3 DEF GrantHalfWrite
  <1>7. HalfDay => /\ loop.fh = "Present" => u \in morning
                   /\ loop.sh = "Present" => u \in evening
    BY <1>1, <1>2 DEF DailyInv, LoopRecorded
  <1> HIDE DEF fh, sh
  <1>8. st \in DayStatus /\ (LeaveBy = "service" => st = "HalfLeave") BY Statuses DEF DayStatus
  <1> HIDE DEF st
  <1>9. r \in DayRow BY <1>5, <1>8 DEF DayRow
  <1>10. TimesFrom(o, r) /\ r.fh = fh /\ r.sh = sh /\ r.st = st /\ r.leave BY DEF TimesFrom, DayRow
  <1> HIDE DEF r
  <1>11. Put(u, r) BY <1>3, <1>5, <1>6, <1>7, <1>9, <1>10, HalvesPut
  <1> QED BY <1>5, <1>8, <1>9, <1>10, <1>11

LEMMA AdminSyncPuts ==
  ASSUME DailyInv, AdminSyncDaily
  PROVE  \E r \in DayRow : loop.u \in Users /\ Put(loop.u, r)
  <1>1. loop \in [pc : {"sync"}, u : Users, fh : Seen, sh : Seen]
    BY DEF AdminSyncDaily, DailyInv, DayTypeOK, LoopRecord, Idle
  <1>2. PICK u \in Users : u = loop.u BY <1>1
  <1>3. PICK o \in DayRow : /\ o = IF row[u] = NoRow THEN Fresh("Pending") ELSE row[u]
                            /\ row[u] # NoRow => TimesFrom(row[u], o)
    BY Starting DEF DayStatus
  <1> DEFINE fh == loop.fh
             sh == loop.sh
             st == StatusNow(fh, sh)
             a == o.fhIn \/ fh = "Present"
             c == o.shIn \/ sh = "Present"
             r == [o EXCEPT !.fh = fh, !.sh = sh, !.st = st, !.fhIn = a, !.shIn = c]
  <1>4. row' = [row EXCEPT ![u] = r] BY <1>2, <1>3 DEF AdminSyncDaily
  <1>5. /\ a \in BOOLEAN /\ c \in BOOLEAN
        /\ o.fhIn => a
        /\ o.shIn => c
    OBVIOUS
  <1>6. fh \in HalfStatus /\ sh \in HalfStatus BY <1>1 DEF Seen, HalfStatus
  <1>7. HalfDay => /\ fh = "Present" => u \in morning
                   /\ sh = "Present" => u \in evening
    BY <1>1, <1>2 DEF DailyInv, LoopRecorded
  <1>8. st \in DayStatus BY Statuses
  <1> HIDE DEF fh, sh, st, a, c
  <1>9. r \in DayRow BY <1>5, <1>6, <1>8 DEF DayRow
  <1>10. TimesFrom(o, r) /\ r.fh = fh /\ r.sh = sh BY <1>5 DEF TimesFrom, DayRow
  <1> HIDE DEF r
  <1> QED BY <1>2, <1>3, <1>4, <1>7, <1>9, <1>10, HalvesPut

\* A row as the absence marker or the repair has read it.
LEMMA ReadRow ==
  ASSUME DailyInv, loop.pc \in {"absences", "overdue"}, NEW e \in loop.todo
  PROVE  /\ e \in Read /\ e.u \in Users /\ e.fh \in HalfStatus /\ e.sh \in HalfStatus
         /\ row[e.u] \in DayRow /\ row[e.u] # NoRow
         /\ HalfDay => /\ e.fh = "Present" => e.u \in morning
                       /\ e.sh = "Present" => e.u \in evening
  <1>1. e \in Read BY DEF DailyInv, DayTypeOK, LoopRecord, Idle
  <1>2. e.u \in Users /\ e.fh \in HalfStatus /\ e.sh \in HalfStatus BY <1>1 DEF Read
  <1>3. row[e.u] # NoRow BY DEF DailyInv, LoopRecorded
  <1>4. row[e.u] \in DayRow BY <1>2, <1>3 DEF DailyInv, DayTypeOK
  <1> QED BY <1>1, <1>2, <1>3, <1>4 DEF DailyInv, LoopRecorded

LEMMA AbsentPuts ==
  ASSUME DailyInv, MarkAbsent
  PROVE  \E e \in loop.todo, r \in DayRow :
           e.u \in Users /\ Put(e.u, r) /\ loop' = [loop EXCEPT !.todo = loop.todo \ {e}]
  <1>1. loop.pc = "absences" BY DEF MarkAbsent
  <1> DEFINE fh(e) == IF loop.half = "first" THEN "Absent" ELSE e.fh
             sh(e) == IF loop.half = "second" THEN "Absent" ELSE e.sh
  <1>2. PICK e \in loop.todo :
          /\ row' = [row EXCEPT ![e.u] = [row[e.u] EXCEPT !.fh = fh(e), !.sh = sh(e),
                                            !.st = StatusNow(fh(e), sh(e))]]
          /\ loop' = [loop EXCEPT !.todo = loop.todo \ {e}]
    BY DEF MarkAbsent
  <1>3. /\ e.u \in Users /\ e.fh \in HalfStatus /\ e.sh \in HalfStatus /\ row[e.u] \in DayRow
        /\ HalfDay => /\ e.fh = "Present" => e.u \in morning
                      /\ e.sh = "Present" => e.u \in evening
    BY <1>1, ReadRow
  <1>4. PICK u \in Users, o \in DayRow : u = e.u /\ o = row[u] BY <1>3
  <1>5. PICK f \in HalfStatus : f = fh(e) /\ (f = "Present" => e.fh = "Present")
    BY <1>3 DEF HalfStatus
  <1>6. PICK s \in HalfStatus : s = sh(e) /\ (s = "Present" => e.sh = "Present")
    BY <1>3 DEF HalfStatus
  <1> HIDE DEF fh, sh
  <1> DEFINE st == StatusNow(f, s)
             r == [o EXCEPT !.fh = f, !.sh = s, !.st = st]
  <1>7. row' = [row EXCEPT ![u] = r] BY <1>2, <1>4, <1>5, <1>6
  <1>8. st \in DayStatus BY Statuses
  <1> HIDE DEF st
  <1>9. r \in DayRow BY <1>8 DEF DayRow
  <1>10. TimesFrom(o, o) /\ TimesFrom(o, r) /\ r.fh = f /\ r.sh = s BY DEF TimesFrom, DayRow
  <1> HIDE DEF r
  <1>11. Put(u, r) BY <1>3, <1>4, <1>5, <1>6, <1>7, <1>9, <1>10, HalvesPut
  <1> QED BY <1>2, <1>4, <1>9, <1>11

LEMMA RepairPuts ==
  ASSUME DailyInv, RepairRow
  PROVE  \E e \in loop.todo, r \in DayRow :
           e.u \in Users /\ Put(e.u, r) /\ loop' = [loop EXCEPT !.todo = loop.todo \ {e}]
  <1>1. loop.pc = "overdue" BY DEF RepairRow
  <1> DEFINE stage == loop.stages[1]
             past == stage = "past"
             fh(e) == IF past THEN (IF e.fh = "Present" THEN "Present" ELSE "Absent")
                      ELSE IF stage = "first" THEN "Absent" ELSE e.fh
             sh(e) == IF past THEN (IF e.sh = "Present" THEN "Present" ELSE "Absent")
                      ELSE IF stage = "second" THEN "Absent" ELSE e.sh
             put(e) == IF stage = "first" THEN row[e.u].sh ELSE sh(e)
  <1>2. PICK e \in loop.todo :
          /\ row' = [row EXCEPT ![e.u] = [row[e.u] EXCEPT !.fh = fh(e), !.sh = put(e),
                                            !.st = StatusNow(fh(e), sh(e))]]
          /\ loop' = [loop EXCEPT !.todo = loop.todo \ {e}]
    BY DEF RepairRow
  <1>3. /\ e.u \in Users /\ e.fh \in HalfStatus /\ e.sh \in HalfStatus /\ row[e.u] \in DayRow
        /\ HalfDay => /\ e.fh = "Present" => e.u \in morning
                      /\ e.sh = "Present" => e.u \in evening
        /\ row[e.u] # NoRow
    BY <1>1, ReadRow
  <1>4. PICK u \in Users, o \in DayRow : u = e.u /\ o = row[u] BY <1>3
  <1>5. HalfDay => (o.sh = "Present" => u \in evening)
    BY <1>3, <1>4 DEF DailyInv, PresentHalfRecorded
  <1>6. PICK f \in HalfStatus : f = fh(e) /\ (f = "Present" => e.fh = "Present")
    BY <1>3 DEF HalfStatus
  <1>7. PICK s \in HalfStatus : s = put(e) /\ (s = "Present" => e.sh = "Present" \/ o.sh = "Present")
    BY <1>3, <1>4, RowFields DEF HalfStatus
  <1>8. PICK st \in DayStatus : st = StatusNow(fh(e), sh(e)) BY Statuses
  <1> HIDE DEF fh, sh, put
  <1> DEFINE r == [o EXCEPT !.fh = f, !.sh = s, !.st = st]
  <1>9. row' = [row EXCEPT ![u] = r] BY <1>2, <1>4, <1>6, <1>7, <1>8
  <1>10. r \in DayRow BY DEF DayRow
  <1>11. TimesFrom(o, o) /\ TimesFrom(o, r) /\ r.fh = f /\ r.sh = s BY DEF TimesFrom, DayRow
  <1> HIDE DEF r
  <1>12. Put(u, r) BY <1>3, <1>4, <1>5, <1>6, <1>7, <1>9, <1>10, <1>11, HalvesPut
  <1> QED BY <1>2, <1>4, <1>10, <1>12

LEMMA MissingPuts ==
  ASSUME DailyInv, InsertMissing
  PROVE  \E u \in loop.todo :
           /\ u \in Users /\ loop' = [loop EXCEPT !.todo = loop.todo \ {u}]
           /\ row' = row \/ \E r \in DayRow : row[u] = NoRow /\ Put(u, r)
  <1>1. loop.pc = "missing" /\ loop.todo \subseteq Users
    BY DEF InsertMissing, DailyInv, DayTypeOK, LoopRecord, Idle
  <1> DEFINE r == IF loop.half = "first"
                  THEN [Fresh("Pending") EXCEPT !.fh = "Absent", !.sh = "NULL"]
                  ELSE [Fresh("Absent") EXCEPT !.fh = "Absent", !.sh = "Absent"]
  <1>2. PICK u \in loop.todo :
          /\ row' = [row EXCEPT ![u] = IF row[u] # NoRow THEN row[u] ELSE r]
          /\ loop' = [loop EXCEPT !.todo = loop.todo \ {u}]
    BY DEF InsertMissing
  <1>3. r \in DayRow /\ r.fh # "Present" /\ r.sh # "Present"
    BY DEF Fresh, DayRow, DayStatus, HalfStatus
  <1> HIDE DEF r
  <1>4. row[u] # NoRow => row' = row BY <1>1, <1>2 DEF DailyInv, DayTypeOK
  <1>5. row[u] = NoRow => Put(u, r) BY <1>2, <1>3 DEF Put
  <1> QED BY <1>1, <1>2, <1>3, <1>4, <1>5

-----------------------------------------------------------------------------
(* The invariant. *)
SmallTypes ==
  /\ phase \in Phases /\ morning \subseteq Users /\ evening \subseteq Users
  /\ scans \in [Users -> [Scanned -> 0 .. MaxScans]]
  /\ marked \subseteq Halves /\ crashes \in 0 .. MaxCrashes
  /\ granted \subseteq Users /\ fenced \subseteq Users

RowMoves ==
  \/ row' = row
  \/ UNCHANGED <<morning, evening>> /\ \E u \in Users, r \in DayRow : Put(u, r)

JobMoves ==
  \/ job' = job
  \/ \E u \in Users, j \in {Idle} \cup JobRecord :
       /\ job' = [job EXCEPT ![u] = j]
       /\ HalfDay /\ j.pc = "sync" => /\ j.fh = "Present" => u \in morning'
                                      /\ j.sh = "Present" => u \in evening'

LoopMoves ==
  \/ loop' = loop
  \/ loop' = Idle
  \/ \E e \in loop.todo : loop # Idle /\ loop' = [loop EXCEPT !.todo = loop.todo \ {e}]
  \/ loop' \in LoopRecord /\ LoopRecorded'

SessionsGrow == morning \subseteq morning' /\ evening \subseteq evening'

LEMMA RowsKeep ==
  ASSUME DailySettings, DailyInv, RowMoves, SessionsGrow
  PROVE  row' \in [Users -> DayRow \cup {NoRow}] /\ PresentHalfRecorded' /\ RowsGrow
  <1>1. CASE row' = row
    <2>1. RowsGrow BY <1>1 DEF RowsGrow, TimesFrom
    <2> QED BY <1>1, <2>1 DEF DailyInv, DayTypeOK, PresentHalfRecorded, SessionsGrow
  <1>2. ASSUME UNCHANGED <<morning, evening>>, NEW u \in Users, NEW r \in DayRow, Put(u, r)
        PROVE  row' \in [Users -> DayRow \cup {NoRow}] /\ PresentHalfRecorded' /\ RowsGrow
    <2>1. row \in [Users -> DayRow \cup {NoRow}] BY DEF DailyInv, DayTypeOK
    <2>2. row' = [row EXCEPT ![u] = r] BY <1>2 DEF Put
    <2>3. row' \in [Users -> DayRow \cup {NoRow}] BY <2>1, <2>2
    <2>4. \A v \in Users : row'[v] = IF v = u THEN r ELSE row[v] BY <2>1, <2>2
    <2>5. PresentHalfRecorded'
      BY <1>2, <2>4 DEF PresentHalfRecorded, Put, DailyInv
    <2>6. r # NoRow BY DEF DailySettings
    <2>7. RowsGrow BY <1>2, <2>4, <2>6 DEF RowsGrow, TimesFrom, Put
    <2> QED BY <2>3, <2>5, <2>7
  <1> QED BY <1>1, <1>2 DEF RowMoves

LEMMA JobsKeep ==
  ASSUME DailyInv, JobMoves, SessionsGrow
  PROVE  job' \in [Users -> {Idle} \cup JobRecord] /\ JobsRecorded'
  <1>1. job \in [Users -> {Idle} \cup JobRecord] BY DEF DailyInv, DayTypeOK
  <1>2. CASE job' = job BY <1>1, <1>2 DEF DailyInv, JobsRecorded, SessionsGrow
  <1>3. ASSUME NEW u \in Users, NEW j \in {Idle} \cup JobRecord, job' = [job EXCEPT ![u] = j],
               HalfDay /\ j.pc = "sync" => /\ j.fh = "Present" => u \in morning'
                                           /\ j.sh = "Present" => u \in evening'
        PROVE  job' \in [Users -> {Idle} \cup JobRecord] /\ JobsRecorded'
    <2>1. \A v \in Users : job'[v] = IF v = u THEN j ELSE job[v] BY <1>1, <1>3
    <2>2. job' \in [Users -> {Idle} \cup JobRecord] BY <1>1, <1>3
    <2>3. JobsRecorded' BY <1>3, <2>1 DEF DailyInv, JobsRecorded, SessionsGrow
    <2> QED BY <2>2, <2>3
  <1> QED BY <1>2, <1>3 DEF JobMoves

LEMMA LoopKeeps ==
  ASSUME DailyInv, LoopMoves, SessionsGrow, RowsGrow
  PROVE  loop' \in {Idle} \cup LoopRecord /\ LoopRecorded'
  <1>1. loop \in {Idle} \cup LoopRecord /\ LoopRecorded BY DEF DailyInv, DayTypeOK
  <1>2. \A e \in Read : e.u \in Users BY DEF Read
  <1>3. loop.pc \in {"absences", "overdue"} => loop.todo \subseteq Read
    BY <1>1 DEF LoopRecord, Idle
  <1>4. loop.pc \in {"sync", "half"} => loop.u \in Users BY <1>1 DEF LoopRecord, Idle
  <1>5. CASE loop' = loop
    BY <1>1, <1>2, <1>3, <1>4, <1>5 DEF LoopRecorded, SessionsGrow, RowsGrow
  <1>6. CASE loop' = Idle BY <1>6 DEF LoopRecorded, Idle
  <1>7. ASSUME NEW e \in loop.todo, loop # Idle, loop' = [loop EXCEPT !.todo = loop.todo \ {e}]
        PROVE  loop' \in {Idle} \cup LoopRecord /\ LoopRecorded'
    <2>1. CASE loop.pc = "absences"
      <3>1. loop \in [pc : {"absences"}, half : Halves, repair : BOOLEAN, todo : SUBSET Read]
        BY <1>1, <2>1 DEF LoopRecord, Idle
      <3>2. loop' \in [pc : {"absences"}, half : Halves, repair : BOOLEAN, todo : SUBSET Read]
        BY <1>7, <3>1
      <3>3. loop'.pc = "absences" /\ loop'.todo \subseteq loop.todo BY <1>7, <3>1
      <3>4. LoopRecorded'
        BY <1>1, <1>2, <1>3, <2>1, <3>3 DEF LoopRecorded, SessionsGrow, RowsGrow
      <3> QED BY <3>2, <3>4 DEF LoopRecord
    <2>2. CASE loop.pc = "overdue"
      <3>1. loop \in [pc : {"overdue"}, stages : StageLists, todo : SUBSET Read]
        BY <1>1, <2>2 DEF LoopRecord, Idle
      <3>2. loop' \in [pc : {"overdue"}, stages : StageLists, todo : SUBSET Read]
        BY <1>7, <3>1
      <3>3. loop'.pc = "overdue" /\ loop'.todo \subseteq loop.todo BY <1>7, <3>1
      <3>4. LoopRecorded'
        BY <1>1, <1>2, <1>3, <2>2, <3>3 DEF LoopRecorded, SessionsGrow, RowsGrow
      <3> QED BY <3>2, <3>4 DEF LoopRecord
    <2>3. CASE loop.pc = "missing"
      <3>1. loop \in [pc : {"missing"}, half : Halves, repair : BOOLEAN, todo : SUBSET Users]
        BY <1>1, <2>3 DEF LoopRecord, Idle
      <3>2. loop' \in [pc : {"missing"}, half : Halves, repair : BOOLEAN, todo : SUBSET Users]
        BY <1>7, <3>1
      <3>3. LoopRecorded' BY <3>2 DEF LoopRecorded
      <3> QED BY <3>2, <3>3 DEF LoopRecord
    <2>4. CASE loop.pc = "sync"
      <3>1. loop \in [pc : {"sync"}, u : Users, fh : Seen, sh : Seen]
        BY <1>1, <2>4 DEF LoopRecord, Idle
      <3>2. loop' = loop BY <1>7, <3>1
      <3> QED BY <3>2, <1>5
    <2>5. CASE loop.pc = "half"
      <3>1. loop \in [pc : {"half"}, u : Users, half : Halves, fh : HalfStatus \cup {"none"},
                      sh : HalfStatus \cup {"none"}]
        BY <1>1, <2>5 DEF LoopRecord, Idle
      <3>2. loop' = loop BY <1>7, <3>1
      <3> QED BY <3>2, <1>5
    <2>6. CASE loop.pc = "approve"
      <3>1. loop \in [pc : {"approve"}, u : Users, i : Nat]
        BY <1>1, <2>6 DEF LoopRecord, Idle
      <3>2. loop' = loop BY <1>7, <3>1
      <3> QED BY <3>2, <1>5
    <2> QED BY <1>1, <1>7, <2>1, <2>2, <2>3, <2>4, <2>5, <2>6 DEF LoopRecord
  <1> QED BY <1>5, <1>6, <1>7 DEF LoopMoves

LEMMA MovesKeep ==
  ASSUME DailySettings, DailyInv, RowMoves, JobMoves, LoopMoves, SessionsGrow, SmallTypes'
  PROVE  DailyInv' /\ RowsGrow
  BY RowsKeep, JobsKeep, LoopKeeps DEF DailyInv, DayTypeOK, SmallTypes

\* The rows of some people, as a SELECT reads them.
LEMMA SnapshotIs ==
  ASSUME DailyInv, NEW S \in SUBSET Users, \A u \in S : row[u] # NoRow
  PROVE  /\ Snapshot(S) \subseteq Read
         /\ \A e \in Snapshot(S) :
              /\ e.u \in S /\ e.fh = row[e.u].fh /\ e.sh = row[e.u].sh
              /\ row[e.u] # NoRow
              /\ HalfDay => /\ e.fh = "Present" => e.u \in morning
                            /\ e.sh = "Present" => e.u \in evening
  <1>1. \A u \in S : row[u] \in DayRow /\ row[u].fh \in HalfStatus /\ row[u].sh \in HalfStatus
    BY RowFields DEF DailyInv, DayTypeOK
  <1>2. \A e \in Snapshot(S) : \E u \in S : e = [u |-> u, fh |-> row[u].fh, sh |-> row[u].sh]
    BY DEF Snapshot
  <1>3. Snapshot(S) \subseteq Read BY <1>1, <1>2 DEF Read
  <1>4. \A e \in Snapshot(S) : e.u \in S /\ e.fh = row[e.u].fh /\ e.sh = row[e.u].sh
    BY <1>2
  <1> QED BY <1>3, <1>4 DEF DailyInv, PresentHalfRecorded

LEMMA AbsencesStart ==
  ASSUME DailyInv, NEW half \in Halves, NEW repair \in BOOLEAN, StartAbsences(half, repair),
         UNCHANGED <<row, morning, evening>>
  PROVE  loop' \in LoopRecord /\ LoopRecorded'
  <1> DEFINE S == {u \in Users : Undecided(u, half)}
  <1>1. /\ loop' = [pc |-> "absences", half |-> half, repair |-> repair, todo |-> Snapshot(S)]
        /\ \A u \in S : row[u] # NoRow
    BY DEF StartAbsences, Undecided
  <1>2. S \in SUBSET Users OBVIOUS
  <1> HIDE DEF S
  <1>3. Snapshot(S) \subseteq Read BY <1>1, <1>2, SnapshotIs
  <1>4. loop'.pc = "absences" /\ loop'.todo = Snapshot(S) BY <1>1
  <1>5. PICK T : T = Snapshot(S) OBVIOUS
  <1>6. \A e \in T : /\ row[e.u] # NoRow
                     /\ HalfDay => /\ e.fh = "Present" => e.u \in morning
                                   /\ e.sh = "Present" => e.u \in evening
    BY <1>1, <1>2, <1>5, SnapshotIs
  <1>7. LoopRecorded' BY <1>4, <1>5, <1>6 DEF LoopRecorded
  <1> QED BY <1>1, <1>3, <1>7 DEF LoopRecord

LEMMA RepairStarts ==
  ASSUME DailyInv, NEW s \in StageLists \cup {<<>>}, loop' = Repairing(s),
         UNCHANGED <<row, morning, evening>>
  PROVE  loop' = Idle \/ (loop' \in LoopRecord /\ LoopRecorded')
  <1>1. CASE s = <<>> BY <1>1 DEF Repairing
  <1>2. CASE s # <<>>
    <2> DEFINE S == Overdue(s[1])
    <2>1. loop' = [pc |-> "overdue", stages |-> s, todo |-> Snapshot(S)] BY <1>2 DEF Repairing
    <2>2. S \in SUBSET Users /\ \A u \in S : row[u] # NoRow BY DEF Overdue
    <2> HIDE DEF S
    <2>3. Snapshot(S) \subseteq Read BY <2>2, SnapshotIs
    <2>4. loop'.pc = "overdue" /\ loop'.todo = Snapshot(S) BY <2>1
    <2>5. PICK T : T = Snapshot(S) OBVIOUS
    <2>6. \A e \in T : /\ row[e.u] # NoRow
                       /\ HalfDay => /\ e.fh = "Present" => e.u \in morning
                                     /\ e.sh = "Present" => e.u \in evening
      BY <2>2, <2>5, SnapshotIs
    <2>7. LoopRecorded' BY <2>4, <2>5, <2>6 DEF LoopRecorded
    <2> QED BY <1>2, <2>1, <2>3, <2>7 DEF LoopRecord
  <1> QED BY <1>1, <1>2

\* A step's five parts, given with the next state of every variable.
Moves == RowMoves /\ JobMoves /\ LoopMoves /\ SessionsGrow /\ SmallTypes'

LEMMA JobPut ==
  ASSUME NEW u \in Users, NEW j \in {Idle} \cup JobRecord, job' = [job EXCEPT ![u] = j],
         HalfDay /\ j.pc = "sync" => /\ j.fh = "Present" => u \in morning'
                                     /\ j.sh = "Present" => u \in evening'
  PROVE  JobMoves
  BY DEF JobMoves

LEMMA RequestMoves ==
  ASSUME DailySettings, DailyInv, NEW u \in Users, RequestScan(u) \/ RequestByRole(u)
  PROVE  Moves
  <1>1. /\ UNCHANGED <<phase, row, morning, evening, scans, loop, marked, crashes, granted, fenced>>
        /\ \E slot \in Slots : job' = [job EXCEPT ![u] = [pc |-> "check", slot |-> slot]]
    <2>1. phase \in Phases /\ SlotsAt[phase] \subseteq Slots /\ Chosen(u) \subseteq SlotsAt[phase]
      BY DEF DailySettings, DailyInv, DayTypeOK, Chosen
    <2> QED BY <2>1 DEF RequestScan, RequestByRole, tables
  <1>2. JobMoves
    <2>1. PICK slot \in Slots : job' = [job EXCEPT ![u] = [pc |-> "check", slot |-> slot]] BY <1>1
    <2>2. [pc |-> "check", slot |-> slot] \in JobRecord BY DEF JobRecord
    <2> QED BY <2>1, <2>2, JobPut
  <1>3. SmallTypes' BY <1>1 DEF SmallTypes, DailyInv, DayTypeOK
  <1> QED BY <1>1, <1>2, <1>3 DEF Moves, RowMoves, LoopMoves, SessionsGrow

\* A scan in its thread, by its place.
LEMMA JobIs ==
  ASSUME DailyInv, NEW u \in Users
  PROVE  /\ job[u].pc \in {"check", "log"} => job[u] \in [pc : {"check", "log"}, slot : Slots]
         /\ job[u].pc = "session" => job[u] \in [pc : {"session"}, slot : Slots]
         /\ job[u].pc = "read" => job[u] \in [pc : {"read"}, slot : Slots, half : Halves]
         /\ job[u].pc \in {"session", "read"} => HalfDay
         /\ job[u] # Idle => job[u].pc \in {"check", "log", "session", "read", "sync"}
                             /\ job[u].slot \in Slots
  BY DEF DailyInv, DayTypeOK, JobRecord, Idle

LEMMA RecheckMoves ==
  ASSUME DailyInv, NEW u \in Users, Recheck(u)
  PROVE  Moves
  <1>1. /\ UNCHANGED <<phase, row, morning, evening, scans, loop, marked, crashes, granted, fenced>>
        /\ \/ job' = [job EXCEPT ![u] = Idle]
           \/ job' = [job EXCEPT ![u] = [job[u] EXCEPT !.pc = "log"]]
    BY DEF Recheck, tables
  <1>2. [job[u] EXCEPT !.pc = "log"] \in [pc : {"check", "log"}, slot : Slots]
    BY JobIs DEF Recheck
  <1>3. \E j \in {Idle} \cup JobRecord : job' = [job EXCEPT ![u] = j] /\ j.pc # "sync"
    BY <1>1, <1>2 DEF JobRecord, Idle
  <1>4. JobMoves BY <1>3, JobPut
  <1>5. SmallTypes' BY <1>1 DEF SmallTypes, DailyInv, DayTypeOK
  <1> QED BY <1>1, <1>4, <1>5 DEF Moves, RowMoves, LoopMoves, SessionsGrow

\* One more scan.
LEMMA ScanAdded ==
  ASSUME DailySettings, DailyInv, NEW u \in Users, NEW c \in Scanned, scans[u][c] < MaxScans,
         scans' = [scans EXCEPT ![u][c] = scans[u][c] + 1]
  PROVE  /\ scans' \in [Users -> [Scanned -> 0 .. MaxScans]]
         /\ \A v \in Users, d \in Scanned :
              scans'[v][d] = IF v = u /\ d = c THEN scans[v][d] + 1 ELSE scans[v][d]
  <1>1. scans \in [Users -> [Scanned -> 0 .. MaxScans]] /\ MaxScans \in Nat
    BY DEF DailySettings, DailyInv, DayTypeOK
  <1>2. scans[u] \in [Scanned -> 0 .. MaxScans] /\ scans[u][c] + 1 \in 0 .. MaxScans BY <1>1
  <1> DEFINE f == [scans[u] EXCEPT ![c] = scans[u][c] + 1]
  <1>3. f \in [Scanned -> 0 .. MaxScans] /\ scans' = [scans EXCEPT ![u] = f] BY <1>2
  <1>4. \A d \in Scanned : f[d] = IF d = c THEN scans[u][d] + 1 ELSE scans[u][d] BY <1>2
  <1> HIDE DEF f
  <1> QED BY <1>1, <1>3, <1>4

LEMMA LogMoves ==
  ASSUME DailySettings, DailyInv, NEW u \in Users, LogScan(u)
  PROVE  /\ Moves
         /\ \A v \in Users, d \in Scanned :
              scans'[v][d] = IF v = u /\ d = [slot |-> job[u].slot, time |-> TimeHalf]
                             THEN scans[v][d] + 1 ELSE scans[v][d]
  <1>1. UNCHANGED <<phase, row, morning, evening, loop, marked, crashes, granted, fenced>>
    BY DEF LogScan
  <1>2. job[u] \in [pc : {"check", "log"}, slot : Slots] BY JobIs DEF LogScan
  <1> DEFINE c == [slot |-> job[u].slot, time |-> TimeHalf]
  <1>3. c \in Scanned BY <1>2 DEF Scanned, TimeHalf, Halves
  <1>4. scans[u][c] < MaxScans /\ scans' = [scans EXCEPT ![u][c] = scans[u][c] + 1]
    BY DEF LogScan
  <1> HIDE DEF c
  <1>5. /\ scans' \in [Users -> [Scanned -> 0 .. MaxScans]]
        /\ \A v \in Users, d \in Scanned :
             scans'[v][d] = IF v = u /\ d = c THEN scans[v][d] + 1 ELSE scans[v][d]
    BY <1>3, <1>4, ScanAdded
  <1>6. JobMoves
    <2> DEFINE p == IF HalfDay THEN "session" ELSE "sync"
               j == [job[u] EXCEPT !.pc = p]
    <2>1. job' = [job EXCEPT ![u] = j] BY DEF LogScan
    <2>2. j = [pc |-> p, slot |-> job[u].slot] /\ job[u].slot \in Slots BY <1>2
    <2>3. j \in JobRecord /\ (HalfDay => j.pc # "sync") BY <2>2 DEF JobRecord
    <2> HIDE DEF j
    <2> QED BY <2>1, <2>3, JobPut
  <1>7. SmallTypes' BY <1>1, <1>5 DEF SmallTypes, DailyInv, DayTypeOK
  <1> QED BY <1>1, <1>5, <1>6, <1>7 DEF Moves, RowMoves, LoopMoves, SessionsGrow, c

LEMMA WriteMoves ==
  ASSUME DailyInv, NEW u \in Users, WriteSession(u)
  PROVE  Moves
  <1>1. UNCHANGED <<phase, row, scans, loop, marked, crashes, granted, fenced>> BY DEF WriteSession
  <1>2. job[u] \in [pc : {"session"}, slot : Slots] /\ HalfDay BY JobIs DEF WriteSession
  <1>3. job' = [job EXCEPT ![u] = [pc |-> "read", slot |-> job[u].slot,
                                   half |-> EffectiveHalf(job[u].slot)]]
    BY DEF WriteSession
  <1>4. EffectiveHalf(job[u].slot) \in Halves
    BY <1>2 DEF EffectiveHalf, TimeHalf, Slots, Halves
  <1>5. JobMoves
    <2> DEFINE j == [pc |-> "read", slot |-> job[u].slot, half |-> EffectiveHalf(job[u].slot)]
    <2>1. j \in JobRecord /\ j.pc # "sync" BY <1>2, <1>4 DEF JobRecord
    <2>2. job' = [job EXCEPT ![u] = j] BY <1>3
    <2> HIDE DEF j
    <2> QED BY <2>1, <2>2, JobPut
  <1>6. SessionsGrow /\ morning' \subseteq Users /\ evening' \subseteq Users
    BY DEF WriteSession, SessionsGrow, DailyInv, DayTypeOK
  <1>7. SmallTypes' BY <1>1, <1>6 DEF SmallTypes, DailyInv, DayTypeOK
  <1> QED BY <1>1, <1>5, <1>6, <1>7 DEF Moves, RowMoves, LoopMoves

LEMMA ReadMoves ==
  ASSUME DailyInv, NEW u \in Users, ReadSessions(u)
  PROVE  Moves
  <1>1. UNCHANGED <<phase, row, morning, evening, scans, loop, marked, crashes, granted, fenced>>
    BY DEF ReadSessions, tables
  <1>2. job[u] \in [pc : {"read"}, slot : Slots, half : Halves] /\ HalfDay
    BY JobIs DEF ReadSessions
  <1> DEFINE f == IF u \in morning THEN "Present" ELSE "NULL"
             s == IF u \in evening THEN "Present" ELSE "NULL"
             j == [pc |-> "sync", slot |-> job[u].slot, half |-> job[u].half, fh |-> f, sh |-> s]
  <1>3. job' = [job EXCEPT ![u] = j] BY DEF ReadSessions
  <1>4. f \in Seen /\ s \in Seen /\ (f = "Present" => u \in morning) /\ (s = "Present" => u \in evening)
    BY DEF Seen
  <1> HIDE DEF f, s
  <1>5. j \in JobRecord /\ j.fh = f /\ j.sh = s BY <1>2, <1>4 DEF JobRecord
  <1> HIDE DEF j
  <1>6. JobMoves BY <1>1, <1>3, <1>4, <1>5, JobPut
  <1>7. SmallTypes' BY <1>1 DEF SmallTypes, DailyInv, DayTypeOK
  <1> QED BY <1>1, <1>6, <1>7 DEF Moves, RowMoves, LoopMoves, SessionsGrow

LEMMA SyncMoves ==
  ASSUME DailySettings, DailyInv, NEW u \in Users, SyncDaily(u)
  PROVE  Moves
  <1>1. UNCHANGED <<phase, morning, evening, scans, loop, marked, crashes, granted, fenced>>
        /\ job' = [job EXCEPT ![u] = Idle]
    BY DEF SyncDaily
  <1>2. RowMoves BY <1>1, SyncPuts DEF RowMoves
  <1>3. JobMoves BY <1>1, JobPut DEF Idle
  <1>4. SmallTypes' BY <1>1 DEF SmallTypes, DailyInv, DayTypeOK
  <1> QED BY <1>1, <1>2, <1>3, <1>4 DEF Moves, LoopMoves, SessionsGrow

LEMMA OtherStaffMoves ==
  ASSUME DailySettings, DailyInv, NEW u \in Users, OtherStaffMark(u)
  PROVE  /\ Moves
         /\ \E c \in Scanned : \A v \in Users, d \in Scanned :
              scans'[v][d] = IF v = u /\ d = c THEN scans[v][d] + 1 ELSE scans[v][d]
  <1>1. UNCHANGED <<phase, morning, evening, job, loop, marked, crashes, granted, fenced>>
    BY DEF OtherStaffMark
  <1>2. RowMoves BY <1>1, OtherStaffPuts DEF RowMoves
  <1>3. PICK slot \in SlotsAt[phase] :
          LET c == [slot |-> slot, time |-> TimeHalf]
          IN  scans[u][c] < MaxScans /\ scans' = [scans EXCEPT ![u][c] = scans[u][c] + 1]
    BY DEF OtherStaffMark
  <1> DEFINE c == [slot |-> slot, time |-> TimeHalf]
  <1>4. c \in Scanned BY DEF Scanned, TimeHalf, Halves, DailySettings, DailyInv, DayTypeOK
  <1>5. scans[u][c] < MaxScans /\ scans' = [scans EXCEPT ![u][c] = scans[u][c] + 1] BY <1>3
  <1> HIDE DEF c
  <1>6. /\ scans' \in [Users -> [Scanned -> 0 .. MaxScans]]
        /\ \A v \in Users, d \in Scanned :
             scans'[v][d] = IF v = u /\ d = c THEN scans[v][d] + 1 ELSE scans[v][d]
    BY <1>4, <1>5, ScanAdded
  <1>7. SmallTypes' BY <1>1, <1>6 DEF SmallTypes, DailyInv, DayTypeOK
  <1> QED BY <1>1, <1>2, <1>4, <1>6, <1>7 DEF Moves, JobMoves, LoopMoves, SessionsGrow

LEMMA MarkerMoves ==
  ASSUME DailySettings, DailyInv, NEW half \in Halves, FireMarker(half) \/ TriggerEod
  PROVE  Moves
  <1>1. UNCHANGED <<phase, row, morning, evening, scans, job, crashes, granted, fenced>>
        /\ marked' \subseteq Halves
    BY DEF FireMarker, TriggerEod, tables, DailyInv, DayTypeOK
  <1>2. StartAbsences(half, TRUE) \/ StartAbsences("second", FALSE) BY DEF FireMarker, TriggerEod
  <1>3. loop' \in LoopRecord /\ LoopRecorded' BY <1>1, <1>2, AbsencesStart DEF Halves
  <1>4. SmallTypes' BY <1>1 DEF SmallTypes, DailyInv, DayTypeOK
  <1> QED BY <1>1, <1>3, <1>4 DEF Moves, RowMoves, JobMoves, LoopMoves, SessionsGrow

\* The steps of the absence marker and of the repair that write a row.
LEMMA ListMoves ==
  ASSUME DailyInv, MarkAbsent \/ InsertMissing \/ RepairRow
  PROVE  Moves
  <1>1. UNCHANGED <<phase, morning, evening, scans, job, marked, crashes, granted, fenced>>
    BY DEF MarkAbsent, InsertMissing, RepairRow
  <1>2. RowMoves BY <1>1, AbsentPuts, RepairPuts, MissingPuts DEF RowMoves
  <1>3. loop # Idle
    <2>1. loop.pc # "idle" BY DEF MarkAbsent, InsertMissing, RepairRow
    <2> QED BY <2>1 DEF Idle
  <1>4. LoopMoves BY <1>3, AbsentPuts, RepairPuts, MissingPuts DEF LoopMoves
  <1>5. SmallTypes' BY <1>1 DEF SmallTypes, DailyInv, DayTypeOK
  <1> QED BY <1>1, <1>2, <1>4, <1>5 DEF Moves, JobMoves, SessionsGrow

\* The steps that read.
LEMMA SelectMoves ==
  ASSUME DailyInv, SelectMissing \/ EndAbsences \/ Repair \/ NextStage
  PROVE  Moves
  <1>1. UNCHANGED <<phase, row, morning, evening, scans, job, marked, crashes, granted, fenced>>
    BY DEF SelectMissing, EndAbsences, Repair, NextStage, tables
  <1>2. ASSUME SelectMissing PROVE LoopMoves
    <2> DEFINE l == [loop EXCEPT !.pc = "missing", !.todo = {u \in Users : row[u] = NoRow}]
    <2>1. loop \in [pc : {"absences"}, half : Halves, repair : BOOLEAN, todo : SUBSET Read]
      BY <1>2 DEF SelectMissing, DailyInv, DayTypeOK, LoopRecord, Idle
    <2>2. l \in [pc : {"missing"}, half : Halves, repair : BOOLEAN, todo : SUBSET Users] BY <2>1
    <2>3. loop' = l BY <1>2 DEF SelectMissing
    <2> HIDE DEF l
    <2>4. LoopRecorded' BY <2>2, <2>3 DEF LoopRecorded
    <2> QED BY <2>2, <2>3, <2>4 DEF LoopMoves, LoopRecord
  <1>3. ASSUME EndAbsences PROVE LoopMoves
    <2>1. loop' = Repairing(Stages) \/ loop' = Idle BY <1>3 DEF EndAbsences
    <2> QED BY <1>1, <2>1, StagesIs, RepairStarts DEF LoopMoves
  <1>4. ASSUME Repair PROVE LoopMoves
    <2>1. loop' = Repairing(Stages) \/ loop' = Idle BY <1>4 DEF Repair
    <2> QED BY <1>1, <2>1, StagesIs, RepairStarts DEF LoopMoves
  <1>5. ASSUME NextStage PROVE LoopMoves
    <2>1. loop.stages \in StageLists
      BY <1>5 DEF NextStage, DailyInv, DayTypeOK, LoopRecord, Idle
    <2>2. loop' = Repairing(Rest(loop.stages)) BY <1>5 DEF NextStage
    <2> QED BY <1>1, <2>1, <2>2, StagesIs, RepairStarts DEF LoopMoves
  <1>6. SmallTypes' BY <1>1 DEF SmallTypes, DailyInv, DayTypeOK
  <1> QED BY <1>1, <1>2, <1>3, <1>4, <1>5, <1>6 DEF Moves, RowMoves, JobMoves, SessionsGrow

LEMMA AdminSyncMoves ==
  ASSUME DailyInv, NEW u \in Users, AdminSyncSessions(u)
  PROVE  Moves
  <1>1. UNCHANGED <<phase, row, scans, job, marked, crashes, granted, fenced>>
    BY DEF AdminSyncSessions
  <1>2. \E m, e : /\ morning' = morning \cup m /\ m \subseteq {u}
                  /\ evening' = evening \cup e /\ e \subseteq {u}
                  /\ loop' = [pc |-> "sync", u |-> u,
                              fh |-> IF u \in morning' THEN "Present" ELSE "NULL",
                              sh |-> IF u \in evening' THEN "Present" ELSE "NULL"]
    <2> DEFINE at(half) == \E c \in Scanned : c.time = half /\ scans[u][c] > 0
               m == IF at("first") THEN {u} ELSE {}
               e == IF at("second") THEN {u} ELSE {}
    <2>1. m \subseteq {u} /\ e \subseteq {u} OBVIOUS
    <2>2. morning' = morning \cup m /\ evening' = evening \cup e BY DEF AdminSyncSessions
    <2>3. loop' = [pc |-> "sync", u |-> u,
                   fh |-> IF u \in morning \cup m THEN "Present" ELSE "NULL",
                   sh |-> IF u \in evening \cup e THEN "Present" ELSE "NULL"]
      BY DEF AdminSyncSessions
    <2> HIDE DEF m, e
    <2> QED BY <2>1, <2>2, <2>3
  <1>3. SessionsGrow /\ morning' \subseteq Users /\ evening' \subseteq Users
    BY <1>2 DEF SessionsGrow, DailyInv, DayTypeOK
  <1>4. loop' \in [pc : {"sync"}, u : Users, fh : Seen, sh : Seen] BY <1>2 DEF Seen
  <1>5. LoopRecorded' BY <1>2 DEF LoopRecorded
  <1>6. SmallTypes' BY <1>1, <1>3 DEF SmallTypes, DailyInv, DayTypeOK
  <1> QED BY <1>1, <1>3, <1>4, <1>5, <1>6 DEF Moves, RowMoves, JobMoves, LoopMoves, LoopRecord

LEMMA HalfReadMoves ==
  ASSUME DailyInv, NEW u \in Users, NEW half \in Halves, GrantHalfRead(u, half)
  PROVE  Moves
  <1>1. UNCHANGED <<phase, row, morning, evening, scans, job, marked, crashes, granted, fenced>>
    BY DEF GrantHalfRead, tables
  <1> DEFINE f == IF row[u] = NoRow THEN "none" ELSE row[u].fh
             s == IF row[u] = NoRow THEN "none" ELSE row[u].sh
  <1>2. loop' = [pc |-> "half", u |-> u, half |-> half, fh |-> f, sh |-> s] BY DEF GrantHalfRead
  <1>3. row[u] # NoRow => row[u] \in DayRow BY DEF DailyInv, DayTypeOK
  <1>4. /\ f \in HalfStatus \cup {"none"} /\ s \in HalfStatus \cup {"none"}
        /\ HalfDay => /\ f = "Present" => u \in morning
                      /\ s = "Present" => u \in evening
    BY <1>3, RowFields DEF DailyInv, PresentHalfRecorded
  <1>5. PICK a, b : a = f /\ b = s OBVIOUS
  <1> HIDE DEF f, s
  <1>6. loop' \in LoopRecord BY <1>2, <1>4 DEF LoopRecord
  <1>7. LoopRecorded' BY <1>1, <1>2, <1>4, <1>5 DEF LoopRecorded
  <1>8. SmallTypes' BY <1>1 DEF SmallTypes, DailyInv, DayTypeOK
  <1> QED BY <1>1, <1>6, <1>7, <1>8 DEF Moves, RowMoves, JobMoves, LoopMoves, SessionsGrow

\* The other steps of the event loop that write a row.
LEMMA GrantMoves ==
  ASSUME DailySettings, DailyInv, NEW u \in Users,
         \/ RequestOnHoliday(u) \/ AdminGrantDay(u) \/ ServiceGrantDay(u) \/ GeofenceAbsent(u)
         \/ GrantHalfWrite \/ AdminSyncDaily
  PROVE  Moves
  <1>1. /\ UNCHANGED <<phase, morning, evening, scans, job, marked, crashes>>
        /\ loop' = loop \/ loop' = Idle
    BY DEF RequestOnHoliday, AdminGrantDay, ServiceGrantDay, GeofenceAbsent, GrantHalfWrite,
           AdminSyncDaily
  <1>2. granted' \subseteq Users /\ fenced' \subseteq Users
    BY DEF RequestOnHoliday, AdminGrantDay, ServiceGrantDay, GeofenceAbsent, GrantHalfWrite,
           AdminSyncDaily, DailyInv, DayTypeOK
  <1>3. RowMoves
    BY <1>1, HolidayPuts, AdminGrantPuts, ServiceGrantPuts, GeofencePuts, GrantHalfPuts,
       AdminSyncPuts DEF RowMoves
  <1>4. SmallTypes' BY <1>1, <1>2 DEF SmallTypes, DailyInv, DayTypeOK
  <1> QED BY <1>1, <1>3, <1>4 DEF Moves, JobMoves, LoopMoves, SessionsGrow

LEMMA AdvanceMoves ==
  ASSUME DailySettings, DailyInv, Advance
  PROVE  Moves
  <1>1. UNCHANGED <<row, morning, evening, scans, job, loop, marked, crashes, granted, fenced>>
        /\ phase' \in Phases
    BY DEF Advance, tables, DailyInv, DayTypeOK, Phases
  <1>2. SmallTypes' BY <1>1 DEF SmallTypes, DailyInv, DayTypeOK
  <1> QED BY <1>1, <1>2 DEF Moves, RowMoves, JobMoves, LoopMoves, SessionsGrow

LEMMA CrashKeeps ==
  ASSUME DailySettings, DailyInv, Crash
  PROVE  DailyInv' /\ RowsGrow
  <1>1. /\ UNCHANGED <<phase, row, morning, evening, scans, granted, fenced>>
        /\ crashes' \in 0 .. MaxCrashes /\ marked' = {} /\ loop' = Idle
        /\ job' = [v \in Users |-> Idle]
    BY DEF Crash, tables, DailyInv, DayTypeOK, DailySettings
  <1>2. DayTypeOK' BY <1>1 DEF DailyInv, DayTypeOK
  <1>3. JobsRecorded' /\ LoopRecorded' BY <1>1 DEF JobsRecorded, LoopRecorded, Idle
  <1>4. PresentHalfRecorded' BY <1>1 DEF DailyInv, PresentHalfRecorded
  <1>5. RowsGrow BY <1>1 DEF RowsGrow, TimesFrom
  <1> QED BY <1>2, <1>3, <1>4, <1>5 DEF DailyInv

\* Every step but a restart, by its parts.
LEMMA NextMoves ==
  ASSUME DailySettings, DailyInv, DayNext
  PROVE  Moves \/ Crash
  <1>1. ASSUME NEW u \in Users,
               \/ RequestScan(u) \/ RequestByRole(u) \/ RequestOnHoliday(u)
               \/ Job(u) \/ OtherStaffMark(u)
               \/ AdminSyncSessions(u) \/ AdminGrantDay(u) \/ ServiceGrantDay(u)
               \/ GeofenceAbsent(u)
               \/ \E half \in Halves : GrantHalfRead(u, half)
        PROVE  Moves
    BY <1>1, RequestMoves, RecheckMoves, LogMoves, WriteMoves, ReadMoves, SyncMoves,
       OtherStaffMoves, AdminSyncMoves, HalfReadMoves, GrantMoves DEF Job
  <1>2. ASSUME (\E half \in Halves : FireMarker(half)) \/ TriggerEod PROVE Moves
    BY <1>2, MarkerMoves DEF Halves
  <1>3. ASSUME Running \/ Repair PROVE Moves
    <2>1. CASE GrantHalfWrite \/ AdminSyncDaily
      <3>1. PICK u \in Users : TRUE
        BY <2>1, GrantHalfPuts, AdminSyncPuts
      <3> QED BY <2>1, GrantMoves
    <2> QED BY <1>3, <2>1, ListMoves, SelectMoves DEF Running
  <1>4. CASE Advance BY <1>4, AdvanceMoves
  <1> QED BY <1>1, <1>2, <1>3, <1>4 DEF DayNext

LEMMA DailyStarts ==
  ASSUME DailySettings, DayInit PROVE DailyInv
  <1>1. DayTypeOK BY DEF DailySettings, DayInit, DayTypeOK, Phases
  <1>2. PresentHalfRecorded /\ JobsRecorded /\ LoopRecorded
    BY DEF DayInit, PresentHalfRecorded, JobsRecorded, LoopRecorded, Idle
  <1> QED BY <1>1, <1>2 DEF DailyInv

LEMMA DailySteps ==
  ASSUME DailySettings, DailyInv, [DayNext]_dayVars
  PROVE  DailyInv' /\ RowsGrow
  <1>1. CASE DayNext BY <1>1, NextMoves, MovesKeep, CrashKeeps DEF Moves
  <1>2. CASE UNCHANGED dayVars
    <2>1. UNCHANGED <<phase, row, morning, evening, scans, job, loop, marked, crashes, granted, fenced>>
      BY <1>2 DEF dayVars, tables
    <2>2. SmallTypes' BY <2>1 DEF SmallTypes, DailyInv, DayTypeOK
    <2> QED BY <2>1, <2>2, MovesKeep DEF RowMoves, JobMoves, LoopMoves, SessionsGrow
  <1> QED BY <1>1, <1>2

\* The row of a day, the scans on their way and what the event loop has read are
\* well typed, for any number of people and any slots.
THEOREM DailyTypes ==
  ASSUME DailySettings PROVE DaySpec => []DayTypeOK
  <1>1. DayInit => DailyInv BY DailyStarts
  <1>2. DailyInv /\ [DayNext]_dayVars => DailyInv' BY DailySteps
  <1>3. DailyInv => DayTypeOK BY DEF DailyInv
  <1> QED BY <1>1, <1>2, <1>3, PTL DEF DaySpec

\* Only a row of the half's own session table makes the half Present, whatever
\* the markers, repairs, leave and synchronisations write back from earlier reads.
THEOREM RecordedSafe ==
  ASSUME DailySettings PROVE DaySpec => []PresentHalfRecorded
  <1>1. DayInit => DailyInv BY DailyStarts
  <1>2. DailyInv /\ [DayNext]_dayVars => DailyInv' BY DailySteps
  <1>3. DailyInv => PresentHalfRecorded BY DEF DailyInv
  <1> QED BY <1>1, <1>2, <1>3, PTL DEF DaySpec

\* No step loses a time recorded in a row.
THEOREM TimesSafe ==
  ASSUME DailySettings PROVE DaySpec => [][TimesKept]_dayVars
  <1>1. DayInit => DailyInv BY DailyStarts
  <1>2. DailyInv /\ [DayNext]_dayVars => DailyInv' BY DailySteps
  <1>3. DailyInv /\ [DayNext]_dayVars => [TimesKept]_dayVars
    <2>1. DailyInv /\ [DayNext]_dayVars => RowsGrow BY DailySteps
    <2>2. RowsGrow => TimesKept BY DEF RowsGrow, TimesFrom, TimesKept
    <2> QED BY <2>1, <2>2
  <1> QED BY <1>1, <1>2, <1>3, PTL DEF DaySpec

-----------------------------------------------------------------------------
(* No slot is logged twice. *)
\* A slot that Permitted refuses from now on.
SlotTaken(u, slot) ==
  /\ slot.half = "day" => Logged(u, slot.type)
  /\ slot.half = "first" /\ slot.type = "check_in" => HasIn(u, "first")
  /\ slot.half = "second" /\ slot.type = "check_in" => HasIn(u, "second")
  /\ slot.half = "first" /\ slot.type = "check_out" => row[u] # NoRow /\ row[u].fhOut
  /\ slot.half = "second" /\ slot.type = "check_out" => row[u] # NoRow /\ row[u].shOut

\* Logged, and on the way to the session row or the day's row.
InFlight(u, slot) == job[u].pc \in {"session", "read", "sync"} /\ job[u].slot = slot

\* One scan more than restarts only of a slot that is taken or about to be;
\* who is about to log has been checked and no other scan of his runs.
Once(u, slot) ==
  /\ Scan(u, slot) <= 1 + crashes
  /\ job[u].pc = "log" /\ job[u].slot = slot => Scan(u, slot) <= crashes
  /\ Scan(u, slot) <= crashes \/ SlotTaken(u, slot) \/ InFlight(u, slot)

\* The session a scan writes is that of its slot.
Fits(j) ==
  j # Idle =>
    IF HalfDay THEN j.pc \in {"read", "sync"} /\ j.slot.half # "day" => j.half = j.slot.half
    ELSE j.slot.half = "day"

OnceInv ==
  /\ \A u \in Users \ OtherStaff, slot \in Slots : Once(u, slot)
  /\ \A u \in Users : Fits(job[u])

LEMMA ScanIs ==
  ASSUME DailyInv, DailySettings, NEW u \in Users, NEW slot \in Slots
  PROVE  /\ Scan(u, slot) \in Nat /\ crashes \in Nat
         /\ Scan(u, slot) > 0 => Logged(u, slot.type)
         /\ [slot |-> slot, time |-> "first"] \in Scanned
         /\ [slot |-> slot, time |-> "second"] \in Scanned
  <1>1. /\ [slot |-> slot, time |-> "first"] \in Scanned
        /\ [slot |-> slot, time |-> "second"] \in Scanned
    BY DEF Scanned, Halves
  <1>2. crashes \in Nat BY DEF DailyInv, DayTypeOK, DailySettings
  <1>3. \A c \in Scanned : scans[u][c] \in Nat BY DEF DailyInv, DayTypeOK, DailySettings
  <1>4. Scan(u, slot) \in Nat BY <1>1, <1>3 DEF Scan
  <1>5. ASSUME Scan(u, slot) > 0 PROVE Logged(u, slot.type)
    <2> DEFINE a == [slot |-> slot, time |-> "first"]
               b == [slot |-> slot, time |-> "second"]
    <2>1. a.slot = slot /\ b.slot = slot OBVIOUS
    <2>2. scans[u][a] > 0 \/ scans[u][b] > 0 BY <1>1, <1>3, <1>5 DEF Scan
    <2> HIDE DEF a, b
    <2> QED BY <1>1, <2>1, <2>2 DEF Logged, a, b
  <1> QED BY <1>1, <1>2, <1>4, <1>5

LEMMA TakenStays ==
  ASSUME RowsGrow, SessionsGrow, NEW u \in Users, NEW slot \in Slots, SlotTaken(u, slot),
         \A type : Logged(u, type) => Logged(u, type)'
  PROVE  SlotTaken(u, slot)'
  BY DEF SlotTaken, RowsGrow, SessionsGrow, TimesFrom, HasIn

\* A slot that may be taken is not taken.
LEMMA PermittedFree ==
  ASSUME NEW u \in Users, NEW slot \in Slots, Permitted(u, slot)
  PROVE  ~SlotTaken(u, slot)
  <1>1. slot.type \in {"check_in", "check_out"} /\ slot.half \in {"first", "second", "day"}
    BY DEF Slots, Halves
  <1>2. CASE slot.half = "first" /\ slot.type = "check_in" BY <1>2 DEF Permitted, SlotTaken
  <1>3. CASE slot.half = "first" /\ slot.type = "check_out" BY <1>3 DEF Permitted, SlotTaken
  <1>4. CASE slot.half = "second" /\ slot.type = "check_in" BY <1>4 DEF Permitted, SlotTaken
  <1>5. CASE slot.half = "second" /\ slot.type = "check_out" BY <1>5 DEF Permitted, SlotTaken
  <1>6. CASE slot.half = "day" /\ slot.type = "check_in" BY <1>6 DEF Permitted, SlotTaken
  <1>7. CASE slot.half = "day" /\ slot.type = "check_out" BY <1>7 DEF Permitted, SlotTaken
  <1> QED BY <1>1, <1>2, <1>3, <1>4, <1>5, <1>6, <1>7

\* A slot of which no scan is logged in the step.
LEMMA OnceStays ==
  ASSUME RowsGrow, SessionsGrow, NEW u \in Users, NEW slot \in Slots, Once(u, slot),
         \A c \in Scanned : scans'[u][c] = scans[u][c], crashes' = crashes,
         [slot |-> slot, time |-> "first"] \in Scanned,
         [slot |-> slot, time |-> "second"] \in Scanned,
         job'[u].pc = "log" /\ job'[u].slot = slot =>
           (job[u].pc = "log" /\ job[u].slot = slot) \/ Scan(u, slot) <= crashes,
         InFlight(u, slot) => InFlight(u, slot)' \/ SlotTaken(u, slot)' \/ Scan(u, slot) <= crashes
  PROVE  Once(u, slot)'
  <1>1. Scan(u, slot)' = Scan(u, slot) BY DEF Scan
  <1>2. \A type : Logged(u, type) => Logged(u, type)' BY DEF Logged
  <1>3. SlotTaken(u, slot) => SlotTaken(u, slot)' BY <1>2, TakenStays
  <1> QED BY <1>1, <1>3 DEF Once

\* Steps that neither log a scan nor move one on.
LEMMA OnceOthers ==
  ASSUME DailySettings, DailyInv, RowsGrow, SessionsGrow, OnceInv,
         UNCHANGED <<scans, job, crashes>>
  PROVE  OnceInv'
  <1>1. \A u \in Users : Fits(job[u])' BY DEF OnceInv, Fits
  <1>2. ASSUME NEW u \in Users \ OtherStaff, NEW slot \in Slots PROVE Once(u, slot)'
    <2>1. InFlight(u, slot) => InFlight(u, slot)' BY DEF InFlight
    <2> QED BY <2>1, ScanIs, OnceStays DEF OnceInv
  <1> QED BY <1>1, <1>2 DEF OnceInv

\* A step of one scan that logs nothing.
LEMMA OnceMoved ==
  ASSUME DailySettings, DailyInv, RowsGrow, SessionsGrow, OnceInv,
         UNCHANGED <<scans, crashes>>,
         NEW u \in Users, NEW j \in {Idle} \cup JobRecord, job' = [job EXCEPT ![u] = j], Fits(j),
         u \notin OtherStaff => \A slot \in Slots :
           /\ j.pc = "log" /\ j.slot = slot => Scan(u, slot) <= crashes
           /\ InFlight(u, slot) =>
                \/ j.pc \in {"session", "read", "sync"} /\ j.slot = slot
                \/ SlotTaken(u, slot)' \/ Scan(u, slot) <= crashes
  PROVE  OnceInv'
  <1>1. \A v \in Users : job'[v] = IF v = u THEN j ELSE job[v] BY DEF DailyInv, DayTypeOK
  <1>2. \A v \in Users : Fits(job[v])' BY <1>1 DEF OnceInv, Fits
  <1>3. ASSUME NEW v \in Users \ OtherStaff, NEW slot \in Slots PROVE Once(v, slot)'
    <2>1. CASE v = u
      <3>1. InFlight(v, slot) => InFlight(v, slot)' \/ SlotTaken(v, slot)' \/ Scan(v, slot) <= crashes
        BY <1>1, <2>1 DEF InFlight
      <3>2. job'[v].pc = "log" /\ job'[v].slot = slot => Scan(v, slot) <= crashes
        BY <1>1, <2>1
      <3> QED BY <3>1, <3>2, ScanIs, OnceStays DEF OnceInv
    <2>2. CASE v # u
      <3>1. job'[v] = job[v] BY <1>1, <2>2
      <3>2. InFlight(v, slot) => InFlight(v, slot)' BY <3>1 DEF InFlight
      <3> QED BY <3>1, <3>2, ScanIs, OnceStays DEF OnceInv
    <2> QED BY <2>1, <2>2
  <1> QED BY <1>2, <1>3 DEF OnceInv

LEMMA OnceRequest ==
  ASSUME DailySettings, DailyInv, RowsGrow, SessionsGrow, OnceInv, NEW u \in Users,
         RequestScan(u) \/ RequestByRole(u)
  PROVE  OnceInv'
  <1>1. UNCHANGED <<scans, crashes>> /\ job[u] = Idle
    BY DEF RequestScan, RequestByRole, tables
  <1>2. phase \in Phases /\ SlotsAt[phase] \subseteq Slots /\ Chosen(u) \subseteq SlotsAt[phase]
    BY DEF DailySettings, DailyInv, DayTypeOK, Chosen
  <1>3. PICK slot \in SlotsAt[phase] : job' = [job EXCEPT ![u] = [pc |-> "check", slot |-> slot]]
    BY <1>2 DEF RequestScan, RequestByRole
  <1> DEFINE j == [pc |-> "check", slot |-> slot]
  <1>4. j \in JobRecord /\ j.pc = "check" /\ j.slot = slot BY <1>2 DEF JobRecord
  <1>5. Fits(j) BY <1>2, <1>4 DEF Fits, DailySettings
  <1>6. \A s \in Slots : ~InFlight(u, s) BY <1>1 DEF InFlight, Idle
  <1>7. job' = [job EXCEPT ![u] = j] BY <1>3
  <1> HIDE DEF j
  <1> QED BY <1>1, <1>4, <1>5, <1>6, <1>7, OnceMoved

LEMMA OnceRecheck ==
  ASSUME DailySettings, DailyInv, RowsGrow, SessionsGrow, OnceInv, NEW u \in Users, Recheck(u)
  PROVE  OnceInv'
  <1>1. UNCHANGED <<scans, crashes>> /\ job[u].pc = "check" BY DEF Recheck, tables
  <1>2. job[u] \in [pc : {"check", "log"}, slot : Slots] BY <1>1, JobIs
  <1>3. \A s \in Slots : ~InFlight(u, s) BY <1>1 DEF InFlight
  <1>4. CASE job' = [job EXCEPT ![u] = Idle]
    <2>1. Fits(Idle) /\ Idle.pc # "log" BY DEF Fits, Idle
    <2> QED BY <1>1, <1>3, <1>4, <2>1, OnceMoved
  <1>5. CASE Permitted(u, job[u].slot) /\ job' = [job EXCEPT ![u] = [job[u] EXCEPT !.pc = "log"]]
    <2> DEFINE j == [job[u] EXCEPT !.pc = "log"]
    <2>1. j = [pc |-> "log", slot |-> job[u].slot] /\ job[u].slot \in Slots BY <1>2
    <2>2. j \in JobRecord /\ j.pc = "log" /\ j.slot = job[u].slot BY <2>1 DEF JobRecord
    <2>3. Fits(job[u]) /\ job[u] # Idle BY <1>1 DEF OnceInv, Idle
    <2>4. Fits(j) BY <2>2, <2>3 DEF Fits
    <2>5. u \notin OtherStaff => Scan(u, job[u].slot) <= crashes
      BY <1>3, <1>5, <2>1, PermittedFree DEF OnceInv, Once
    <2>6. job' = [job EXCEPT ![u] = j] BY <1>5
    <2> HIDE DEF j
    <2> QED BY <1>1, <1>3, <2>2, <2>4, <2>5, <2>6, OnceMoved
  <1> QED BY <1>4, <1>5 DEF Recheck

LEMMA OnceSession ==
  ASSUME DailySettings, DailyInv, RowsGrow, SessionsGrow, OnceInv, NEW u \in Users,
         WriteSession(u) \/ ReadSessions(u)
  PROVE  OnceInv'
  <1>1. UNCHANGED <<scans, crashes>> BY DEF WriteSession, ReadSessions, tables
  <1>2. job[u].pc \in {"session", "read"} /\ job[u].slot \in Slots /\ HalfDay
    BY JobIs DEF WriteSession, ReadSessions, Idle
  <1>3. Fits(job[u]) /\ job[u] # Idle BY <1>2 DEF OnceInv, Idle
  <1>4. PICK j \in JobRecord : /\ job' = [job EXCEPT ![u] = j] /\ Fits(j)
                               /\ j.pc \in {"read", "sync"} /\ j.slot = job[u].slot
    <2>1. CASE WriteSession(u)
      <3> DEFINE h == EffectiveHalf(job[u].slot)
                 j == [pc |-> "read", slot |-> job[u].slot, half |-> h]
      <3>1. h \in Halves /\ (job[u].slot.half # "day" => h = job[u].slot.half)
        BY <1>2 DEF EffectiveHalf, TimeHalf, Slots, Halves
      <3>2. job' = [job EXCEPT ![u] = j] BY <2>1 DEF WriteSession
      <3> HIDE DEF h
      <3>3. j \in JobRecord /\ j.pc = "read" /\ j.slot = job[u].slot /\ j.half = h
        BY <1>2, <3>1 DEF JobRecord
      <3> HIDE DEF j
      <3>4. Fits(j) BY <1>2, <3>1, <3>3 DEF Fits
      <3> QED BY <3>2, <3>3, <3>4
    <2>2. CASE ReadSessions(u)
      <3> DEFINE f == IF u \in morning THEN "Present" ELSE "NULL"
                 s == IF u \in evening THEN "Present" ELSE "NULL"
                 j == [pc |-> "sync", slot |-> job[u].slot, half |-> job[u].half,
                       fh |-> f, sh |-> s]
      <3>1. job' = [job EXCEPT ![u] = j] BY <2>2 DEF ReadSessions
      <3>2. f \in Seen /\ s \in Seen BY DEF Seen
      <3>3. job[u].half \in Halves /\ job[u].pc = "read" BY <2>2, JobIs DEF ReadSessions
      <3> HIDE DEF f, s
      <3>4. j \in JobRecord /\ j.pc = "sync" /\ j.slot = job[u].slot /\ j.half = job[u].half
        BY <1>2, <3>2, <3>3 DEF JobRecord
      <3> HIDE DEF j
      <3>5. Fits(j) BY <1>2, <1>3, <3>3, <3>4 DEF Fits
      <3> QED BY <3>1, <3>4, <3>5
    <2> QED BY <2>1, <2>2
  <1>5. \A s \in Slots : InFlight(u, s) => j.slot = s BY <1>4 DEF InFlight
  <1> QED BY <1>1, <1>4, <1>5, OnceMoved

LEMMA OnceSync ==
  ASSUME DailySettings, DailyInv, RowsGrow, SessionsGrow, OnceInv, NEW u \in Users, SyncDaily(u)
  PROVE  OnceInv'
  <1>1. UNCHANGED <<scans, crashes>> /\ job' = [job EXCEPT ![u] = Idle] /\ job[u].pc = "sync"
    BY DEF SyncDaily
  <1>2. Fits(job[u]) /\ job[u] # Idle /\ job[u].slot \in Slots BY <1>1, JobIs DEF OnceInv, Idle
  <1>3. Fits(Idle) /\ Idle.pc # "log" BY DEF Fits, Idle
  <1>4. ASSUME NEW slot \in Slots, InFlight(u, slot)
        PROVE  SlotTaken(u, slot)' \/ Scan(u, slot) <= crashes
    <2>1. job[u].slot = slot BY <1>4 DEF InFlight
    <2>2. CASE slot.half = "day"
      <3>1. Scan(u, slot) <= crashes \/ Logged(u, slot.type)
        <4>1. Scan(u, slot) \in Nat /\ crashes \in Nat BY ScanIs
        <4>2. Scan(u, slot) <= crashes \/ Scan(u, slot) > 0 BY <4>1
        <4> QED BY <4>2, ScanIs
      <3>2. Logged(u, slot.type) => Logged(u, slot.type)' BY <1>1 DEF Logged
      <3> QED BY <2>2, <3>1, <3>2 DEF SlotTaken
    <2>3. CASE slot.half # "day"
      <3>1. HalfDay /\ job[u].half = slot.half BY <1>1, <1>2, <2>1, <2>3 DEF Fits
      <3>2. PICK r \in DayRow : Put(u, r) /\ TimeSet(u, r) BY <3>1, SyncPuts
      <3>3. row'[u] = r BY <3>2 DEF Put, DailyInv, DayTypeOK
      <3>4. r # NoRow BY DEF DailySettings
      <3> QED BY <2>1, <2>3, <3>1, <3>2, <3>3, <3>4 DEF SlotTaken, TimeSet, HasIn
    <2> QED BY <2>2, <2>3
  <1> QED BY <1>1, <1>3, <1>4, OnceMoved

LEMMA OnceLog ==
  ASSUME DailySettings, DailyInv, RowsGrow, SessionsGrow, OnceInv, NEW u \in Users, LogScan(u)
  PROVE  OnceInv'
  <1>1. crashes' = crashes /\ job[u].pc = "log" BY DEF LogScan
  <1>2. job[u] \in [pc : {"check", "log"}, slot : Slots] BY <1>1, JobIs
  <1>3. PICK slot \in Slots : slot = job[u].slot BY <1>2
  <1>4. \A v \in Users, d \in Scanned :
          scans'[v][d] = IF v = u /\ d = [slot |-> slot, time |-> TimeHalf]
                         THEN scans[v][d] + 1 ELSE scans[v][d]
    BY <1>3, LogMoves
  <1>5. PICK j \in JobRecord : /\ job' = [job EXCEPT ![u] = j] /\ j.slot = slot
                               /\ j.pc = IF HalfDay THEN "session" ELSE "sync"
    <2> DEFINE p == IF HalfDay THEN "session" ELSE "sync"
               j == [job[u] EXCEPT !.pc = p]
    <2>1. job' = [job EXCEPT ![u] = j] BY DEF LogScan
    <2>2. j = [pc |-> p, slot |-> slot] BY <1>2, <1>3
    <2>3. j \in JobRecord /\ j.slot = slot /\ j.pc = p BY <2>2 DEF JobRecord
    <2> HIDE DEF j
    <2> QED BY <2>1, <2>3
  <1>6. Fits(j)
    <2>1. Fits(job[u]) /\ job[u] # Idle BY <1>1 DEF OnceInv, Idle
    <2> QED BY <1>3, <1>5, <2>1 DEF Fits
  <1>7. \A v \in Users : job'[v] = IF v = u THEN j ELSE job[v] BY <1>5 DEF DailyInv, DayTypeOK
  <1>8. \A v \in Users : Fits(job[v])' BY <1>6, <1>7 DEF OnceInv, Fits
  <1>9. ASSUME NEW v \in Users \ OtherStaff, NEW s \in Slots PROVE Once(v, s)'
    <2>1. CASE v = u /\ s = slot
      <3>1. Scan(u, slot) <= crashes BY <1>1, <1>3, <2>1 DEF OnceInv, Once
      <3>2. Scan(u, slot)' = Scan(u, slot) + 1
        <4> DEFINE a == [slot |-> slot, time |-> "first"]
                   b == [slot |-> slot, time |-> "second"]
        <4>1. a \in Scanned /\ b \in Scanned BY ScanIs
        <4>2. a # b OBVIOUS
        <4>3. \/ scans'[u][a] = scans[u][a] + 1 /\ scans'[u][b] = scans[u][b]
              \/ scans'[u][b] = scans[u][b] + 1 /\ scans'[u][a] = scans[u][a]
          <5>1. [slot |-> slot, time |-> TimeHalf] \in {a, b} BY DEF TimeHalf
          <5> HIDE DEF a, b
          <5> QED BY <1>4, <4>1, <4>2, <5>1
        <4>4. scans[u][a] \in Nat /\ scans[u][b] \in Nat
          BY <4>1 DEF DailyInv, DayTypeOK, DailySettings
        <4>5. Scan(u, slot) = scans[u][a] + scans[u][b] /\ Scan(u, slot)' = scans'[u][a] + scans'[u][b]
          BY DEF Scan
        <4> HIDE DEF a, b
        <4> QED BY <4>3, <4>4, <4>5
      <3>3. Scan(u, slot) \in Nat /\ crashes \in Nat BY ScanIs
      <3>4. Scan(u, slot)' <= 1 + crashes' BY <1>1, <3>1, <3>2, <3>3
      <3>5. job'[u].pc # "log" /\ InFlight(u, slot)' BY <1>5, <1>7 DEF InFlight
      <3> QED BY <2>1, <3>4, <3>5 DEF Once
    <2>2. CASE ~(v = u /\ s = slot)
      <3> DEFINE a == [slot |-> s, time |-> "first"]
                 b == [slot |-> s, time |-> "second"]
      <3>1. a \in Scanned /\ b \in Scanned BY ScanIs
      <3>2. scans'[v][a] = scans[v][a] /\ scans'[v][b] = scans[v][b]
        <4>1. v = u => a # [slot |-> slot, time |-> TimeHalf] /\ b # [slot |-> slot, time |-> TimeHalf]
          BY <2>2
        <4> HIDE DEF a, b
        <4> QED BY <1>4, <3>1, <4>1
      <3>3. Scan(v, s)' = Scan(v, s) BY <3>2 DEF Scan
      <3>4. \A type : Logged(v, type) => Logged(v, type)'
        <4>1. \A c \in Scanned : scans[v][c] \in Nat BY DEF DailyInv, DayTypeOK, DailySettings
        <4>2. \A c \in Scanned : scans[v][c] > 0 => scans'[v][c] > 0 BY <1>4, <4>1
        <4> QED BY <4>2 DEF Logged
      <3>5. SlotTaken(v, s) => SlotTaken(v, s)' BY <3>4, TakenStays
      <3>6. ~(job'[v].pc = "log" /\ job'[v].slot = s) \/ job'[v] = job[v] BY <1>5, <1>7
      <3>7. InFlight(v, s) => InFlight(v, s)' BY <1>1, <1>5, <1>7 DEF InFlight
      <3> QED BY <1>1, <3>3, <3>5, <3>6, <3>7 DEF OnceInv, Once
    <2> QED BY <2>1, <2>2
  <1> QED BY <1>8, <1>9 DEF OnceInv

LEMMA OnceOtherStaff ==
  ASSUME DailySettings, DailyInv, RowsGrow, SessionsGrow, OnceInv, NEW u \in Users,
         OtherStaffMark(u)
  PROVE  OnceInv'
  <1>1. UNCHANGED <<job, crashes>> /\ u \in OtherStaff BY DEF OtherStaffMark
  <1>2. \A v \in Users, c \in Scanned : v # u => scans'[v][c] = scans[v][c]
    BY OtherStaffMoves
  <1>3. \A v \in Users : Fits(job[v])' BY <1>1 DEF OnceInv, Fits
  <1>4. ASSUME NEW v \in Users \ OtherStaff, NEW slot \in Slots PROVE Once(v, slot)'
    <2>1. InFlight(v, slot) => InFlight(v, slot)' BY <1>1 DEF InFlight
    <2>2. \A c \in Scanned : scans'[v][c] = scans[v][c] BY <1>1, <1>2
    <2> QED BY <1>1, <2>1, <2>2, ScanIs, OnceStays DEF OnceInv
  <1> QED BY <1>3, <1>4 DEF OnceInv

LEMMA OnceCrash ==
  ASSUME DailySettings, DailyInv, OnceInv, Crash
  PROVE  OnceInv'
  <1>1. scans' = scans /\ crashes' = crashes + 1 /\ job' = [v \in Users |-> Idle]
    BY DEF Crash, tables
  <1>2. \A v \in Users : Fits(job[v])' BY <1>1 DEF Fits
  <1>3. ASSUME NEW v \in Users \ OtherStaff, NEW slot \in Slots PROVE Once(v, slot)'
    <2>1. Scan(v, slot)' = Scan(v, slot) BY <1>1 DEF Scan
    <2>2. Scan(v, slot) <= 1 + crashes BY DEF OnceInv, Once
    <2>3. Scan(v, slot) \in Nat /\ crashes \in Nat BY ScanIs
    <2>4. Scan(v, slot)' <= crashes' /\ Scan(v, slot)' <= 1 + crashes' BY <1>1, <2>1, <2>2, <2>3
    <2> QED BY <2>4 DEF Once
  <1> QED BY <1>2, <1>3 DEF OnceInv

LEMMA OnceStarts ==
  ASSUME DailySettings, DayInit PROVE OnceInv
  <1>1. ASSUME NEW u \in Users, NEW slot \in Slots PROVE Once(u, slot)
    <2>1. Scan(u, slot) = 0 /\ crashes = 0 /\ job[u].pc = "idle"
      BY DailyStarts, ScanIs DEF DayInit, Scan, Idle
    <2> QED BY <2>1 DEF Once
  <1>2. \A u \in Users : Fits(job[u]) BY DEF DayInit, Fits
  <1> QED BY <1>1, <1>2 DEF OnceInv

LEMMA OnceSteps ==
  ASSUME DailySettings, DailyInv, OnceInv, [DayNext]_dayVars
  PROVE  OnceInv'
  <1>1. RowsGrow BY DailySteps
  <1>2. CASE Crash BY <1>2, OnceCrash
  <1>3. CASE UNCHANGED dayVars
    <2>1. UNCHANGED <<scans, job, crashes, morning, evening>> BY <1>3 DEF dayVars, tables
    <2> QED BY <1>1, <2>1, OnceOthers DEF SessionsGrow
  <1>4. CASE DayNext /\ Moves
    <2>1. SessionsGrow BY <1>4 DEF Moves
    <2>2. ASSUME NEW u \in Users,
                 RequestScan(u) \/ RequestByRole(u) \/ Job(u) \/ OtherStaffMark(u)
          PROVE  OnceInv'
      BY <1>1, <2>1, <2>2, OnceRequest, OnceRecheck, OnceSession, OnceSync, OnceLog, OnceOtherStaff
      DEF Job
    <2>3. ASSUME NEW u \in Users,
                 \/ RequestOnHoliday(u) \/ AdminSyncSessions(u) \/ AdminGrantDay(u)
                 \/ ServiceGrantDay(u) \/ GeofenceAbsent(u)
                 \/ \E half \in Halves : GrantHalfRead(u, half)
          PROVE  OnceInv'
      <3>1. UNCHANGED <<scans, job, crashes>>
        BY <2>3 DEF RequestOnHoliday, AdminSyncSessions, AdminGrantDay, ServiceGrantDay,
                    GeofenceAbsent, GrantHalfRead, tables
      <3> QED BY <1>1, <2>1, <3>1, OnceOthers
    <2>4. ASSUME \/ \E half \in Halves : FireMarker(half)
                 \/ TriggerEod \/ Repair \/ Running \/ Advance
          PROVE  OnceInv'
      <3>1. UNCHANGED <<scans, job, crashes>>
        BY <2>4 DEF FireMarker, TriggerEod, Repair, Running, Advance, MarkAbsent, SelectMissing,
                    InsertMissing, EndAbsences, RepairRow, NextStage, AdminSyncDaily,
                    GrantHalfWrite, tables
      <3> QED BY <1>1, <2>1, <3>1, OnceOthers
    <2> QED BY <1>2, <1>4, <2>2, <2>3, <2>4 DEF DayNext
  <1> QED BY <1>2, <1>3, <1>4, NextMoves

\* However the requests of a person overlap, whoever makes them, every slot is
\* logged once, and once more for each restart of the process.
THEOREM ScannedOnceSafe ==
  ASSUME DailySettings PROVE DaySpec => []NoDoubleScan
  <1> DEFINE I == DailyInv /\ OnceInv
  <1>1. DayInit => I BY DailyStarts, OnceStarts
  <1>2. I /\ [DayNext]_dayVars => I' BY DailySteps, OnceSteps
  <1>3. I => NoDoubleScan BY DEF OnceInv, Once, NoDoubleScan
  <1> QED BY <1>1, <1>2, <1>3, PTL DEF DaySpec

\* Each half of a day is what its person's scans say, whoever writes the row.
THEOREM HalvesSafe ==
  ASSUME DailySettings PROVE DaySpec => []HalvesHonest
  <1>1. DaySpec => []NoDoubleScan BY ScannedOnceSafe
  <1>2. DaySpec => []PresentHalfRecorded BY RecordedSafe
  <1>3. NoDoubleScan /\ PresentHalfRecorded => HalvesHonest BY DEF HalvesHonest
  <1> QED BY <1>1, <1>2, <1>3, PTL

-----------------------------------------------------------------------------
(* A day of leave. *)
HasScanned(u) == \E c \in Scanned : scans[u][c] > 0

\* The row is one of leave, with both halves decided, and in no list of rows
\* about to be marked absent.
LeaveRow(u) ==
  /\ row[u] # NoRow
  /\ row[u].st \in {"Leave", "HalfLeave"} /\ row[u].leave
  /\ row[u].fh # "NULL" /\ row[u].sh # "NULL"
NotListed(u) == loop.pc \in {"absences", "overdue"} => \A e \in loop.todo : e.u # u

\* A scan or a synchronisation that is about to write a row has been logged.
ScansLogged ==
  /\ \A u \in Users : job[u].pc \in {"session", "read", "sync"} => HasScanned(u)
  /\ loop.pc = "sync" => HasScanned(loop.u)

LeaveInv ==
  /\ ScansLogged
  /\ \A u \in granted \ fenced : ~HasScanned(u) => LeaveRow(u) /\ NotListed(u)

\* Leave of the leave service, on a date without a holiday.
ServiceLeave == LeaveBy = "service" /\ HolidayFrom >= 3

LEMMA ScansStay ==
  ASSUME NEW u \in Users, \A c \in Scanned : scans'[u][c] = scans[u][c]
  PROVE  HasScanned(u)' <=> HasScanned(u)
  BY DEF HasScanned

\* A step that logs nothing, grants nothing and leaves the rows alone.
LEMMA LeaveOthers ==
  ASSUME DailyInv, LeaveInv, UNCHANGED <<scans, row, granted>>, fenced \subseteq fenced',
         \A u \in Users : job'[u].pc \in {"session", "read", "sync"} =>
           job[u].pc \in {"session", "read", "sync"},
         loop'.pc = "sync" => HasScanned(loop'.u),
         \A u \in granted \ fenced : ~HasScanned(u) => NotListed(u)'
  PROVE  LeaveInv'
  <1>1. ASSUME NEW u PROVE HasScanned(u)' <=> HasScanned(u) BY DEF HasScanned
  <1>2. ScansLogged' BY <1>1 DEF LeaveInv, ScansLogged, HasScanned
  <1>3. ASSUME NEW u \in granted' \ fenced', ~HasScanned(u)' PROVE LeaveRow(u)' /\ NotListed(u)'
    <2>1. u \in granted \ fenced /\ ~HasScanned(u) BY <1>1, <1>3
    <2>2. LeaveRow(u) BY <2>1 DEF LeaveInv
    <2> QED BY <2>1, <2>2 DEF LeaveRow
  <1> QED BY <1>2, <1>3 DEF LeaveInv

LEMMA LeaveScan ==
  ASSUME DailySettings, DailyInv, LeaveInv, NEW u \in Users,
         \/ RequestScan(u) \/ RequestByRole(u) \/ Recheck(u) \/ WriteSession(u) \/ ReadSessions(u)
  PROVE  LeaveInv'
  <1>1. UNCHANGED <<scans, row, granted, fenced, loop>>
    BY DEF RequestScan, RequestByRole, Recheck, WriteSession, ReadSessions, tables
  <1>2. ASSUME NEW v \in Users, job'[v].pc \in {"session", "read", "sync"}
        PROVE  job[v].pc \in {"session", "read", "sync"}
    <2>1. job \in [Users -> {Idle} \cup JobRecord] BY DEF DailyInv, DayTypeOK
    <2>2. \E j : /\ job' = [job EXCEPT ![u] = j]
                 /\ j.pc \in {"session", "read", "sync"} => job[u].pc \in {"session", "read", "sync"}
      <3>1. CASE RequestScan(u) \/ RequestByRole(u)
        <4>1. PICK slot : job' = [job EXCEPT ![u] = [pc |-> "check", slot |-> slot]]
          BY <3>1 DEF RequestScan, RequestByRole
        <4>2. [pc |-> "check", slot |-> slot].pc = "check" OBVIOUS
        <4> QED BY <4>1, <4>2
      <3>2. CASE Recheck(u)
        <4>1. job[u] \in [pc : {"check", "log"}, slot : Slots] BY <3>2, JobIs DEF Recheck
        <4>2. [job[u] EXCEPT !.pc = "log"].pc = "log" /\ Idle.pc = "idle" BY <4>1 DEF Idle
        <4>3. \/ job' = [job EXCEPT ![u] = Idle]
              \/ job' = [job EXCEPT ![u] = [job[u] EXCEPT !.pc = "log"]]
          BY <3>2 DEF Recheck
        <4> QED BY <4>2, <4>3
      <3>3. CASE WriteSession(u) BY <3>3 DEF WriteSession
      <3>4. CASE ReadSessions(u) BY <3>4 DEF ReadSessions
      <3> QED BY <3>1, <3>2, <3>3, <3>4
    <2> QED BY <1>2, <2>1, <2>2
  <1>3. loop'.pc = "sync" => HasScanned(loop'.u) BY <1>1 DEF LeaveInv, ScansLogged
  <1>4. \A v \in granted \ fenced : ~HasScanned(v) => NotListed(v)' BY <1>1 DEF LeaveInv, NotListed
  <1> QED BY <1>1, <1>2, <1>3, <1>4, LeaveOthers

\* A scan logged by a person.
LEMMA LeaveLog ==
  ASSUME DailySettings, DailyInv, LeaveInv, NEW u \in Users, LogScan(u)
  PROVE  LeaveInv'
  <1>1. UNCHANGED <<row, granted, fenced, loop>> BY DEF LogScan
  <1>2. \A v \in Users, d \in Scanned :
          scans'[v][d] = IF v = u /\ d = [slot |-> job[u].slot, time |-> TimeHalf]
                         THEN scans[v][d] + 1 ELSE scans[v][d]
    BY LogMoves
  <1>3. \A v \in Users, d \in Scanned : scans[v][d] \in Nat BY DEF DailyInv, DayTypeOK, DailySettings
  <1>4. job[u].slot \in Slots /\ [slot |-> job[u].slot, time |-> TimeHalf] \in Scanned
    BY JobIs DEF LogScan, Idle, Scanned, TimeHalf, Halves
  <1>5. HasScanned(u)' BY <1>2, <1>3, <1>4 DEF HasScanned
  <1>6. \A v \in Users : v # u => (HasScanned(v)' <=> HasScanned(v))
    BY <1>2 DEF HasScanned
  <1>7. \A v \in Users : v # u => job'[v] = job[v] BY DEF LogScan, DailyInv, DayTypeOK
  <1>8. loop.pc = "sync" => loop.u \in Users BY DEF DailyInv, DayTypeOK, LoopRecord, Idle
  <1>9. ScansLogged'
    <2>1. \A v \in Users : job'[v].pc \in {"session", "read", "sync"} => HasScanned(v)'
      BY <1>5, <1>6, <1>7 DEF LeaveInv, ScansLogged
    <2>2. loop.pc = "sync" => \E v \in Users : v = loop.u /\ HasScanned(v)'
      BY <1>5, <1>6, <1>8 DEF LeaveInv, ScansLogged
    <2>3. loop'.pc = "sync" => HasScanned(loop.u)'
      BY <1>1, <2>2 DEF HasScanned
    <2> QED BY <2>1, <2>3 DEF ScansLogged
  <1>10. ASSUME NEW v \in granted' \ fenced', ~HasScanned(v)' PROVE LeaveRow(v)' /\ NotListed(v)'
    <2>1. v \in granted \ fenced /\ v \in Users BY <1>1 DEF DailyInv, DayTypeOK
    <2>2. ~HasScanned(v) BY <1>5, <1>6, <1>10, <2>1
    <2> QED BY <1>1, <2>1, <2>2 DEF LeaveInv, LeaveRow, NotListed
  <1> QED BY <1>9, <1>10 DEF LeaveInv

\* A step that writes the row of v only, who is not protected.
LEMMA LeaveWrites ==
  ASSUME DailyInv, LeaveInv, UNCHANGED <<scans, granted>>, fenced \subseteq fenced',
         \A u \in Users : job'[u].pc \in {"session", "read", "sync"} =>
           job[u].pc \in {"session", "read", "sync"},
         loop'.pc = "sync" => HasScanned(loop'.u),
         NEW v \in Users, NEW r \in DayRow, row' = [row EXCEPT ![v] = r],
         v \in granted \ fenced' /\ ~HasScanned(v) =>
           r # NoRow /\ r.st \in {"Leave", "HalfLeave"} /\ r.leave /\ r.fh # "NULL" /\ r.sh # "NULL",
         \A u \in granted \ fenced : ~HasScanned(u) => NotListed(u)'
  PROVE  LeaveInv'
  <1>1. ASSUME NEW u PROVE HasScanned(u)' <=> HasScanned(u) BY DEF HasScanned
  <1>2. ScansLogged' BY <1>1 DEF LeaveInv, ScansLogged, HasScanned
  <1>3. \A u \in Users : row'[u] = IF u = v THEN r ELSE row[u] BY DEF DailyInv, DayTypeOK
  <1>4. ASSUME NEW u \in granted' \ fenced', ~HasScanned(u)' PROVE LeaveRow(u)' /\ NotListed(u)'
    <2>1. u \in granted \ fenced /\ ~HasScanned(u) /\ u \in Users
      BY <1>1, <1>4 DEF DailyInv, DayTypeOK
    <2>2. LeaveRow(u) BY <2>1 DEF LeaveInv
    <2>3. CASE u = v BY <1>3, <1>4, <2>1, <2>3 DEF LeaveRow
    <2>4. CASE u # v
      <3>1. row'[u] = row[u] BY <1>3, <2>1, <2>4
      <3>2. LeaveRow(u)' BY <2>2, <3>1 DEF LeaveRow
      <3> QED BY <2>1, <3>2
    <2> QED BY <2>3, <2>4
  <1> QED BY <1>2, <1>4 DEF LeaveInv

LEMMA LeaveSync ==
  ASSUME DailySettings, DailyInv, LeaveInv, NEW u \in Users, SyncDaily(u)
  PROVE  LeaveInv'
  <1>1. UNCHANGED <<scans, granted, fenced, loop>> /\ job' = [job EXCEPT ![u] = Idle]
    BY DEF SyncDaily
  <1>2. PICK r \in DayRow : row' = [row EXCEPT ![u] = r] BY SyncPuts DEF Put
  <1>3. HasScanned(u) BY DEF SyncDaily, LeaveInv, ScansLogged
  <1>4. \A v \in Users : job'[v].pc \in {"session", "read", "sync"} =>
                        job[v].pc \in {"session", "read", "sync"}
    BY <1>1 DEF DailyInv, DayTypeOK, Idle
  <1>5. loop'.pc = "sync" => HasScanned(loop'.u) BY <1>1 DEF LeaveInv, ScansLogged
  <1>6. \A v \in granted \ fenced : ~HasScanned(v) => NotListed(v)' BY <1>1 DEF LeaveInv, NotListed
  <1> QED BY <1>1, <1>2, <1>3, <1>4, <1>5, <1>6, LeaveWrites

LEMMA LeaveOtherStaff ==
  ASSUME DailySettings, DailyInv, LeaveInv, NEW u \in Users, OtherStaffMark(u)
  PROVE  LeaveInv'
  <1>1. UNCHANGED <<granted, fenced, job, loop>> BY DEF OtherStaffMark
  <1>2. PICK c \in Scanned : \A v \in Users, d \in Scanned :
          scans'[v][d] = IF v = u /\ d = c THEN scans[v][d] + 1 ELSE scans[v][d]
    BY OtherStaffMoves
  <1>3. \A v \in Users, d \in Scanned : scans[v][d] \in Nat BY DEF DailyInv, DayTypeOK, DailySettings
  <1>4. HasScanned(u)' BY <1>2, <1>3 DEF HasScanned
  <1>5. \A v \in Users : v # u => (HasScanned(v)' <=> HasScanned(v)) BY <1>2 DEF HasScanned
  <1>6. PICK r \in DayRow : row' = [row EXCEPT ![u] = r] BY OtherStaffPuts DEF Put
  <1>7. \A v \in Users : v # u => row'[v] = row[v] BY <1>6 DEF DailyInv, DayTypeOK
  <1>8. loop.pc = "sync" => loop.u \in Users BY DEF DailyInv, DayTypeOK, LoopRecord, Idle
  <1>9. ScansLogged'
    <2>1. \A v \in Users : job'[v].pc \in {"session", "read", "sync"} => HasScanned(v)'
      BY <1>1, <1>4, <1>5 DEF LeaveInv, ScansLogged
    <2>2. loop.pc = "sync" => \E v \in Users : v = loop.u /\ HasScanned(v)'
      BY <1>4, <1>5, <1>8 DEF LeaveInv, ScansLogged
    <2>3. loop'.pc = "sync" => HasScanned(loop.u)' BY <1>1, <2>2 DEF HasScanned
    <2> QED BY <1>1, <2>1, <2>3 DEF ScansLogged, HasScanned
  <1>10. ASSUME NEW v \in granted' \ fenced', ~HasScanned(v)' PROVE LeaveRow(v)' /\ NotListed(v)'
    <2>1. v \in granted \ fenced /\ v \in Users /\ v # u
      BY <1>1, <1>4, <1>10 DEF DailyInv, DayTypeOK
    <2>2. ~HasScanned(v) BY <1>5, <1>10, <2>1
    <2>3. LeaveRow(v) /\ NotListed(v) /\ row'[v] = row[v] BY <1>7, <2>1, <2>2 DEF LeaveInv
    <2> QED BY <1>1, <2>3 DEF LeaveRow, NotListed
  <1> QED BY <1>9, <1>10 DEF LeaveInv

\* The steps of the event loop that leave rows and lists alone, or shorten one.
LEMMA ListShrinks ==
  ASSUME NEW e \in loop.todo, loop' = [loop EXCEPT !.todo = loop.todo \ {e}],
         loop.pc \in {"absences", "overdue", "missing"}, DailyInv
  PROVE  /\ loop'.pc = loop.pc /\ \A u : NotListed(u) => NotListed(u)'
  <1>1. \/ loop \in [pc : {"absences"}, half : Halves, repair : BOOLEAN, todo : SUBSET Read]
        \/ loop \in [pc : {"overdue"}, stages : StageLists, todo : SUBSET Read]
        \/ loop \in [pc : {"missing"}, half : Halves, repair : BOOLEAN, todo : SUBSET Users]
    BY DEF DailyInv, DayTypeOK, LoopRecord, Idle
  <1>2. loop'.pc = loop.pc /\ loop'.todo \subseteq loop.todo BY <1>1
  <1> QED BY <1>2 DEF NotListed

LEMMA LeaveList ==
  ASSUME DailySettings, DailyInv, LeaveInv, MarkAbsent \/ RepairRow
  PROVE  LeaveInv'
  <1>1. UNCHANGED <<scans, job, granted, fenced>> BY DEF MarkAbsent, RepairRow
  <1>2. PICK e \in loop.todo, r \in DayRow :
          /\ e.u \in Users /\ row' = [row EXCEPT ![e.u] = r]
          /\ loop' = [loop EXCEPT !.todo = loop.todo \ {e}]
    BY AbsentPuts, RepairPuts DEF Put
  <1>3. loop.pc \in {"absences", "overdue"} BY DEF MarkAbsent, RepairRow
  <1>4. loop'.pc # "sync" /\ \A u : NotListed(u) => NotListed(u)' BY <1>2, <1>3, ListShrinks
  <1>5. ~(e.u \in granted \ fenced /\ ~HasScanned(e.u)) BY <1>2, <1>3 DEF LeaveInv, NotListed
  <1>6. \A v \in granted \ fenced : ~HasScanned(v) => NotListed(v)' BY <1>4 DEF LeaveInv
  <1> QED BY <1>1, <1>2, <1>4, <1>5, <1>6, LeaveWrites

LEMMA LeaveMissing ==
  ASSUME DailySettings, DailyInv, LeaveInv, InsertMissing
  PROVE  LeaveInv'
  <1>1. UNCHANGED <<scans, job, granted, fenced>> /\ loop.pc = "missing" BY DEF InsertMissing
  <1>2. PICK u \in loop.todo :
          /\ u \in Users /\ loop' = [loop EXCEPT !.todo = loop.todo \ {u}]
          /\ row' = row \/ \E r \in DayRow : row[u] = NoRow /\ row' = [row EXCEPT ![u] = r]
    BY MissingPuts DEF Put
  <1>3. loop'.pc # "sync" /\ \A v : NotListed(v) => NotListed(v)' BY <1>1, <1>2, ListShrinks
  <1>4. \A v \in granted \ fenced : ~HasScanned(v) => NotListed(v)' BY <1>3 DEF LeaveInv
  <1>5. CASE row' = row BY <1>1, <1>3, <1>4, <1>5, LeaveOthers
  <1>6. ASSUME NEW r \in DayRow, row[u] = NoRow, row' = [row EXCEPT ![u] = r] PROVE LeaveInv'
    <2>1. ~(u \in granted \ fenced /\ ~HasScanned(u)) BY <1>6 DEF LeaveInv, LeaveRow
    <2> QED BY <1>1, <1>2, <1>3, <1>4, <1>6, <2>1, LeaveWrites
  <1> QED BY <1>2, <1>5, <1>6

LEMMA LeaveAdminSync ==
  ASSUME DailySettings, DailyInv, LeaveInv, AdminSyncDaily
  PROVE  LeaveInv'
  <1>1. UNCHANGED <<scans, job, granted, fenced>> /\ loop' = Idle /\ loop.pc = "sync"
    BY DEF AdminSyncDaily
  <1>2. PICK u \in Users, r \in DayRow : u = loop.u /\ row' = [row EXCEPT ![u] = r]
    BY AdminSyncPuts DEF Put
  <1>3. HasScanned(u) BY <1>1, <1>2 DEF LeaveInv, ScansLogged
  <1>4. loop'.pc # "sync" /\ \A v : NotListed(v)' BY <1>1 DEF Idle, NotListed
  <1> QED BY <1>1, <1>2, <1>3, <1>4, LeaveWrites

LEMMA LeaveHalf ==
  ASSUME ServiceLeave, DailySettings, DailyInv, LeaveInv, GrantHalfWrite
  PROVE  LeaveInv'
  <1>1. UNCHANGED <<scans, job, granted, fenced>> /\ loop' = Idle BY DEF GrantHalfWrite
  <1>2. PICK u \in Users, r \in DayRow :
          /\ row' = [row EXCEPT ![u] = r] /\ r.leave
          /\ r.st = "HalfLeave" /\ r.fh # "NULL" /\ r.sh # "NULL"
    BY GrantHalfPuts DEF Put, ServiceLeave
  <1>3. loop'.pc # "sync" /\ \A v : NotListed(v)' BY <1>1 DEF Idle, NotListed
  <1>4. r # NoRow BY DEF DailySettings
  <1> QED BY <1>1, <1>2, <1>3, <1>4, LeaveWrites

LEMMA LeaveFence ==
  ASSUME DailySettings, DailyInv, LeaveInv, NEW u \in Users, GeofenceAbsent(u)
  PROVE  LeaveInv'
  <1>1. UNCHANGED <<scans, job, granted, loop>> /\ fenced' = fenced \cup {u} BY DEF GeofenceAbsent
  <1>2. PICK r \in DayRow : row' = [row EXCEPT ![u] = r] BY GeofencePuts DEF Put
  <1>3. loop'.pc = "sync" => HasScanned(loop'.u) BY <1>1 DEF LeaveInv, ScansLogged
  <1>4. \A v \in granted \ fenced : ~HasScanned(v) => NotListed(v)' BY <1>1 DEF LeaveInv, NotListed
  <1> QED BY <1>1, <1>2, <1>3, <1>4, LeaveWrites

LEMMA LeaveGrant ==
  ASSUME DailySettings, DailyInv, LeaveInv, NEW u \in Users, ServiceGrantDay(u)
  PROVE  LeaveInv'
  <1>1. UNCHANGED <<scans, job, fenced, loop>> /\ granted' = granted \cup {u} /\ loop = Idle
    BY DEF ServiceGrantDay
  <1>2. PICK r \in DayRow : /\ row' = [row EXCEPT ![u] = r]
                            /\ r.st = "Leave" /\ r.leave /\ r.fh = "Leave" /\ r.sh = "Leave"
    BY ServiceGrantPuts DEF Put
  <1>3. r # NoRow BY DEF DailySettings
  <1>4. \A v \in Users : row'[v] = IF v = u THEN r ELSE row[v] BY <1>2 DEF DailyInv, DayTypeOK
  <1>5. ASSUME NEW v PROVE HasScanned(v)' <=> HasScanned(v) BY <1>1 DEF HasScanned
  <1>6. ScansLogged' BY <1>1, <1>5 DEF LeaveInv, ScansLogged, Idle
  <1>7. ASSUME NEW v \in granted' \ fenced', ~HasScanned(v)' PROVE LeaveRow(v)' /\ NotListed(v)'
    <2>1. NotListed(v)' BY <1>1 DEF NotListed, Idle
    <2>2. v \in Users BY <1>1 DEF DailyInv, DayTypeOK
    <2>3. CASE v = u BY <1>2, <1>3, <1>4, <2>1, <2>2, <2>3 DEF LeaveRow
    <2>4. CASE v # u
      <3>1. v \in granted \ fenced /\ ~HasScanned(v) /\ row'[v] = row[v]
        BY <1>1, <1>4, <1>5, <1>7, <2>2, <2>4
      <3>2. LeaveRow(v) BY <3>1 DEF LeaveInv
      <3>3. LeaveRow(v)' BY <3>1, <3>2 DEF LeaveRow
      <3> QED BY <2>1, <3>3
    <2> QED BY <2>3, <2>4
  <1> QED BY <1>6, <1>7 DEF LeaveInv

LEMMA LeaveSelects ==
  ASSUME DailySettings, DailyInv, LeaveInv,
         \/ SelectMissing \/ EndAbsences \/ Repair \/ NextStage \/ TriggerEod
         \/ \E half \in Halves : FireMarker(half)
  PROVE  LeaveInv'
  <1>1. UNCHANGED <<scans, row, job, granted, fenced>>
    BY DEF SelectMissing, EndAbsences, Repair, NextStage, TriggerEod, FireMarker, tables
  <1>2. \A v \in granted \ fenced : ~HasScanned(v) => LeaveRow(v) /\ v \in Users
    BY DEF LeaveInv, DailyInv, DayTypeOK
  <1>3. ASSUME NEW half \in Halves, NEW b \in BOOLEAN, StartAbsences(half, b)
        PROVE  loop'.pc # "sync" /\ \A v \in granted \ fenced : ~HasScanned(v) => NotListed(v)'
    <2> DEFINE S == {u \in Users : Undecided(u, half)}
    <2>1. S \in SUBSET Users /\ \A u \in S : row[u] # NoRow BY DEF Undecided
    <2>2. PICK T : T = Snapshot(S) OBVIOUS
    <2>3. loop' = [pc |-> "absences", half |-> half, repair |-> b, todo |-> T]
      BY <1>3, <2>2 DEF StartAbsences
    <2>4. \A v \in granted \ fenced : ~HasScanned(v) => v \notin S
      BY <1>2 DEF Undecided, LeaveRow
    <2> HIDE DEF S
    <2>5. \A e \in T : e.u \in S BY <2>1, <2>2, SnapshotIs
    <2>6. loop'.pc = "absences" /\ loop'.todo = T BY <2>3
    <2> QED BY <2>4, <2>5, <2>6 DEF NotListed
  <1>4. ASSUME NEW s \in StageLists \cup {<<>>}, loop' = Repairing(s)
        PROVE  loop'.pc # "sync" /\ \A v \in granted \ fenced : ~HasScanned(v) => NotListed(v)'
    <2>1. CASE s = <<>>
      <3>1. loop' = Idle BY <1>4, <2>1 DEF Repairing
      <3> QED BY <3>1 DEF Idle, NotListed
    <2>2. CASE s # <<>>
      <3> DEFINE S == Overdue(s[1])
      <3>1. S \in SUBSET Users /\ \A u \in S : row[u] # NoRow BY DEF Overdue
      <3>2. PICK T : T = Snapshot(S) OBVIOUS
      <3>3. loop' = [pc |-> "overdue", stages |-> s, todo |-> T] BY <1>4, <2>2, <3>2 DEF Repairing
      <3>4. \A v \in granted \ fenced : ~HasScanned(v) => v \notin S
        BY <1>2 DEF Overdue, OnLeave, LeaveRow
      <3> HIDE DEF S
      <3>5. \A e \in T : e.u \in S BY <3>1, <3>2, SnapshotIs
      <3>6. loop'.pc = "overdue" /\ loop'.todo = T BY <3>3
      <3> QED BY <3>4, <3>5, <3>6 DEF NotListed
    <2> QED BY <2>1, <2>2
  <1>5. loop'.pc # "sync" /\ \A v \in granted \ fenced : ~HasScanned(v) => NotListed(v)'
    <2>1. CASE SelectMissing
      <3>1. loop \in [pc : {"absences"}, half : Halves, repair : BOOLEAN, todo : SUBSET Read]
        BY <2>1 DEF SelectMissing, DailyInv, DayTypeOK, LoopRecord, Idle
      <3>2. loop'.pc = "missing" BY <2>1, <3>1 DEF SelectMissing
      <3> QED BY <3>2 DEF NotListed
    <2>2. CASE TriggerEod \/ \E half \in Halves : FireMarker(half)
      BY <1>3, <2>2 DEF TriggerEod, FireMarker, Halves
    <2>3. CASE EndAbsences
      <3>1. loop' = Repairing(Stages) \/ loop' = Idle BY <2>3 DEF EndAbsences
      <3>2. CASE loop' = Idle BY <3>2 DEF Idle, NotListed
      <3> QED BY <1>4, <3>1, <3>2, StagesIs
    <2>4. CASE Repair
      <3>1. loop' = Repairing(Stages) BY <2>4 DEF Repair
      <3> QED BY <1>4, <3>1, StagesIs
    <2>5. CASE NextStage
      <3>1. loop.stages \in StageLists
        BY <2>5 DEF NextStage, DailyInv, DayTypeOK, LoopRecord, Idle
      <3>2. loop' = Repairing(Rest(loop.stages)) BY <2>5 DEF NextStage
      <3> QED BY <1>4, <3>1, <3>2, StagesIs
    <2> QED BY <2>1, <2>2, <2>3, <2>4, <2>5
  <1> QED BY <1>1, <1>5, LeaveOthers

\* The other steps.
LEMMA LeaveRest ==
  ASSUME DailySettings, DailyInv, LeaveInv,
         \/ Advance \/ Crash \/ UNCHANGED dayVars
         \/ \E u \in Users : AdminSyncSessions(u) \/ \E half \in Halves : GrantHalfRead(u, half)
  PROVE  LeaveInv'
  <1>1. /\ UNCHANGED <<scans, row, granted, fenced>>
        /\ job' = job \/ job' = [v \in Users |-> Idle]
    BY DEF Advance, Crash, AdminSyncSessions, GrantHalfRead, tables, dayVars
  <1>2. \A v \in Users : job'[v].pc \in {"session", "read", "sync"} =>
                        job[v].pc \in {"session", "read", "sync"}
    BY <1>1 DEF Idle
  <1>3. /\ loop'.pc = "sync" => HasScanned(loop'.u)
        /\ \A v \in granted \ fenced : ~HasScanned(v) => NotListed(v)'
    <2>1. CASE Advance \/ UNCHANGED dayVars
      <3>1. loop' = loop BY <2>1 DEF Advance, dayVars
      <3> QED BY <3>1 DEF LeaveInv, ScansLogged, NotListed
    <2>2. CASE Crash BY <2>2 DEF Crash, Idle, NotListed
    <2>3. ASSUME NEW u \in Users, AdminSyncSessions(u)
          PROVE  /\ loop'.pc = "sync" => HasScanned(loop'.u)
                 /\ \A v \in granted \ fenced : ~HasScanned(v) => NotListed(v)'
      <3>1. loop'.pc = "sync" /\ loop'.u = u /\ HasScanned(u)
        BY <2>3 DEF AdminSyncSessions, HasScanned
      <3> QED BY <3>1 DEF NotListed
    <2>4. ASSUME NEW u \in Users, NEW half \in Halves, GrantHalfRead(u, half)
          PROVE  /\ loop'.pc = "sync" => HasScanned(loop'.u)
                 /\ \A v \in granted \ fenced : ~HasScanned(v) => NotListed(v)'
      <3>1. loop'.pc = "half" BY <2>4 DEF GrantHalfRead
      <3> QED BY <3>1 DEF NotListed
    <2> QED BY <2>1, <2>2, <2>3, <2>4
  <1> QED BY <1>1, <1>2, <1>3, LeaveOthers

LEMMA LeaveSteps ==
  ASSUME ServiceLeave, DailySettings, DailyInv, LeaveInv, [DayNext]_dayVars
  PROVE  LeaveInv'
  <1>1. ASSUME NEW u \in Users, RequestOnHoliday(u) PROVE FALSE
    BY <1>1 DEF RequestOnHoliday, Holiday, ServiceLeave, DailySettings, DailyInv, DayTypeOK, Phases
  <1>2. ASSUME NEW u \in Users, AdminGrantDay(u) PROVE FALSE
    BY <1>2 DEF AdminGrantDay, ServiceLeave
  <1>3. ASSUME NEW u \in Users,
               \/ RequestScan(u) \/ RequestByRole(u) \/ RequestOnHoliday(u)
               \/ Job(u) \/ OtherStaffMark(u)
               \/ AdminSyncSessions(u) \/ AdminGrantDay(u) \/ ServiceGrantDay(u)
               \/ GeofenceAbsent(u)
               \/ \E half \in Halves : GrantHalfRead(u, half)
        PROVE  LeaveInv'
    BY <1>1, <1>2, <1>3, LeaveScan, LeaveLog, LeaveSync, LeaveOtherStaff, LeaveRest, LeaveGrant,
       LeaveFence DEF Job
  <1>4. CASE \/ \E half \in Halves : FireMarker(half)
             \/ TriggerEod \/ Repair \/ Running
    BY <1>4, LeaveSelects, LeaveList, LeaveMissing, LeaveAdminSync, LeaveHalf DEF Running
  <1>5. CASE Advance \/ Crash \/ UNCHANGED dayVars BY <1>5, LeaveRest
  <1> QED BY <1>3, <1>4, <1>5 DEF DayNext

LEMMA LeaveStarts ==
  ASSUME DayInit PROVE LeaveInv
  <1>1. ScansLogged BY DEF DayInit, ScansLogged, Idle
  <1> QED BY <1>1 DEF DayInit, LeaveInv

\* Leave of the leave service for a whole day stays leave, through the absence
\* markers, repairs and half-day leave on top of it, on a date without a holiday,
\* until its person scans or the geofence intervenes.
THEOREM LeaveDaySafe ==
  ASSUME DailySettings, ServiceLeave PROVE DaySpec => []LeaveDayKept
  <1> DEFINE I == DailyInv /\ LeaveInv
  <1>1. DayInit => I BY DailyStarts, LeaveStarts
  <1>2. I /\ [DayNext]_dayVars => I' BY DailySteps, LeaveSteps
  <1>3. I => LeaveDayKept
    <2> SUFFICES ASSUME I, NEW u \in granted \ fenced, \A c \in Scanned : scans[u][c] = 0
                 PROVE  row[u].st \in {"Leave", "HalfLeave"}
      BY DEF LeaveDayKept
    <2>1. ~HasScanned(u) BY DEF HasScanned
    <2> QED BY <2>1 DEF LeaveInv, LeaveRow
  <1> QED BY <1>1, <1>2, <1>3, PTL DEF DaySpec

-----------------------------------------------------------------------------
(* Disputes about the date, decided again and again. *)
\* An approval half done is of a request there is.
MarksOne == loop.pc = "approve" => loop.i \in DOMAIN asked[loop.u]
OpenOnce == \A u \in Users : \A i, j \in Open(u) : i = j

CorInv == CorTypeOK /\ DailyInv /\ OnceInv /\ MarksOne /\ OpenOnce

LEMMA AskedIs ==
  ASSUME CorTypeOK, NEW u \in Users
  PROVE  \E n \in 0 .. MaxAsked : /\ asked[u] \in [1 .. n -> Asked] /\ asked[u] \in Seq(Asked)
                                  /\ Len(asked[u]) = n /\ DOMAIN asked[u] = 1 .. n
  <1>1. PICK n \in 0 .. MaxAsked : asked[u] \in [1 .. n -> Asked] BY DEF CorTypeOK
  <1>2. n \in Nat OBVIOUS
  <1>3. asked[u] \in Seq(Asked) /\ Len(asked[u]) = n BY <1>1, <1>2
  <1> QED BY <1>1, <1>3

\* A request that is decided keeps its place; no other changes.
LEMMA DecisionTypes ==
  ASSUME CorTypeOK, CorrectionSettings, NEW u \in Users, NEW i \in DOMAIN asked[u], NEW st \in {"Approved", "Rejected"},
         asked' = [asked EXCEPT ![u][i].st = st], DayTypeOK'
  PROVE  /\ CorTypeOK'
         /\ \A v \in Users : DOMAIN asked'[v] = DOMAIN asked[v]
         /\ \A v \in Users : Open(v)' \subseteq Open(v)
  <1>1. PICK n \in 0 .. MaxAsked : asked[u] \in [1 .. n -> Asked] /\ DOMAIN asked[u] = 1 .. n
    BY AskedIs
  <1> DEFINE a == [asked[u][i] EXCEPT !.st = st]
             s == [asked[u] EXCEPT ![i] = a]
  <1>2. a \in Asked /\ a.st = st BY <1>1 DEF Asked
  <1>3. asked' = [asked EXCEPT ![u] = s] OBVIOUS
  <1> HIDE DEF a
  <1>4. s \in [1 .. n -> Asked] /\ DOMAIN s = 1 .. n BY <1>1, <1>2
  <1>5. \A k \in 1 .. n : s[k] = IF k = i THEN a ELSE asked[u][k] BY <1>1
  <1> HIDE DEF s
  <1>6. asked \in [Users -> UNION {[1 .. m -> Asked] : m \in 0 .. MaxAsked}] BY DEF CorTypeOK
  <1>7. asked' \in [Users -> UNION {[1 .. m -> Asked] : m \in 0 .. MaxAsked}]
    BY <1>3, <1>4, <1>6
  <1>8. \A v \in Users : asked'[v] = IF v = u THEN s ELSE asked[v] BY <1>3, <1>6
  <1>9. \A v \in Users : DOMAIN asked'[v] = DOMAIN asked[v] BY <1>1, <1>4, <1>8
  <1>10. \A v \in Users : Open(v)' \subseteq Open(v)
    BY <1>1, <1>2, <1>4, <1>5, <1>8 DEF Open
  <1> QED BY <1>7, <1>9, <1>10 DEF CorTypeOK

\* Only an approval leaves the event loop in an approval.
LEMMA ApprovalsStart ==
  ASSUME DailyInv, [DayNext]_dayVars, loop'.pc = "approve"
  PROVE  loop' = loop
  <1>1. ASSUME NEW half, NEW b, StartAbsences(half, b) PROVE FALSE BY <1>1 DEF StartAbsences
  <1>2. ASSUME NEW s, loop' = Repairing(s) PROVE FALSE BY <1>2 DEF Repairing, Idle
  <1>3. ASSUME NEW u \in Users,
               \/ RequestScan(u) \/ RequestByRole(u) \/ RequestOnHoliday(u)
               \/ Job(u) \/ OtherStaffMark(u)
               \/ AdminSyncSessions(u) \/ AdminGrantDay(u) \/ ServiceGrantDay(u)
               \/ GeofenceAbsent(u)
               \/ \E half \in Halves : GrantHalfRead(u, half)
        PROVE  loop' = loop
    BY <1>3 DEF RequestScan, RequestByRole, RequestOnHoliday, Job, Recheck, LogScan, WriteSession,
                ReadSessions, SyncDaily, OtherStaffMark, AdminSyncSessions, AdminGrantDay,
                ServiceGrantDay, GeofenceAbsent, GrantHalfRead
  <1>4. CASE \/ \E half \in Halves : FireMarker(half)
             \/ TriggerEod \/ Repair \/ EndAbsences \/ NextStage
    <2>1. CASE \E half \in Halves : FireMarker(half) BY <2>1, <1>1 DEF FireMarker
    <2>2. CASE TriggerEod BY <2>2, <1>1 DEF TriggerEod
    <2>3. CASE Repair BY <2>3, <1>2 DEF Repair
    <2>4. loop' # Idle BY DEF Idle
    <2>5. CASE EndAbsences BY <2>4, <2>5, <1>2 DEF EndAbsences
    <2>6. CASE NextStage BY <2>6, <1>2 DEF NextStage
    <2> QED BY <1>4, <2>1, <2>2, <2>3, <2>5, <2>6
  <1>5. CASE MarkAbsent \/ InsertMissing \/ RepairRow
    <2>1. PICK e \in loop.todo : loop' = [loop EXCEPT !.todo = loop.todo \ {e}]
      BY <1>5, AbsentPuts, MissingPuts, RepairPuts
    <2>2. loop.pc \in {"absences", "overdue", "missing"}
      BY <1>5 DEF MarkAbsent, InsertMissing, RepairRow
    <2> QED BY <2>1, <2>2, ListShrinks
  <1>6. CASE SelectMissing
    <2>1. loop \in [pc : {"absences"}, half : Halves, repair : BOOLEAN, todo : SUBSET Read]
      BY <1>6 DEF SelectMissing, DailyInv, DayTypeOK, LoopRecord, Idle
    <2>2. loop'.pc = "missing" BY <1>6, <2>1 DEF SelectMissing
    <2> QED BY <2>2
  <1>7. CASE AdminSyncDaily \/ GrantHalfWrite \/ Crash
    BY <1>7 DEF AdminSyncDaily, GrantHalfWrite, Crash, Idle
  <1>8. CASE Advance \/ UNCHANGED dayVars BY <1>8 DEF Advance, dayVars
  <1> QED BY <1>3, <1>4, <1>5, <1>6, <1>7, <1>8 DEF DayNext, Running

LEMMA CorBase ==
  ASSUME DailySettings, CorInv, [DayNext]_dayVars, asked' = asked
  PROVE  CorInv'
  <1>1. DailyInv' /\ OnceInv' BY DailySteps, OnceSteps DEF CorInv
  <1>2. CorTypeOK' BY <1>1 DEF CorInv, CorTypeOK, DailyInv
  <1>3. OpenOnce' BY DEF CorInv, OpenOnce, Open
  <1>4. MarksOne' BY ApprovalsStart DEF CorInv, MarksOne
  <1> QED BY <1>1, <1>2, <1>3, <1>4 DEF CorInv

LEMMA CorApprove ==
  ASSUME DailySettings, CorrectionSettings, CorInv, NEW u \in Users, NEW i \in DOMAIN asked[u],
         Approve(u, i)
  PROVE  CorInv' /\ RowsGrow
  <1>1. /\ UNCHANGED <<phase, morning, evening, scans, job, marked, crashes, granted, fenced, asked>>
        /\ loop' = [pc |-> "approve", u |-> u, i |-> i]
    BY DEF Approve
  <1>2. RowMoves BY <1>1, ApprovePuts DEF CorInv, RowMoves
  <1>3. i \in Nat BY AskedIs DEF CorInv
  <1>4. loop' \in LoopRecord BY <1>1, <1>3 DEF LoopRecord
  <1>5. LoopRecorded' BY <1>1 DEF LoopRecorded
  <1>6. SmallTypes' BY <1>1 DEF SmallTypes, CorInv, DailyInv, DayTypeOK
  <1>7. DailyInv' /\ RowsGrow
    BY <1>1, <1>2, <1>4, <1>5, <1>6, MovesKeep DEF CorInv, JobMoves, LoopMoves, SessionsGrow
  <1>8. OnceInv' BY <1>1, <1>7, OnceOthers DEF CorInv, SessionsGrow
  <1>9. CorTypeOK' BY <1>1, <1>7 DEF CorInv, CorTypeOK, DailyInv
  <1>10. OpenOnce' BY <1>1 DEF CorInv, OpenOnce, Open
  <1>11. MarksOne' BY <1>1 DEF MarksOne
  <1> QED BY <1>7, <1>8, <1>9, <1>10, <1>11 DEF CorInv

LEMMA CorMark ==
  ASSUME DailySettings, CorrectionSettings, CorInv, MarkApproved
  PROVE  CorInv' /\ RowsGrow
  <1>1. UNCHANGED <<phase, row, morning, evening, scans, job, marked, crashes, granted, fenced>>
        /\ loop' = Idle
    BY DEF MarkApproved, tables
  <1>2. SmallTypes' BY <1>1 DEF SmallTypes, CorInv, DailyInv, DayTypeOK
  <1>3. DailyInv' /\ RowsGrow
    BY <1>1, <1>2, MovesKeep DEF CorInv, RowMoves, JobMoves, LoopMoves, SessionsGrow
  <1>4. OnceInv' BY <1>1, <1>3, OnceOthers DEF CorInv, SessionsGrow
  <1>5. loop.u \in Users BY DEF MarkApproved, CorInv, DailyInv, DayTypeOK, LoopRecord, Idle
  <1>6. loop.i \in DOMAIN asked[loop.u] BY DEF MarkApproved, CorInv, MarksOne
  <1>7. PICK u \in Users : u = loop.u BY <1>5
  <1>8. PICK i \in DOMAIN asked[u] : i = loop.i BY <1>6, <1>7
  <1>9. asked' = [asked EXCEPT ![u][i].st = "Approved"] BY <1>7, <1>8 DEF MarkApproved
  <1>10. CorTypeOK' /\ \A v \in Users : Open(v)' \subseteq Open(v)
    BY <1>3, <1>9, DecisionTypes DEF CorInv, DailyInv
  <1>11. OpenOnce' BY <1>10 DEF CorInv, OpenOnce
  <1>12. MarksOne' BY <1>1 DEF MarksOne, Idle
  <1> QED BY <1>3, <1>4, <1>10, <1>11, <1>12 DEF CorInv

\* What a step of the disputes only leaves alone.
LEMMA BaseStays ==
  ASSUME DailySettings, CorInv, UNCHANGED dayVars
  PROVE  DailyInv' /\ OnceInv' /\ DayTypeOK' /\ RowsGrow /\ loop' = loop
  BY DailySteps, OnceSteps DEF CorInv, DailyInv, dayVars

LEMMA CorReject ==
  ASSUME DailySettings, CorrectionSettings, CorInv, NEW u \in Users, NEW i \in DOMAIN asked[u],
         Reject(u, i)
  PROVE  CorInv' /\ RowsGrow
  <1>1. DailyInv' /\ OnceInv' /\ DayTypeOK' /\ RowsGrow /\ loop' = loop BY BaseStays DEF Reject
  <1>2. asked' = [asked EXCEPT ![u][i].st = "Rejected"] BY DEF Reject
  <1>3. /\ CorTypeOK'
        /\ \A v \in Users : DOMAIN asked'[v] = DOMAIN asked[v]
        /\ \A v \in Users : Open(v)' \subseteq Open(v)
    BY <1>1, <1>2, DecisionTypes DEF CorInv
  <1>4. OpenOnce' BY <1>3 DEF CorInv, OpenOnce
  <1>5. loop.pc = "approve" => loop.u \in Users
    BY DEF CorInv, DailyInv, DayTypeOK, LoopRecord, Idle
  <1>6. MarksOne' BY <1>1, <1>3, <1>5 DEF CorInv, MarksOne
  <1> QED BY <1>1, <1>3, <1>4, <1>6 DEF CorInv

LEMMA CorSubmit ==
  ASSUME DailySettings, CorrectionSettings, CorInv, NEW u \in Users, NEW w \in Wanted, Submit(u, w)
  PROVE  CorInv' /\ RowsGrow
  <1>1. DailyInv' /\ OnceInv' /\ DayTypeOK' /\ RowsGrow /\ loop' = loop BY BaseStays DEF Submit
  <1>2. PICK n \in 0 .. MaxAsked : /\ asked[u] \in [1 .. n -> Asked] /\ asked[u] \in Seq(Asked)
                                   /\ Len(asked[u]) = n /\ DOMAIN asked[u] = 1 .. n
    BY AskedIs DEF CorInv
  <1>3. n + 1 \in 0 .. MaxAsked BY <1>2 DEF Submit, CorrectionSettings
  <1> DEFINE a == [want |-> w, st |-> "Pending"]
             s == Append(asked[u], a)
  <1>4. a \in Asked BY DEF Asked
  <1>5. asked' = [asked EXCEPT ![u] = s] BY DEF Submit
  <1> HIDE DEF a
  <1>6. /\ s \in Seq(Asked) /\ Len(s) = n + 1
        /\ \A k \in 1 .. n : s[k] = asked[u][k]
    BY <1>2, <1>4
  <1> HIDE DEF s
  <1>7. s \in [1 .. n + 1 -> Asked] /\ DOMAIN s = 1 .. n + 1 BY <1>2, <1>6
  <1>8. asked \in [Users -> UNION {[1 .. m -> Asked] : m \in 0 .. MaxAsked}]
    BY DEF CorInv, CorTypeOK
  <1>9. asked' \in [Users -> UNION {[1 .. m -> Asked] : m \in 0 .. MaxAsked}]
    BY <1>3, <1>5, <1>7, <1>8
  <1>10. \A v \in Users : asked'[v] = IF v = u THEN s ELSE asked[v] BY <1>5, <1>8
  <1>11. CorTypeOK' BY <1>1, <1>9 DEF CorTypeOK
  <1>12. ASSUME NEW v \in Users, NEW i \in Open(v)', NEW j \in Open(v)' PROVE i = j
    <2>1. CASE v = u
      <3>1. \A k \in 1 .. n : s[k].st # "Pending" BY <1>2, <1>6 DEF Submit, Open
      <3>2. i \in 1 .. n + 1 /\ j \in 1 .. n + 1 /\ s[i].st = "Pending" /\ s[j].st = "Pending"
        BY <1>7, <1>10, <1>12, <2>1 DEF Open
      <3> QED BY <1>2, <3>1, <3>2
    <2>2. CASE v # u
      <3>1. i \in Open(v) /\ j \in Open(v) BY <1>10, <1>12, <2>2 DEF Open
      <3> QED BY <3>1 DEF CorInv, OpenOnce
    <2> QED BY <2>1, <2>2
  <1>13. OpenOnce' BY <1>12 DEF OpenOnce
  <1>14. MarksOne' BY <1>1 DEF Submit, MarksOne, Idle
  <1> QED BY <1>1, <1>11, <1>13, <1>14 DEF CorInv

LEMMA CorSteps ==
  ASSUME DailySettings, CorrectionSettings, CorInv, [CorNext]_corVars
  PROVE  CorInv' /\ RowsGrow
  <1>1. CASE DayNext /\ UNCHANGED asked BY <1>1, CorBase, DailySteps DEF CorInv
  <1>2. CASE UNCHANGED corVars
    <2>1. UNCHANGED dayVars /\ asked' = asked BY <1>2 DEF corVars
    <2> QED BY <2>1, CorBase, DailySteps DEF CorInv
  <1> QED BY <1>1, <1>2, CorMark, CorApprove, CorReject, CorSubmit DEF CorNext

LEMMA CorStarts ==
  ASSUME DailySettings, CorrectionSettings, CorInit PROVE CorInv
  <1>1. DayInit /\ DailyInv /\ OnceInv BY DailyStarts, OnceStarts DEF CorInit
  <1>2. \A u \in Users : asked[u] = <<>> BY DEF CorInit
  <1>3. asked \in [Users -> UNION {[1 .. n -> Asked] : n \in 0 .. MaxAsked}]
    <2>1. <<>> \in [1 .. 0 -> Asked] /\ 0 \in 0 .. MaxAsked BY DEF CorrectionSettings
    <2>2. <<>> \in UNION {[1 .. n -> Asked] : n \in 0 .. MaxAsked} BY <2>1
    <2> QED BY <2>2 DEF CorInit
  <1>4. OpenOnce BY <1>2 DEF OpenOnce, Open
  <1>5. MarksOne BY <1>1 DEF DayInit, MarksOne, Idle
  <1> QED BY <1>1, <1>3, <1>4, <1>5 DEF CorInv, CorTypeOK, DailyInv

\* The day and the disputes about it are well typed.
THEOREM CorrectionTypes ==
  ASSUME DailySettings, CorrectionSettings PROVE CorSpec => []CorTypeOK
  <1>1. CorInit => CorInv BY CorStarts
  <1>2. CorInv /\ [CorNext]_corVars => CorInv' BY CorSteps
  <1>3. CorInv => CorTypeOK BY DEF CorInv
  <1> QED BY <1>1, <1>2, <1>3, PTL DEF CorSpec

\* However a request is decided, and decided again, a person has one open request
\* about a date.
THEOREM OneOpenSafe ==
  ASSUME DailySettings, CorrectionSettings PROVE CorSpec => []OneOpen
  <1>1. CorInit => CorInv BY CorStarts
  <1>2. CorInv /\ [CorNext]_corVars => CorInv' BY CorSteps
  <1>3. CorInv => OneOpen
    <2> SUFFICES ASSUME CorInv, NEW u \in Users PROVE Cardinality(Open(u)) <= 1
      BY DEF OneOpen
    <2>1. CASE Open(u) = {} BY <2>1, FS_EmptySet
    <2>2. ASSUME NEW i \in Open(u) PROVE Cardinality(Open(u)) <= 1
      <3>1. Open(u) = {i} BY DEF CorInv, OpenOnce
      <3> QED BY <3>1, FS_Singleton
    <2> QED BY <2>1, <2>2
  <1> QED BY <1>1, <1>2, <1>3, PTL DEF CorSpec

\* Disputes, approved or not, change nothing of what a day's scans guarantee: no
\* slot is logged twice, a Present half has its session row, no time is lost.
THEOREM DisputedDaySafe ==
  ASSUME DailySettings, CorrectionSettings
  PROVE  CorSpec => []HalvesHonest /\ [][TimesKept]_corVars
  <1>1. CorInit => CorInv BY CorStarts
  <1>2. CorInv /\ [CorNext]_corVars => CorInv' BY CorSteps
  <1>3. CorInv => HalvesHonest
    BY DEF CorInv, DailyInv, OnceInv, Once, NoDoubleScan, HalvesHonest
  <1>4. CorInv /\ [CorNext]_corVars => [TimesKept]_corVars
    <2>1. RowsGrow => TimesKept BY DEF RowsGrow, TimesFrom, TimesKept
    <2> QED BY <2>1, CorSteps
  <1> QED BY <1>1, <1>2, <1>3, <1>4, PTL DEF CorSpec

-----------------------------------------------------------------------------
\* Timetable.

LEMMA MinIn == ASSUME NEW N \in SUBSET Nat, N # {} PROVE Min(N) \in N
  BY LeastNat DEF Min

-----------------------------------------------------------------------------
\* The new slots of a class of which none is taken elsewhere by its teacher.
NewSlots == [day : WDays, period : Int, subject : Subjects, staff : Staff]
Unbooked(c) == {g \in SUBSET NewSlots : \A x \in g : ~ Collides(x.staff, c, x.day, x.period)}

LEMMA DayIn ==
    ASSUME TimetableSettings, NEW B, NEW c, NEW g \in Unbooked(c), NEW a \in Allocs, a.class = c, NEW d \in WDays
    PROVE  WithDay(B, g, a, d) \in Unbooked(c)
  <1> DEFINE P == {p \in Periods : Free(B, g, a, d, p)}
  <1>1. CASE WithDay(B, g, a, d) = g BY <1>1
  <1>2. CASE P # {} /\ WithDay(B, g, a, d) = g \cup {New(a, d, Min(P))}
    <2>1. P \in SUBSET Nat BY DEF Periods
    <2>2. Min(P) \in P BY <1>2, <2>1, MinIn
    <2>3. Min(P) \in Int /\ ~ Collides(a.staff, c, d, Min(P)) BY <2>2 DEF Free, Periods
    <2> HIDE DEF P
    <2>4. New(a, d, Min(P)) \in NewSlots BY <2>3 DEF New, NewSlots, Allocs
    <2> QED BY <1>2, <2>3, <2>4 DEF Unbooked, New
  <1> DEFINE full == Filled(g, a) >= a.hours \/ OnDay(g, a, d) >= DailyCap(a)
  <1>3. WithDay(B, g, a, d) = IF full \/ P = {} THEN g ELSE g \cup {New(a, d, Min(P))} BY DEF WithDay
  <1> HIDE DEF full, P
  <1>4. CASE full \/ P = {} BY <1>1, <1>3, <1>4
  <1>5. CASE ~ (full \/ P = {}) BY <1>2, <1>3, <1>5
  <1> QED BY <1>4, <1>5

LEMMA BlockIn ==
    ASSUME TimetableSettings, NEW B, NEW c, NEW g \in Unbooked(c), NEW a \in Allocs, a.class = c
    PROVE  WithBlock(B, g, a) \in Unbooked(c)
  <1> DEFINE n == Min({a.hours - Filled(g, a), IF NPeriods >= 6 THEN 3 ELSE 2})
             starts == <<NPeriods - n + 1, 1, 3>>
             fits(d, i) == /\ starts[i] >= 1 /\ starts[i] + n - 1 <= NPeriods
                           /\ \A p \in starts[i] .. starts[i] + n - 1 : Free(B, g, a, d, p)
             days == {d \in WDays : \E i \in 1 .. 3 : fits(d, i)}
             options == {i \in 1 .. 3 : fits(Min(days), i)}
             start == starts[Min(options)]
             new == {New(a, Min(days), p) : p \in start .. start + n - 1}
  <1>1. WithBlock(B, g, a) = IF a.subject \notin Labs \/ days = {} THEN g ELSE g \cup new
    BY DEF WithBlock
  <1>2. CASE days = {} \/ a.subject \notin Labs BY <1>1, <1>2
  <1>3. CASE days # {}
    <2>1. days \in SUBSET Nat BY DEF WDays
    <2>2. Min(days) \in days BY <1>3, <2>1, MinIn
    <2>3. Min(days) \in WDays /\ options # {} BY <2>2
    <2>4. Min(options) \in options
      <3>1. options \in SUBSET Nat OBVIOUS
      <3> HIDE DEF options
      <3> QED BY <2>3, <3>1, MinIn
    <2>5. \A p \in start .. start + n - 1 : Free(B, g, a, Min(days), p) BY <2>4
    <2> HIDE DEF n, starts, days, options, start
    <2>6. \A p \in start .. start + n - 1 : p \in Int OBVIOUS
    <2>7. \A p \in start .. start + n - 1 :
            New(a, Min(days), p) \in NewSlots /\ ~ Collides(a.staff, c, Min(days), p)
      BY <2>3, <2>5, <2>6 DEF New, NewSlots, Allocs, Free
    <2>8. g \cup new \in Unbooked(c) BY <2>7 DEF Unbooked, New
    <2> QED BY <1>1, <2>8
  <1> QED BY <1>2, <1>3

\* One pass over the days.
AllDays(B, y, a) ==
    LET day[d \in 0 .. NDays] == IF d = 0 THEN y ELSE WithDay(B, day[d - 1], a, d)
    IN  day[NDays]

LEMMA AllDaysIn ==
    ASSUME TimetableSettings, NEW B, NEW c, NEW g \in Unbooked(c), NEW a \in Allocs, a.class = c
    PROVE  AllDays(B, g, a) \in Unbooked(c)
  <1> DEFINE D == Unbooked(c)
             s == [x \in D \X Nat |-> IF x[2] \in WDays THEN WithDay(B, x[1], a, x[2]) ELSE x[1]]
             E(f) == [d \in 0 .. NDays |-> IF d = 0 THEN g ELSE WithDay(B, f[d - 1], a, d)]
             day == CHOOSE f : f = E(f)
  <1>1. \A x \in D, d \in WDays : WithDay(B, x, a, d) \in D BY DayIn
  <1>2. NDays \in Nat /\ \A d \in 1 .. NDays : d \in WDays /\ d \in Nat BY DEF TimetableSettings, WDays
  <1>3. g \in D OBVIOUS
  <1> HIDE DEF D
  <1>4. s \in [D \X Nat -> D] BY <1>1
  <1>5. \A x \in D, d \in WDays : d \in Nat => s[<<x, d>>] = WithDay(B, x, a, d) OBVIOUS
  <1> HIDE DEF s
  <1>15. Reaches(NDays, D, g, s) BY <1>2, <1>3, <1>4, RecursionExists
  <1>6. PICK f \in [0 .. NDays -> D] : \A d \in 0 .. NDays : f[d] = IF d = 0 THEN g ELSE s[<<f[d - 1], d>>]
    BY <1>15 DEF Reaches
  <1>7. \A d \in 0 .. NDays : f[d] = IF d = 0 THEN g ELSE WithDay(B, f[d - 1], a, d)
    <2> TAKE d \in 0 .. NDays
    <2>1. f[d] = IF d = 0 THEN g ELSE s[<<f[d - 1], d>>] BY <1>6
    <2>2. d # 0 => d - 1 \in 0 .. NDays /\ d \in 1 .. NDays BY <1>2
    <2>3. d # 0 => f[d - 1] \in D BY <2>2
    <2> QED BY <1>2, <1>5, <2>1, <2>2, <2>3
  <1>8. f = E(f) BY <1>7
  <1>11. AllDays(B, g, a) = day[NDays] BY DEF AllDays
  <1> HIDE DEF E
  <1>9. day = E(day) BY <1>8
  <1> HIDE DEF day
  <1>10. day[0] = g /\ \A d \in 1 .. NDays : day[d] = WithDay(B, day[d - 1], a, d)
    BY <1>2, <1>9 DEF E
  <1>12. \A d \in 1 .. NDays : day[d - 1] \in D => day[d] \in D BY <1>1, <1>2, <1>10
  <1>13. \A d \in 0 .. NDays : day[d] \in D BY <1>2, <1>3, <1>10, <1>12, RecursionIn
  <1> QED BY <1>2, <1>11, <1>13 DEF D

LEMMA HoursIn ==
    ASSUME TimetableSettings, NEW B, NEW c, NEW g \in Unbooked(c), NEW a \in Allocs, a.class = c
    PROVE  WithHours(B, g, a) \in Unbooked(c)
  <1> DEFINE D == Unbooked(c)
             n == a.hours
             s == [x \in D \X Nat |-> AllDays(B, x[1], a)]
             E(f) == [i \in 0 .. n |-> IF i = 0 THEN g ELSE AllDays(B, f[i - 1], a)]
             pass == CHOOSE f : f = E(f)
  <1>1. \A x \in D : AllDays(B, x, a) \in D BY AllDaysIn
  <1>2. n \in Nat BY DEF TimetableSettings, Allocs
  <1>3. g \in D OBVIOUS
  <1>11. WithHours(B, g, a) = pass[n] BY DEF WithHours, AllDays
  <1> HIDE DEF D, n
  <1>4. s \in [D \X Nat -> D] BY <1>1
  <1>5. \A x \in D, i \in Nat : s[<<x, i>>] = AllDays(B, x, a) OBVIOUS
  <1> HIDE DEF s
  <1>15. Reaches(n, D, g, s) BY <1>2, <1>3, <1>4, RecursionExists
  <1>6. PICK f \in [0 .. n -> D] : \A i \in 0 .. n : f[i] = IF i = 0 THEN g ELSE s[<<f[i - 1], i>>]
    BY <1>15 DEF Reaches
  <1>7. \A i \in 0 .. n : f[i] = IF i = 0 THEN g ELSE AllDays(B, f[i - 1], a)
    <2> TAKE i \in 0 .. n
    <2>1. f[i] = IF i = 0 THEN g ELSE s[<<f[i - 1], i>>] BY <1>6
    <2>2. i # 0 => i - 1 \in 0 .. n /\ i \in Nat BY <1>2
    <2>3. i # 0 => f[i - 1] \in D BY <2>2
    <2> QED BY <1>5, <2>1, <2>2, <2>3
  <1>8. f = E(f) BY <1>7
  <1> HIDE DEF E
  <1>9. pass = E(pass) BY <1>8
  <1> HIDE DEF pass
  <1>10. pass[0] = g /\ \A i \in 1 .. n : pass[i] = AllDays(B, pass[i - 1], a)
    BY <1>2, <1>9 DEF E
  <1>12. \A i \in 1 .. n : pass[i - 1] \in D => pass[i] \in D BY <1>1, <1>10
  <1>13. \A i \in 0 .. n : pass[i] \in D BY <1>2, <1>3, <1>10, <1>12, RecursionIn
  <1> QED BY <1>2, <1>11, <1>13 DEF D

LEMMA GeneratedIn ==
    ASSUME TimetableSettings, NEW B, NEW c, NEW q \in Seq(Allocs), \A i \in 1 .. Len(q) : q[i].class = c
    PROVE  Generated(B, q) \in Unbooked(c)
  <1> DEFINE D == Unbooked(c)
             n == Len(q)
             Served(x, a) == IF Filled(x, a) >= a.hours THEN x ELSE WithHours(B, WithBlock(B, x, a), a)
             s == [x \in D \X Nat |-> IF x[2] \in 1 .. n THEN Served(x[1], q[x[2]]) ELSE x[1]]
             E(f) == [i \in 0 .. n |-> IF i = 0 THEN {}
                                       ELSE IF Filled(f[i - 1], q[i]) >= q[i].hours THEN f[i - 1]
                                       ELSE WithHours(B, WithBlock(B, f[i - 1], q[i]), q[i])]
             g == CHOOSE f : f = E(f)
  <1>2. n \in Nat BY LenProperties
  <1>1. \A x \in D, i \in 1 .. n : Served(x, q[i]) \in D
    <2> TAKE x \in D, i \in 1 .. n
    <2>1. q[i] \in Allocs /\ q[i].class = c BY ElementOfSeq
    <2>2. WithBlock(B, x, q[i]) \in Unbooked(c) BY <2>1, BlockIn
    <2>3. WithHours(B, WithBlock(B, x, q[i]), q[i]) \in Unbooked(c) BY <2>1, <2>2, HoursIn
    <2> QED BY <2>3
  <1>3. {} \in D BY DEF Unbooked
  <1>11. Generated(B, q) = g[n] BY DEF Generated
  <1> HIDE DEF D, n
  <1>14. \A x, i : Served(x, q[i]) = IF Filled(x, q[i]) >= q[i].hours THEN x
                                  ELSE WithHours(B, WithBlock(B, x, q[i]), q[i]) OBVIOUS
  <1> HIDE DEF Next
  <1>4. s \in [D \X Nat -> D] BY <1>1
  <1>5. \A x \in D, i \in 1 .. n : i \in Nat => s[<<x, i>>] = Served(x, q[i]) OBVIOUS
  <1> HIDE DEF s
  <1>15. Reaches(n, D, {}, s) BY <1>2, <1>3, <1>4, RecursionExists
  <1>6. PICK f \in [0 .. n -> D] : \A i \in 0 .. n : f[i] = IF i = 0 THEN {} ELSE s[<<f[i - 1], i>>]
    BY <1>15 DEF Reaches
  <1>7. \A i \in 0 .. n : f[i] = IF i = 0 THEN {} ELSE Served(f[i - 1], q[i])
    <2> TAKE i \in 0 .. n
    <2>1. f[i] = IF i = 0 THEN {} ELSE s[<<f[i - 1], i>>] BY <1>6
    <2>2. i # 0 => i - 1 \in 0 .. n /\ i \in 1 .. n /\ i \in Nat BY <1>2
    <2>3. i # 0 => f[i - 1] \in D BY <2>2
    <2> QED BY <1>5, <2>1, <2>2, <2>3
  <1>8. f = E(f) BY <1>7, <1>14
  <1> HIDE DEF E
  <1>9. g = E(g) BY <1>8
  <1> HIDE DEF g
  <1>10. g[0] = {} /\ \A i \in 1 .. n : g[i] = Served(g[i - 1], q[i])
    <2>1. \A i \in 0 .. n : g[i] = IF i = 0 THEN {}
                                  ELSE IF Filled(g[i - 1], q[i]) >= q[i].hours THEN g[i - 1]
                                  ELSE WithHours(B, WithBlock(B, g[i - 1], q[i]), q[i])
      BY <1>9 DEF E
    <2>2. 0 \in 0 .. n BY <1>2
    <2>3. ASSUME NEW i \in 1 .. n PROVE g[i] = Served(g[i - 1], q[i])
      <3>1. i \in 0 .. n /\ i # 0 OBVIOUS
      <3>2. g[i] = IF Filled(g[i - 1], q[i]) >= q[i].hours THEN g[i - 1]
                   ELSE WithHours(B, WithBlock(B, g[i - 1], q[i]), q[i])
        BY <2>1, <3>1
      <3> QED BY <1>14, <3>2
    <2> QED BY <2>1, <2>2, <2>3
  <1>12. \A i \in 1 .. n : g[i - 1] \in D => g[i] \in D BY <1>1, <1>10
  <1>13. \A i \in 0 .. n : g[i] \in D BY <1>2, <1>3, <1>10, <1>12, RecursionIn
  <1> QED BY <1>2, <1>11, <1>13 DEF D

-----------------------------------------------------------------------------
\* A step that writes lessons of one class only, each of a teacher who has no
\* other class at the time, books nobody twice.
WroteFor(c) ==
    \A k \in Keys : \/ slots'[k] = slots[k] \/ slots'[k] = NoSlot
                    \/ k[1] = c /\ ~ Collides(slots'[k].staff, c, k[2], k[3])

LEMMA WriteKeeps ==
    ASSUME NoDoubleBooking, NEW c, WroteFor(c)
    PROVE  NoDoubleBooking'
  <1> SUFFICES ASSUME NEW j \in Keys, NEW k \in Keys, j[1] # k[1], j[2] = k[2], j[3] = k[3],
                      slots'[j] # NoSlot, slots'[k] # NoSlot, slots'[j].staff = slots'[k].staff
               PROVE  FALSE
    BY DEF NoDoubleBooking
  <1>1. CASE slots'[j] = slots[j] /\ slots'[k] = slots[k] BY <1>1 DEF NoDoubleBooking
  <1>2. CASE j[1] = c /\ ~ Collides(slots'[j].staff, c, j[2], j[3])
    <2>1. slots'[k] = slots[k] BY <1>2 DEF WroteFor
    <2> QED BY <1>2, <2>1 DEF Collides
  <1>3. CASE k[1] = c /\ ~ Collides(slots'[k].staff, c, k[2], k[3])
    <2>1. slots'[j] = slots[j] BY <1>3 DEF WroteFor
    <2> QED BY <1>3, <2>1 DEF Collides
  <1> QED BY <1>1, <1>2, <1>3 DEF WroteFor

LEMMA SaveKeeps ==
    ASSUME NoDoubleBooking, "force" \notin Edits, NEW c \in Classes, NEW d \in WDays, NEW p \in Periods,
           NEW n, NEW b, NEW l \in Lessons, NEW f \in BOOLEAN, SaveSlot(c, d, p, n, b, l, f)
    PROVE  NoDoubleBooking'
  <1> DEFINE Q == PeriodsSaved(c, d, p, n, l, f)
  <1>1. f = FALSE BY DEF SaveSlot, Reply
  <1>2. slots' = [k \in Keys |-> IF k[1] = c /\ k[2] = d /\ k[3] \in Q /\ k[4] = b THEN l ELSE slots[k]]
    BY DEF SaveSlot
  <1>3. \A q \in Q : q \in Int => ~ Collides(l.staff, c, d, q)
    <2> TAKE q \in Q
    <2>1. q \in p .. p + n - 1 /\ \A x \in p .. q : ~ Collides(l.staff, c, d, x) BY <1>1 DEF PeriodsSaved
    <2> HAVE q \in Int
    <2>2. q \in p .. q BY <2>1 DEF Periods
    <2> QED BY <2>1, <2>2
  <1> HIDE DEF Q
  <1>4. \A k \in Keys : k[3] \in Int BY DEF Keys, Periods
  <1>5. ASSUME NEW k \in Keys
        PROVE  \/ slots'[k] = slots[k] \/ slots'[k] = NoSlot
               \/ k[1] = c /\ ~ Collides(slots'[k].staff, c, k[2], k[3])
    <2>1. CASE k[1] = c /\ k[2] = d /\ k[3] \in Q /\ k[4] = b
      <3>1. slots'[k] = l BY <1>2, <2>1
      <3> QED BY <1>3, <1>4, <2>1, <3>1
    <2>2. CASE ~ (k[1] = c /\ k[2] = d /\ k[3] \in Q /\ k[4] = b) BY <1>2, <2>2
    <2> QED BY <2>1, <2>2
  <1>9. WroteFor(c) BY <1>5 DEF WroteFor
  <1> QED BY <1>9, WriteKeeps

LEMMA ClearKeeps ==
    ASSUME NoDoubleBooking, NEW K, NEW c, Clear(K, c)
    PROVE  NoDoubleBooking'
  <1>1. \A k \in Keys : slots'[k] = slots[k] \/ slots'[k] = NoSlot BY DEF Clear, Cleared
  <1>9. WroteFor(c) BY <1>1 DEF WroteFor
  <1> QED BY <1>9, WriteKeeps

\* What an interrupted handler has written is part of what it would write.
LEMMA WrittenKeeps ==
    ASSUME NoDoubleBooking, NEW c, NEW s, NEW W, NEW r, Written(s, W, r),
           \A k \in Keys : s[k] = slots[k] \/ s[k] = NoSlot,
           \A k \in DOMAIN W : k \in Keys => k[1] = c /\ ~ Collides(W[k].staff, c, k[2], k[3])
    PROVE  NoDoubleBooking'
  <1>1. PICK D \in SUBSET DOMAIN W : slots' = [k \in Keys |-> IF k \in D THEN W[k] ELSE s[k]] BY DEF Written
  <1>2. ASSUME NEW k \in Keys
        PROVE  \/ slots'[k] = slots[k] \/ slots'[k] = NoSlot
               \/ k[1] = c /\ ~ Collides(slots'[k].staff, c, k[2], k[3])
    <2>1. CASE k \in D
      <3>1. slots'[k] = W[k] BY <1>1, <2>1
      <3> QED BY <2>1, <3>1
    <2>2. CASE k \notin D BY <1>1, <2>2
    <2> QED BY <2>1, <2>2
  <1>9. WroteFor(c) BY <1>2 DEF WroteFor
  <1> QED BY <1>9, WriteKeeps

LEMMA BulkKeeps ==
    ASSUME TimetableSettings, "force" \notin Edits, NoDoubleBooking, NEW c \in Classes,
           NEW M \in Matrices, NEW w \in BOOLEAN, NEW f \in BOOLEAN, NEW r, BulkSave(c, M, w, f, r)
    PROVE  NoDoubleBooking'
  <1>0. f = FALSE BY DEF BulkSave, Reply
  <1> DEFINE hit == \E x \in DOMAIN M : Collides(M[x].staff, c, x[1], x[2])
             W == [k \in {<<c, x[1], x[2], x[3]>> : x \in DOMAIN M} |-> M[<<k[2], k[3], k[4]>>]]
             s == IF w THEN Cleared(OfClass(c)) ELSE slots
  <1>1. IF hit THEN slots' = slots ELSE Written(s, W, r) BY <1>0 DEF BulkSave
  <1>2. CASE hit BY <1>1, <1>2 DEF NoDoubleBooking
  <1>3. CASE ~ hit
    <2>1. Written(s, W, r) BY <1>1, <1>3
    <2>2. \A k \in Keys : s[k] = slots[k] \/ s[k] = NoSlot BY DEF Cleared
    <2>3. ASSUME NEW k \in DOMAIN W PROVE k[1] = c /\ ~ Collides(W[k].staff, c, k[2], k[3])
      <3>1. PICK x \in DOMAIN M : k = <<c, x[1], x[2], x[3]>> OBVIOUS
      <3>2. x \in WDays \X Periods \X Batches BY DEF TimetableSettings
      <3>3. x = <<k[2], k[3], k[4]>> /\ k[1] = c BY <3>1, <3>2
      <3>4. W[k] = M[x] BY <3>3
      <3> QED BY <1>3, <3>1, <3>3, <3>4
    <2> HIDE DEF s, W
    <2> QED BY <2>1, <2>2, <2>3, WrittenKeeps
  <1> QED BY <1>2, <1>3

LEMMA AllocsFinite == ASSUME TimetableSettings PROVE IsFiniteSet(Allocs)
  <1> DEFINE T == ((Classes \X Subjects) \X Staff) \X Hours
             f == [x \in T |-> [class |-> x[1][1][1], subject |-> x[1][1][2], staff |-> x[1][2], hours |-> x[2]]]
  <1>1. IsFiniteSet(T) BY FS_Product DEF TimetableSettings
  <1>2. f \in [T -> Allocs] BY DEF Allocs
  <1>3. \A a \in Allocs : \E x \in T : f[x] = a
    <2> TAKE a \in Allocs
    <2> DEFINE x == <<<<<<a.class, a.subject>>, a.staff>>, a.hours>>
    <2>1. x \in T /\ f[x] = a BY DEF Allocs
    <2> QED BY <2>1
  <1> HIDE DEF T, f
  <1>4. f \in Surjection(T, Allocs) BY <1>2, <1>3 DEF Surjection
  <1> QED BY <1>1, <1>4, FS_Surjection

EntriesTyped == /\ allocs \subseteq Allocs
         /\ curriculum \subseteq [subject : Subjects, hours : Hours, active : BOOLEAN]

LEMMA SeedsTyped ==
    ASSUME EntriesTyped, NEW c \in Classes, NEW A \in Seeds(c)
    PROVE  A \subseteq Allocs
  <1> DEFINE S == {x \in curriculum : x.active}
  <1>1. PICK f \in [S -> Staff] : A = {[class |-> c, subject |-> x.subject, staff |-> f[x], hours |-> x.hours] : x \in S}
    BY DEF Seeds
  <1>2. \A x \in S : x.subject \in Subjects /\ x.hours \in Hours /\ f[x] \in Staff BY <1>1 DEF EntriesTyped
  <1> QED BY <1>1, <1>2 DEF Allocs

LEMMA AutoKeeps ==
    ASSUME TimetableSettings, NoDoubleBooking, EntriesTyped, NEW c \in Classes, NEW keep \in BOOLEAN, NEW r,
           AutoSchedule(c, keep, r)
    PROVE  NoDoubleBooking' /\ EntriesTyped'
  <1> DEFINE own == {a \in allocs : a.class = c}
             B == IF keep THEN {<<k[2], k[3]>> : k \in Taken(OfClass(c))} ELSE {}
             room == CHOOSE x \in Rooms : TRUE
             g(q) == Generated(B, q)
             W(q) == [k \in {<<c, x.day, x.period, "ALL">> : x \in g(q)} |->
                        LET x == CHOOSE y \in g(q) : y.day = k[2] /\ y.period = k[3]
                        IN  [staff |-> x.staff, subject |-> x.subject, room |-> room]]
  <1>1. PICK A \in (IF own # {} THEN {own} ELSE Seeds(c)) :
             /\ allocs' = allocs \cup A
             /\ IF A = {} THEN slots' = slots ELSE \E q \in SetToSeqs(A) : Written(slots, W(q), r)
    BY DEF AutoSchedule
  <1>2. A \subseteq Allocs BY <1>1, SeedsTyped DEF EntriesTyped
  <1>3. \A a \in A : a.class = c
    <2>1. CASE A = own BY <2>1
    <2>2. CASE A \in Seeds(c)
      <3>1. \E f : A = {[class |-> c, subject |-> x.subject, staff |-> f[x], hours |-> x.hours] :
                         x \in {y \in curriculum : y.active}}
        BY <2>2 DEF Seeds
      <3> QED BY <3>1
    <2> QED BY <1>1, <2>1, <2>2
  <1>4. EntriesTyped' BY <1>1, <1>2 DEF EntriesTyped, AutoSchedule
  <1>5. CASE A = {}
    <2>1. slots' = slots BY <1>1, <1>5
    <2> QED BY <1>4, <2>1 DEF NoDoubleBooking
  <1>6. CASE A # {}
    <2>1. PICK q \in SetToSeqs(A) : Written(slots, W(q), r) BY <1>1, <1>6
    <2>2. q \in Seq(Allocs) /\ \A i \in 1 .. Len(q) : q[i].class = c
      <3>1. IsFiniteSet(A) BY <1>2, AllocsFinite, FS_Subset
      <3>2. Cardinality(A) \in Nat BY <3>1, FS_CardinalityType
      <3>3. q \in [1 .. Cardinality(A) -> A] BY DEF SetToSeqs
      <3>4. q \in Seq(A) /\ Len(q) = Cardinality(A) BY <3>2, <3>3
      <3> QED BY <1>2, <1>3, <3>3, <3>4
    <2>3. g(q) \in Unbooked(c) BY <2>2, GeneratedIn
    <2>4. ASSUME NEW k \in DOMAIN W(q) PROVE k[1] = c /\ ~ Collides(W(q)[k].staff, c, k[2], k[3])
      <3>1. PICK y \in g(q) : k = <<c, y.day, y.period, "ALL">> OBVIOUS
      <3> DEFINE x == CHOOSE z \in g(q) : z.day = k[2] /\ z.period = k[3]
      <3>2. W(q)[k] = [staff |-> x.staff, subject |-> x.subject, room |-> room] OBVIOUS
      <3>3. x \in g(q) /\ x.day = k[2] /\ x.period = k[3] BY <3>1
      <3> HIDE DEF x, g, W
      <3> QED BY <2>3, <3>1, <3>2, <3>3 DEF Unbooked
    <2> DEFINE V == W(q)
    <2>5. Written(slots, V, r) BY <2>1
    <2>6. \A k \in DOMAIN V : k \in Keys => k[1] = c /\ ~ Collides(V[k].staff, c, k[2], k[3]) BY <2>4
    <2> HIDE DEF V
    <2>7. NoDoubleBooking' BY <2>5, <2>6, WrittenKeeps
    <2> QED BY <1>4, <2>7
  <1> QED BY <1>4, <1>5, <1>6

Unforced == Edits \cap {"force", "copy", "swap"} = {}

LEMMA EntriesKeep ==
    ASSUME EntriesTyped, NoDoubleBooking,
           \/ \E a \in Allocs : SaveAlloc(a)
           \/ \E a \in allocs : DeleteAlloc(a)
           \/ \E s \in Subjects, h \in Hours, isOn \in BOOLEAN : SaveSubject(s, h, isOn)
           \/ \E S \in SUBSET Subjects \ {{}}, h \in Hours : ImportSubjects(S, h)
           \/ \E x \in curriculum : DeleteSubject(x)
    PROVE  EntriesTyped' /\ NoDoubleBooking'
  <1>1. slots' = slots BY DEF SaveAlloc, DeleteAlloc, SaveSubject, ImportSubjects, DeleteSubject
  <1>2. NoDoubleBooking' BY <1>1 DEF NoDoubleBooking
  <1>3. ASSUME NEW a \in Allocs, SaveAlloc(a) PROVE EntriesTyped' BY <1>3 DEF SaveAlloc, EntriesTyped
  <1>4. ASSUME NEW a \in allocs, DeleteAlloc(a) PROVE EntriesTyped' BY <1>4 DEF DeleteAlloc, EntriesTyped
  <1>5. ASSUME NEW s \in Subjects, NEW h \in Hours, NEW isOn \in BOOLEAN, SaveSubject(s, h, isOn) PROVE EntriesTyped'
    <2>1. \A a \in Allocs : [a EXCEPT !.hours = h] \in Allocs BY DEF Allocs
    <2>2. allocs' \subseteq Allocs BY <1>5, <2>1 DEF SaveSubject, EntriesTyped
    <2>3. curriculum' \subseteq [subject : Subjects, hours : Hours, active : BOOLEAN] BY <1>5 DEF SaveSubject, EntriesTyped
    <2> QED BY <2>2, <2>3 DEF EntriesTyped
  <1>6. ASSUME NEW S \in SUBSET Subjects \ {{}}, NEW h \in Hours, ImportSubjects(S, h) PROVE EntriesTyped'
    <2> DEFINE R == [subject : Subjects, hours : Hours, active : BOOLEAN]
    <2>1. \A x \in R : [x EXCEPT !.hours = h] \in R OBVIOUS
    <2>2. \A s \in S : [subject |-> s, hours |-> h, active |-> TRUE] \in R OBVIOUS
    <2>3. curriculum \subseteq R BY DEF EntriesTyped
    <2>4. curriculum' = {IF x.subject \in S THEN [x EXCEPT !.hours = h] ELSE x : x \in curriculum}
                   \cup {[subject |-> s, hours |-> h, active |-> TRUE] :
                           s \in {y \in S : ~\E x \in curriculum : x.subject = y}}
      BY <1>6 DEF ImportSubjects
    <2> HIDE DEF R
    <2>5. curriculum' \subseteq R BY <2>1, <2>2, <2>3, <2>4
    <2> QED BY <1>6, <2>5 DEF R, EntriesTyped, ImportSubjects
  <1>7. ASSUME NEW x \in curriculum, DeleteSubject(x) PROVE EntriesTyped' BY <1>7 DEF DeleteSubject, EntriesTyped
  <1> QED BY <1>2, <1>3, <1>4, <1>5, <1>6, <1>7

LEMMA TtStarts == ASSUME TtInit PROVE EntriesTyped /\ NoDoubleBooking
  BY DEF TtInit, EntriesTyped, NoDoubleBooking

LEMMA TtSteps ==
    ASSUME TimetableSettings, Unforced, EntriesTyped, NoDoubleBooking, [TtNext]_ttVars
    PROVE  EntriesTyped' /\ NoDoubleBooking'
  <1> DEFINE Goal == EntriesTyped' /\ NoDoubleBooking'
  <1> SUFFICES Goal OBVIOUS
  <1>0. "force" \notin Edits /\ "copy" \notin Edits /\ "swap" \notin Edits BY DEF Unforced
  <1>1. ASSUME NEW c \in Classes, NEW d \in WDays, NEW p \in Periods, NEW n \in Spans, NEW b \in Batches,
               NEW l \in Lessons, NEW f \in BOOLEAN, SaveSlot(c, d, p, n, b, l, f)
        PROVE  Goal
    <2>1. EntriesTyped' BY <1>1 DEF SaveSlot, EntriesTyped
    <2> QED BY <1>0, <1>1, <2>1, SaveKeeps
  <1>2. ASSUME NEW K, NEW c, Clear(K, c) PROVE Goal
    <2>1. EntriesTyped' BY <1>2 DEF Clear, EntriesTyped
    <2> QED BY <1>2, <2>1, ClearKeeps
  <1>3. ASSUME NEW c \in Classes, NEW M \in Matrices, NEW w \in BOOLEAN, NEW f \in BOOLEAN, NEW r,
               BulkSave(c, M, w, f, r)
        PROVE  Goal
    <2>1. EntriesTyped' BY <1>3 DEF BulkSave, EntriesTyped
    <2> QED BY <1>0, <1>3, <2>1, BulkKeeps
  <1>4. ASSUME NEW c \in Classes, NEW keep \in BOOLEAN, NEW r, AutoSchedule(c, keep, r) PROVE Goal
    BY <1>4, AutoKeeps
  <1>5. ASSUME NEW c, NEW e, NEW w, NEW r, CopyClass(c, e, w, r) PROVE FALSE
    BY <1>0, <1>5 DEF CopyClass, Reply
  <1>6. ASSUME NEW c, NEW d, NEW e, NEW r, CopyDay(c, d, e, r) \/ SwapDays(c, d, e, r) PROVE FALSE
    BY <1>0, <1>6 DEF CopyDay, SwapDays, Reply
  <1>7. CASE UNCHANGED ttVars BY <1>7 DEF ttVars, EntriesTyped, NoDoubleBooking
  <1>8. ASSUME \/ \E a \in Allocs : SaveAlloc(a)
               \/ \E a \in allocs : DeleteAlloc(a)
               \/ \E s \in Subjects, h \in Hours, isOn \in BOOLEAN : SaveSubject(s, h, isOn)
               \/ \E S \in SUBSET Subjects \ {{}}, h \in Hours : ImportSubjects(S, h)
               \/ \E x \in curriculum : DeleteSubject(x)
        PROVE  Goal
    BY <1>8, EntriesKeep
  <1> HIDE DEF Goal
  <1>9. CASE TtNext
    BY <1>1, <1>2, <1>3, <1>4, <1>5, <1>6, <1>8, <1>9 DEF TtNext, DeleteSlot, DeleteDay, DeleteWeek
  <1> QED BY <1>7, <1>9

\* As long as nobody overrides the collision check, copies or swaps, no teacher
\* is ever in two classes at once: neither the slot, nor the matrix, nor the
\* automatic schedule with its blocks and passes (main.py:35570) puts one there,
\* whatever was written of an interrupted one.
THEOREM BookedOnceSafe ==
    ASSUME TimetableSettings, Unforced PROVE TtSpec => []NoDoubleBooking
  <1>1. TtInit => EntriesTyped /\ NoDoubleBooking BY TtStarts
  <1>2. EntriesTyped /\ NoDoubleBooking /\ [TtNext]_ttVars => EntriesTyped' /\ NoDoubleBooking' BY TtSteps
  <1> QED BY <1>1, <1>2, PTL DEF TtSpec

-----------------------------------------------------------------------------
(* CampusTracking: what live reports do within one day. *)

\* A day of live reports: nothing is kept for later, nobody has a permission to
\* go out, and the reports are of somebody whose pings resolve nothing.
LiveDay == Extras \cap {"offline", "permit"} = {} /\ Kind # "student" /\ End < DayLen

\* The timer of an outing runs from no earlier than the person left; else it is
\* cleared by the report that is due, or no report is taken any more today.
TimerTrue ==
  \/ Stop < clock
  \/ out /\ ~on
  \/ on /\ since # NoTime /\ since <= latest.left
  \/ on /\ ~reported /\ InLimit(place)

LiveInv ==
  /\ clock \in Times /\ place \in Places
  /\ since \in Times \cup {NoTime} /\ newest \in Times \cup {NoTime}
  /\ att \in BOOLEAN /\ out \in BOOLEAN /\ on \in BOOLEAN /\ reported \in BOOLEAN /\ overdue \in BOOLEAN
  /\ latest = Missing \/ latest \in [at : Times, warn : BOOLEAN, left : Times \cup {NoTime}, force : BOOLEAN]
  /\ status \in {Missing, "Present", "Absent"}
  /\ permit.on = FALSE /\ od = FALSE /\ queue = <<>>
  /\ (on => att) /\ (status # Missing => att)
  /\ since # NoTime <=> ~InLimit(place)
  /\ since # NoTime => since <= clock /\ (clock - since >= Grace => overdue)
  /\ latest # Missing => Start <= clock
  /\ latest # Missing /\ latest.left # NoTime => TimerTrue \/ "timer" \in torn
  /\ Deserved

\* A warning has a timer, and an alert that is not resolved.
WarnInv ==
  /\ alerts \in Seq({"ACTIVE", "RESOLVED", "ACKNOWLEDGED"})
  /\ WarnedOnce

LEMMA SameMinute ==
    ASSUME TrackingAssumption, LiveDay, NEW t \in Times
    PROVE  t \in Nat /\ t <= End /\ Minute(t) = t
  BY DEF TrackingAssumption, LiveDay, Times, Minute

LEMMA LiveInit ==
    ASSUME TrackingAssumption, LiveDay, Init
    PROVE  LiveInv
  <1>1. clock = 0 /\ 0 \in Times /\ Grace > 0 BY DEF Init, Times, TrackingAssumption
  <1> QED BY <1>1 DEF Init, LiveInv, Deserved, InLimit, TrackingAssumption

LEMMA LiveTick ==
    ASSUME TrackingAssumption, LiveDay, LiveInv, Tick
    PROVE  LiveInv'
  <1>1. clock \in Nat /\ clock' = clock + 1 /\ clock' \in Times /\ Minute(clock + 1) # 0
    <2>1. clock \in 0 .. End /\ clock < End /\ End \in Nat /\ clock' = clock + 1
      BY DEF LiveInv, Tick, Times, TrackingAssumption
    <2>2. clock + 1 \in Times BY <2>1 DEF Times
    <2> QED BY <2>1, <2>2, SameMinute
  <1>2. /\ place' \in Places /\ reported' = FALSE /\ (on => reported)
        /\ att' = att /\ out' = out /\ status' = status /\ od' = od
        /\ UNCHANGED <<permit, latest, newest, alerts, torn, on, queue>>
    BY <1>1 DEF Tick, LiveInv
  <1>3. since' = IF InLimit(place') THEN NoTime ELSE IF InLimit(place) THEN clock + 1 ELSE since
    BY DEF Tick
  <1>4. overdue' = (Late(clock + 1) \/ overdue) BY <1>1 DEF Tick, LiveInv
  <1>5. NoTime \notin Nat /\ Grace \in Nat /\ Grace > 0 BY DEF TrackingAssumption
  <1>6. /\ since' \in Times \cup {NoTime}
        /\ since' # NoTime <=> ~InLimit(place')
    <2>1. CASE InLimit(place') BY <1>3, <2>1
    <2>2. CASE ~InLimit(place') /\ InLimit(place) BY <1>1, <1>3, <1>5, <2>2
    <2>3. CASE ~InLimit(place') /\ ~InLimit(place) BY <1>3, <2>3 DEF LiveInv
    <2> QED BY <2>1, <2>2, <2>3
  <1>7. since' # NoTime => since' <= clock' /\ (clock' - since' >= Grace => overdue')
    <2> SUFFICES ASSUME since' # NoTime PROVE since' <= clock' /\ (clock' - since' >= Grace => overdue') OBVIOUS
    <2>1. since' <= clock'
      <3>1. CASE InLimit(place) BY <1>1, <1>3, <1>6, <3>1
      <3>2. CASE ~InLimit(place) BY <1>1, <1>3, <1>6, <3>2 DEF LiveInv, Times
      <3> QED BY <3>1, <3>2
    <2>2. ASSUME clock' - since' >= Grace PROVE overdue' BY <1>1, <1>4, <2>2 DEF Late
    <2> QED BY <2>1, <2>2
  <1>8. overdue' \in BOOLEAN /\ (overdue => overdue') BY <1>4 DEF Late
  <1>9. latest' # Missing => Start <= clock' BY <1>1, <1>2 DEF LiveInv, TrackingAssumption
  <1>10. ASSUME latest' # Missing, latest'.left # NoTime, "timer" \notin torn' PROVE TimerTrue'
    <2>1. TimerTrue BY <1>2, <1>10 DEF LiveInv
    <2>2. CASE Stop < clock BY <1>1, <2>2 DEF TimerTrue, TrackingAssumption
    <2>3. CASE out /\ ~on BY <1>2, <2>3 DEF TimerTrue
    <2>4. CASE on /\ since # NoTime /\ since <= latest.left
      <3>1. ~InLimit(place) BY <2>4 DEF LiveInv
      <3>2. CASE InLimit(place') BY <1>2, <2>4, <3>2 DEF TimerTrue
      <3>3. CASE ~InLimit(place')
        <4>1. since' = since BY <1>3, <3>1, <3>3
        <4> QED BY <1>2, <2>4, <4>1 DEF TimerTrue
      <3> QED BY <3>2, <3>3
    <2>5. CASE on /\ ~reported /\ InLimit(place) BY <1>2, <2>5
    <2> QED BY <2>1, <2>2, <2>3, <2>4, <2>5 DEF TimerTrue
  <1>11. Deserved' BY <1>2, <1>8 DEF Deserved, LiveInv
  <1> QED BY <1>1, <1>2, <1>6, <1>7, <1>8, <1>9, <1>10, <1>11 DEF LiveInv

\* A timer that failures have left running stays one that may be wrong.
LEMMA TornTimer ==
    ASSUME NEW x, NEW whole, NEW again, NEW lost, NEW al
    PROVE  /\ "timer" \in x \/ lost => "timer" \in Torn(x, whole, again, lost, al)
           /\ ~whole => "alert" \in Torn(x, whole, again, lost, al)
  BY DEF Torn

\* What a live report writes for somebody the boundary applies to, when the
\* statements f of it fail.
Writes(f) ==
  LET left == IF InLimit(place) THEN NoTime
              ELSE IF latest # Missing /\ latest.left # NoTime THEN latest.left ELSE clock
      warn == ~InLimit(place)
      late == warn /\ clock - left >= Grace
      stored == "row" \notin f /\ ~(late /\ "mark" \in f)
  IN  /\ alerts' = IF warn THEN RecordBy(alerts, f) ELSE ResolveBy(alerts, f)
      /\ status' = IF late /\ "mark" \notin f THEN Absent(status) ELSE status
      /\ IF stored
         THEN /\ \E force \in BOOLEAN :
                   latest' = [at |-> clock, warn |-> warn, left |-> left, force |-> force]
              /\ newest' = Newest(clock)
         ELSE latest' = latest /\ newest' = newest
      /\ torn' = Torn(torn, stored /\ f \cap {"alert", "again"} = {}, warn /\ "again" \in f,
                     ~stored /\ left = NoTime, alerts')

LEMMA LiveReport ==
    ASSUME TrackingAssumption, LiveDay, LiveInv, Update
    PROVE  /\ on /\ ~reported /\ att /\ Start <= clock /\ clock <= Stop /\ reported' = TRUE
           /\ \E f \in Faults : Writes(f)
           /\ UNCHANGED <<clock, place, since, overdue, att, out, permit, od, on, queue>>
  <1>1. on /\ ~reported /\ att BY DEF Update, LiveInv
  <1>2. Start <= clock /\ clock <= Stop BY SameMinute DEF Update, InHours, LiveInv
  <1>3. LiveAttended = TRUE /\ LivePermitted = FALSE
    BY <1>1 DEF LiveAttended, LivePermitted, PermitHolds, LiveInv
  <1>4. {FALSE, Forced} \subseteq BOOLEAN BY DEF Forced, LiveInv
  <1> DEFINE guarded == LiveAttended /\ ~LivePermitted
             left == LeftAfter(guarded, place)
             warn == guarded /\ ~InLimit(place)
             late == warn /\ clock - left >= Grace
             stored(f) == "row" \notin f /\ ~(late /\ "mark" \in f)
  <1>5. PICK f \in Faults :
          /\ alerts' = CASE warn -> RecordBy(alerts, f)
                         [] guarded /\ ~warn -> ResolveBy(alerts, f)
                         [] OTHER -> alerts
          /\ status' = IF late /\ "mark" \notin f THEN Absent(status) ELSE status
          /\ IF stored(f)
             THEN /\ \E force \in {FALSE, Forced} :
                       /\ "fail" \notin Extras => ~force
                       /\ latest' = [at |-> clock, warn |-> warn, left |-> left, force |-> force]
                  /\ newest' = Newest(clock)
             ELSE UNCHANGED <<latest, newest>>
          /\ torn' = Torn(torn, stored(f) /\ f \cap {"alert", "again"} = {}, warn /\ "again" \in f,
                         ~stored(f) /\ left = NoTime, alerts')
    BY DEF Update
  <1>6. guarded = TRUE BY <1>3
  <1>7. warn = ~InLimit(place) BY <1>6
  <1>8. left = IF InLimit(place) THEN NoTime
               ELSE IF latest # Missing /\ latest.left # NoTime THEN latest.left ELSE clock
    BY <1>6 DEF LeftAfter
  <1>9. alerts' = IF warn THEN RecordBy(alerts, f) ELSE ResolveBy(alerts, f) BY <1>5, <1>6, <1>7
  <1>10. IF stored(f)
         THEN /\ \E force \in BOOLEAN :
                   latest' = [at |-> clock, warn |-> warn, left |-> left, force |-> force]
              /\ newest' = Newest(clock)
         ELSE latest' = latest /\ newest' = newest
    BY <1>4, <1>5
  <1> HIDE DEF guarded, left, warn
  <1>11. Writes(f) BY <1>5, <1>7, <1>8, <1>9, <1>10 DEF Writes
  <1>12. "offline" \notin Extras BY DEF LiveDay
  <1> QED BY <1>1, <1>2, <1>11, <1>12 DEF Update, world

LEMMA LiveUpdate ==
    ASSUME TrackingAssumption, LiveDay, LiveInv, Update
    PROVE  LiveInv'
  <1> DEFINE left == IF InLimit(place) THEN NoTime
                     ELSE IF latest # Missing /\ latest.left # NoTime THEN latest.left ELSE clock
             warn == ~InLimit(place)
             late == warn /\ clock - left >= Grace
             stored(f) == "row" \notin f /\ ~(late /\ "mark" \in f)
             Row == [at : Times, warn : BOOLEAN, left : Times \cup {NoTime}, force : BOOLEAN]
  <1>1. /\ on /\ ~reported /\ att /\ Start <= clock /\ clock <= Stop /\ reported' = TRUE
        /\ UNCHANGED <<clock, place, since, overdue, att, out, permit, od, on, queue>>
    BY LiveReport
  <1>2. PICK f \in Faults : Writes(f) BY LiveReport
  <1>3. /\ status' = IF late /\ "mark" \notin f THEN Absent(status) ELSE status
        /\ IF stored(f)
           THEN /\ \E force \in BOOLEAN :
                     latest' = [at |-> clock, warn |-> warn, left |-> left, force |-> force]
                /\ newest' = Newest(clock)
           ELSE latest' = latest /\ newest' = newest
        /\ torn' = Torn(torn, stored(f) /\ f \cap {"alert", "again"} = {}, warn /\ "again" \in f,
                       ~stored(f) /\ left = NoTime, alerts')
    BY <1>2 DEF Writes
  <1>4. clock \in Nat /\ NoTime \notin Nat /\ Grace \in Nat /\ Grace > 0 /\ Stop \in Nat
    BY DEF LiveInv, Times, TrackingAssumption
  <1>5. left \in Times \cup {NoTime} /\ (left # NoTime <=> ~InLimit(place))
    BY <1>4 DEF LiveInv
  <1>6. "timer" \notin torn' => "timer" \notin torn /\ ~(~stored(f) /\ left = NoTime)
    <2> HIDE DEF left, warn, late, stored
    <2> QED BY <1>3, TornTimer
  <1>7. ASSUME left # NoTime, "timer" \notin torn
        PROVE  left \in Nat /\ since # NoTime /\ since \in Nat /\ since <= left
    <2>1. ~InLimit(place) /\ since # NoTime /\ since \in Nat /\ left \in Nat BY <1>5, <1>7 DEF LiveInv, Times
    <2>2. CASE latest # Missing /\ latest.left # NoTime
      <3>1. TimerTrue /\ left = latest.left BY <1>7, <2>1, <2>2 DEF LiveInv
      <3>2. since <= latest.left BY <1>1, <1>4, <2>1, <3>1 DEF TimerTrue
      <3> QED BY <2>1, <3>1, <3>2
    <2>3. CASE ~(latest # Missing /\ latest.left # NoTime)
      <3>1. left = clock BY <2>1, <2>3
      <3> QED BY <2>1, <3>1 DEF LiveInv
    <2> QED BY <2>2, <2>3
  <1>8. status' \in {Missing, "Present", "Absent"} /\ (status' # Missing => att)
    BY <1>1, <1>3 DEF Absent, LiveInv
  <1>9. newest' \in Times \cup {NoTime} BY <1>3 DEF Newest, LiveInv
  <1>10. latest' = Missing \/ latest' \in Row
    <2>1. CASE stored(f)
      <3>1. PICK force \in BOOLEAN : latest' = [at |-> clock, warn |-> warn, left |-> left, force |-> force]
        BY <1>3, <2>1
      <3>2. warn \in BOOLEAN BY DEF InLimit
      <3> HIDE DEF left, warn
      <3> QED BY <1>5, <3>1, <3>2 DEF LiveInv
    <2>2. CASE ~stored(f) BY <1>3, <2>2 DEF LiveInv
    <2> QED BY <2>1, <2>2
  <1>11. ASSUME latest' # Missing, latest'.left # NoTime, "timer" \notin torn' PROVE TimerTrue'
    <2>1. CASE stored(f)
      <3>1. PICK force \in BOOLEAN : latest' = [at |-> clock, warn |-> warn, left |-> left, force |-> force]
        BY <1>3, <2>1
      <3> HIDE DEF left, warn, late, stored
      <3>2. latest'.left = left BY <3>1
      <3> QED BY <1>1, <1>6, <1>7, <1>11, <3>2 DEF TimerTrue
    <2>2. CASE ~stored(f)
      <3> HIDE DEF left, warn, late, stored
      <3>1. latest' = latest /\ "timer" \notin torn /\ left # NoTime BY <1>3, <1>6, <1>11, <2>2
      <3>2. TimerTrue /\ ~InLimit(place) BY <1>5, <1>11, <3>1 DEF LiveInv
      <3>3. on /\ since # NoTime /\ since <= latest.left BY <1>1, <1>4, <3>2 DEF TimerTrue
      <3> QED BY <1>1, <3>1, <3>3 DEF TimerTrue
    <2> QED BY <2>1, <2>2
  <1>12. Deserved'
    <2>1. CASE "timer" \in torn' BY <2>1 DEF Deserved
    <2>2. CASE "timer" \notin torn' /\ late
      <3>1. "timer" \notin torn /\ left # NoTime BY <1>5, <1>6, <2>2
      <3>2. left \in Nat /\ since \in Nat /\ since # NoTime /\ since <= left BY <1>7, <3>1
      <3>3. clock - since >= Grace BY <1>4, <2>2, <3>2
      <3>4. overdue BY <3>2, <3>3 DEF LiveInv
      <3> QED BY <1>1, <3>4 DEF Deserved
    <2>3. CASE "timer" \notin torn' /\ ~late
      <3>1. status' = status /\ "timer" \notin torn BY <1>3, <1>6, <2>3
      <3> QED BY <1>1, <3>1 DEF Deserved, LiveInv
    <2> QED BY <2>1, <2>2, <2>3
  <1>13. latest' # Missing => Start <= clock' BY <1>1
  <1> QED BY <1>1, <1>8, <1>9, <1>10, <1>11, <1>12, <1>13 DEF LiveInv

LEMMA LiveOthers ==
    ASSUME TrackingAssumption, LiveDay, LiveInv,
           CheckIn \/ CheckOut \/ UpdateIgnored \/ Poll \/ Acknowledge \/ ForceUpdate
    PROVE  LiveInv'
  <1>1. CASE CheckIn
    <2>1. /\ att' = TRUE /\ status' = "Present"
          /\ UNCHANGED <<clock, place, since, overdue, out, permit, od, latest, newest, torn, on, queue, reported>>
      BY <1>1 DEF CheckIn, world, phone
    <2>2. TimerTrue' = TimerTrue BY <2>1 DEF TimerTrue
    <2> QED BY <2>1, <2>2 DEF LiveInv, Deserved
  <1>2. CASE CheckOut
    <2>1. /\ out' = TRUE
          /\ UNCHANGED <<clock, place, since, overdue, att, status, permit, od, latest, newest, torn, on, queue, reported>>
      BY <1>2 DEF CheckOut, world, phone
    <2>2. TimerTrue => TimerTrue' BY <2>1 DEF TimerTrue
    <2> QED BY <2>1, <2>2 DEF LiveInv, Deserved
  <1>3. CASE UpdateIgnored
    <2>1. /\ reported' = TRUE /\ ~InHours(clock)
          /\ UNCHANGED <<clock, place, since, overdue, att, out, status, permit, od, latest, newest, torn, on, queue>>
      BY <1>3 DEF UpdateIgnored, world
    <2>2. latest # Missing => Stop < clock
      <3>1. clock \in Nat /\ Minute(clock) = clock BY SameMinute DEF LiveInv
      <3> QED BY <2>1, <3>1 DEF InHours, LiveInv, TrackingAssumption
    <2>3. latest' # Missing => TimerTrue' BY <2>1, <2>2 DEF TimerTrue
    <2> QED BY <2>1, <2>3 DEF LiveInv, Deserved
  <1>4. CASE Poll
    <2>1. /\ on' = Tracking
          /\ UNCHANGED <<clock, place, since, overdue, att, out, status, permit, od, latest, newest, torn, queue, reported>>
      BY <1>4 DEF Poll, world
    <2>2. Minute(clock) = clock /\ clock \in Nat BY SameMinute DEF LiveInv
    <2>3. on' \in BOOLEAN /\ (on' => att) /\ (on' => ~out /\ clock <= Stop)
      BY <2>1, <2>2 DEF Tracking, LiveInv, TrackingAssumption
    <2>4. on => on' \/ out \/ Stop < clock
      BY <2>1, <2>2 DEF Tracking, LiveInv, TrackingAssumption
    <2>5. TimerTrue => TimerTrue' BY <2>1, <2>3, <2>4 DEF TimerTrue
    <2> QED BY <2>1, <2>3, <2>5 DEF LiveInv, Deserved
  <1>5. CASE Acknowledge
    <2>1. UNCHANGED <<clock, place, since, overdue, att, out, status, permit, od, latest, newest, torn, on, queue, reported>>
      BY <1>5 DEF Acknowledge, world, phone
    <2>2. TimerTrue' = TimerTrue BY <2>1 DEF TimerTrue
    <2> QED BY <2>1, <2>2 DEF LiveInv, Deserved
  <1>6. CASE ForceUpdate
    <2>1. /\ latest # Missing /\ latest' = [latest EXCEPT !.force = TRUE]
          /\ UNCHANGED <<clock, place, since, overdue, att, out, status, permit, od, newest, torn, on, queue, reported>>
      BY <1>6 DEF ForceUpdate, world, phone
    <2>2. /\ latest' \in [at : Times, warn : BOOLEAN, left : Times \cup {NoTime}, force : BOOLEAN]
          /\ latest'.left = latest.left
      BY <2>1 DEF LiveInv
    <2>3. TimerTrue => TimerTrue' BY <2>1, <2>2 DEF TimerTrue
    <2> QED BY <2>1, <2>2, <2>3 DEF LiveInv, Deserved
  <1> QED BY <1>1, <1>2, <1>3, <1>4, <1>5, <1>6

LEMMA LiveStep ==
    ASSUME TrackingAssumption, LiveDay, LiveInv, [Next]_vars
    PROVE  LiveInv'
  <1>1. ~Keep /\ ~Sync /\ ~OutPermission /\ ~ApproveOD /\ ~StudentPing
    BY DEF LiveDay, LiveInv, Keep, Sync, OutPermission, ApproveOD, StudentPing
  <1>2. CASE UNCHANGED vars
    <2>1. UNCHANGED <<clock, place, since, overdue, att, out, status, permit, od, latest, newest, torn, on, queue, reported>>
      BY <1>2 DEF vars, world, phone
    <2>2. TimerTrue' = TimerTrue BY <2>1 DEF TimerTrue
    <2> QED BY <2>1, <2>2 DEF LiveInv, Deserved
  <1>3. CASE Next
    BY <1>1, <1>3, LiveTick, LiveUpdate, LiveOthers DEF Next
  <1> QED BY <1>2, <1>3

\* A warning step.
LEMMA WarnStep ==
    ASSUME TrackingAssumption, LiveDay, LiveInv, WarnInv, [Next]_vars
    PROVE  WarnInv'
  <1> DEFINE Rows == {"ACTIVE", "RESOLVED", "ACKNOWLEDGED"}
             Row == [at : Times, warn : BOOLEAN, left : Times \cup {NoTime}, force : BOOLEAN]
  <1>1. ~Keep /\ ~Sync /\ ~OutPermission /\ ~ApproveOD /\ ~StudentPing
    BY DEF LiveDay, LiveInv, Keep, Sync, OutPermission, ApproveOD, StudentPing
  <1>2. ASSUME UNCHANGED <<alerts, latest, torn>> PROVE WarnInv' BY <1>2 DEF WarnInv, WarnedOnce
  <1>3. CASE Update
    <2> DEFINE left == IF InLimit(place) THEN NoTime
                       ELSE IF latest # Missing /\ latest.left # NoTime THEN latest.left ELSE clock
               warn == ~InLimit(place)
               late == warn /\ clock - left >= Grace
               stored(f) == "row" \notin f /\ ~(late /\ "mark" \in f)
    <2>1. PICK f \in Faults : Writes(f) BY <1>3, LiveReport
    <2>2. /\ alerts' = IF warn THEN RecordBy(alerts, f) ELSE ResolveBy(alerts, f)
          /\ IF stored(f)
             THEN \E force \in BOOLEAN :
                     latest' = [at |-> clock, warn |-> warn, left |-> left, force |-> force]
             ELSE latest' = latest
          /\ torn' = Torn(torn, stored(f) /\ f \cap {"alert", "again"} = {}, warn /\ "again" \in f,
                         ~stored(f) /\ left = NoTime, alerts')
      BY <2>1 DEF Writes
    <2>3. alerts \in Seq(Rows) /\ Len(alerts) \in Nat /\ DOMAIN alerts = 1 .. Len(alerts) BY DEF WarnInv
    <2>4. warn => left # NoTime BY DEF LiveInv, TrackingAssumption, Times
    <2> HIDE DEF left, late
    <2>5. latest' # Missing /\ latest'.warn => latest'.left # NoTime
      <3>1. CASE stored(f)
        <4>1. PICK force \in BOOLEAN : latest' = [at |-> clock, warn |-> warn, left |-> left, force |-> force]
          BY <2>2, <3>1
        <4> HIDE DEF warn
        <4>2. latest'.warn = warn /\ latest'.left = left BY <4>1
        <4> QED BY <2>4, <4>2
      <3>2. CASE ~stored(f) BY <2>2, <3>2 DEF WarnInv, WarnedOnce
      <3> QED BY <3>1, <3>2
    <2>6. /\ Resolve(alerts) \in Seq(Rows)
          /\ Append(alerts, "ACTIVE") \in Seq(Rows)
          /\ Record(alerts) \in Seq(Rows)
      <3>1. \A i \in 1 .. Len(alerts) : alerts[i] \in Rows BY <2>3
      <3>2. Resolve(alerts) = [i \in 1 .. Len(alerts) |-> IF alerts[i] = "ACTIVE" THEN "RESOLVED" ELSE alerts[i]]
        BY <2>3 DEF Resolve
      <3>3. Append(alerts, "ACTIVE") \in Seq(Rows) BY <2>3, AppendProperties
      <3> QED BY <2>3, <3>1, <3>2, <3>3, IsASeq DEF Record
    <2>7. alerts' \in Seq(Rows) BY <2>2, <2>3, <2>6 DEF RecordBy, ResolveBy
    <2>8. CASE ~(stored(f) /\ f \cap {"alert", "again"} = {})
      <3>1. "alert" \in torn' BY <2>2, <2>8, TornTimer
      <3> QED BY <2>5, <2>7, <3>1 DEF WarnInv, WarnedOnce
    <2>9. CASE stored(f) /\ f \cap {"alert", "again"} = {}
      <3>1. PICK force \in BOOLEAN : latest' = [at |-> clock, warn |-> warn, left |-> left, force |-> force]
        BY <2>2, <2>9
      <3>2. CASE InLimit(place)
        <4>1. latest'.warn = FALSE BY <3>1, <3>2
        <4> QED BY <2>7, <4>1 DEF WarnInv, WarnedOnce
      <3>3. CASE ~InLimit(place)
        <4>1. alerts' = RecordBy(alerts, f) BY <2>2, <3>3
        <4>2. "alert" \notin f /\ "again" \notin f BY <2>9
        <4>3. RecordBy(alerts, f) = Record(alerts) BY <4>2 DEF RecordBy
        <4>4. \E i \in DOMAIN alerts' : alerts'[i] # "RESOLVED"
          <5>1. CASE Active(alerts) # {} BY <4>1, <4>3, <5>1 DEF Record, Active
          <5>2. CASE Active(alerts) = {}
            <6>1. alerts' = Append(alerts, "ACTIVE") BY <4>1, <4>3, <5>2 DEF Record
            <6>2. Len(alerts') = Len(alerts) + 1 /\ alerts'[Len(alerts) + 1] = "ACTIVE"
              BY <2>3, <6>1, AppendProperties
            <6>3. Len(alerts) + 1 \in DOMAIN alerts' BY <2>3, <2>7, <6>2
            <6> QED BY <6>2, <6>3
          <5> QED BY <5>1, <5>2
        <4> QED BY <2>5, <2>7, <4>4 DEF WarnInv, WarnedOnce
      <3> QED BY <3>2, <3>3
    <2> QED BY <2>8, <2>9
  <1>4. CASE Acknowledge
    <2>1. PICK i \in DOMAIN alerts : alerts' = [alerts EXCEPT ![i] = "ACKNOWLEDGED"] BY <1>4 DEF Acknowledge
    <2>2. latest' = latest /\ torn' = torn BY <1>4 DEF Acknowledge
    <2>3. alerts' \in Seq(Rows) /\ DOMAIN alerts' = DOMAIN alerts BY <2>1, ExceptSeq DEF WarnInv
    <2>4. alerts'[i] = "ACKNOWLEDGED" BY <2>1
    <2> QED BY <2>2, <2>3, <2>4 DEF WarnInv, WarnedOnce
  <1>5. CASE ForceUpdate
    <2>1. /\ latest # Missing /\ latest' = [latest EXCEPT !.force = TRUE] /\ alerts' = alerts /\ torn' = torn
      BY <1>5 DEF ForceUpdate
    <2>2. latest'.warn = latest.warn /\ latest'.left = latest.left BY <2>1 DEF LiveInv
    <2> QED BY <2>1, <2>2 DEF WarnInv, WarnedOnce
  <1>6. CASE Tick \/ CheckIn \/ CheckOut \/ UpdateIgnored \/ Poll
    BY <1>2, <1>6 DEF Tick, CheckIn, CheckOut, UpdateIgnored, Poll
  <1>7. CASE UNCHANGED vars BY <1>2, <1>7 DEF vars
  <1> QED BY <1>1, <1>3, <1>4, <1>5, <1>6, <1>7 DEF Next

\* Within a day of live reports, whichever statements of them fail: nobody is marked
\* absent who was not outside for the allowed minutes at a stretch, unless the row
\* of a return was lost; and a stored warning has a timer and, unless a statement of
\* the last report failed, an alert that is not resolved (update_user_location).
THEOREM OutingSafe ==
    ASSUME TrackingAssumption, LiveDay
    PROVE  Spec => [](Deserved /\ WarnedOnce)
  <1>1. Init => LiveInv BY LiveInit
  <1>2. LiveInv /\ [Next]_vars => LiveInv' BY LiveStep
  <1>3. Init => WarnInv
    <2>1. <<>> \in Seq({"ACTIVE", "RESOLVED", "ACKNOWLEDGED"}) OBVIOUS
    <2> QED BY <2>1 DEF Init, WarnInv, WarnedOnce
  <1>4. LiveInv /\ WarnInv /\ [Next]_vars => WarnInv' BY WarnStep
  <1>5. LiveInv /\ WarnInv => Deserved /\ WarnedOnce BY DEF LiveInv, WarnInv
  <1> QED BY <1>1, <1>2, <1>3, <1>4, <1>5, PTL DEF Spec

\* And a stored report from inside the limit range leaves no alert ACTIVE, unless the
\* UPDATE failed (_resolve_campus_movement_alert).
THEOREM ReturnSafe ==
    ASSUME TrackingAssumption, LiveDay
    PROVE  Spec => [][ReturnResolves]_vars
  <1>1. Init => LiveInv BY LiveInit
  <1>2. LiveInv /\ [Next]_vars => LiveInv' BY LiveStep
  <1>3. LiveInv /\ [Next]_vars => ReturnResolves
    <2> SUFFICES ASSUME LiveInv, [Next]_vars, newest' # newest, InLimit(place), "alert" \notin torn'
                 PROVE  Active(alerts') = {}
      BY DEF ReturnResolves
    <2>1. ~Keep /\ ~Sync /\ ~OutPermission /\ ~ApproveOD /\ ~StudentPing
      BY DEF LiveDay, LiveInv, Keep, Sync, OutPermission, ApproveOD, StudentPing
    <2>2. Update
      BY <2>1 DEF Next, vars, Tick, CheckIn, CheckOut, UpdateIgnored, Poll, Acknowledge, ForceUpdate
    <2>3. PICK f \in Faults : Writes(f) BY <2>2, LiveReport
    <2>4. "alert" \notin f BY <2>3, TornTimer DEF Writes
    <2>5. alerts' = Resolve(alerts) BY <2>3, <2>4 DEF Writes, ResolveBy
    <2> QED BY <2>5 DEF Resolve, Active
  <1> QED BY <1>1, <1>2, <1>3, PTL DEF Spec

-----------------------------------------------------------------------------
(* CampusTracking: the alerts, whatever a person and a phone do. *)

AlertStates == {"ACTIVE", "RESOLVED", "ACKNOWLEDGED"}
\* The lists of alerts with at most one ACTIVE.
OneAtATime == {al \in Seq(AlertStates) : \A i, j \in DOMAIN al : al[i] = "ACTIVE" /\ al[j] = "ACTIVE" => i = j}
\* The alerts and what failures have left: with "twice" any list.
Tears == {"alert", "twice", "timer"}
Sound(al, x) == al \in Seq(AlertStates) /\ x \subseteq Tears /\ ("twice" \in x \/ al \in OneAtATime)
Position == [at : Times, warn : BOOLEAN, left : Times \cup {NoTime}, force : BOOLEAN]

LEMMA RecordOne ==
    ASSUME NEW al \in OneAtATime
    PROVE  Record(al) \in OneAtATime
  <1>1. al \in Seq(AlertStates) /\ Len(al) \in Nat /\ DOMAIN al = 1 .. Len(al) BY DEF OneAtATime
  <1>2. CASE Active(al) = {}
    <2>1. Record(al) = Append(al, "ACTIVE") BY <1>2 DEF Record
    <2> DEFINE r == Append(al, "ACTIVE")
    <2>2. /\ r \in Seq(AlertStates) /\ Len(r) = Len(al) + 1 /\ DOMAIN r = 1 .. Len(al) + 1
          /\ \A i \in 1 .. Len(al) : r[i] = al[i]
      BY <1>1, AppendProperties DEF AlertStates
    <2> HIDE DEF r
    <2>3. \A i \in DOMAIN r : r[i] = "ACTIVE" => i = Len(al) + 1 BY <1>1, <1>2, <2>2 DEF Active
    <2> QED BY <2>1, <2>2, <2>3 DEF OneAtATime, r
  <1>3. CASE Active(al) # {} BY <1>3 DEF Record
  <1> QED BY <1>2, <1>3

LEMMA ResolveOne ==
    ASSUME NEW al \in OneAtATime
    PROVE  Resolve(al) \in OneAtATime /\ Len(Resolve(al)) = Len(al)
  <1>1. al \in Seq(AlertStates) /\ Len(al) \in Nat /\ DOMAIN al = 1 .. Len(al) BY DEF OneAtATime
  <1>2. \A i \in 1 .. Len(al) : al[i] \in AlertStates BY <1>1
  <1>3. Resolve(al) = [i \in 1 .. Len(al) |-> IF al[i] = "ACTIVE" THEN "RESOLVED" ELSE al[i]] BY <1>1 DEF Resolve
  <1>4. \A i \in 1 .. Len(al) : (IF al[i] = "ACTIVE" THEN "RESOLVED" ELSE al[i]) \in AlertStates BY <1>2 DEF AlertStates
  <1>5. Resolve(al) \in Seq(AlertStates) BY <1>1, <1>3, <1>4, IsASeq
  <1>6. DOMAIN Resolve(al) = 1 .. Len(al) BY <1>3
  <1>7. Len(Resolve(al)) = Len(al) BY <1>1, <1>5, <1>6, LenProperties
  <1>8. \A i \in DOMAIN Resolve(al) : Resolve(al)[i] # "ACTIVE" BY <1>3
  <1> QED BY <1>5, <1>7, <1>8 DEF OneAtATime

LEMMA ListsOfAlerts ==
    ASSUME NEW al \in Seq(AlertStates), NEW f
    PROVE  /\ RecordBy(al, f) \in Seq(AlertStates) /\ ResolveBy(al, f) \in Seq(AlertStates)
           /\ al \in OneAtATime /\ "again" \notin f => RecordBy(al, f) \in OneAtATime
           /\ al \in OneAtATime => ResolveBy(al, f) \in OneAtATime
           /\ Active(al) = {} => al \in OneAtATime
  <1>1. Append(al, "ACTIVE") \in Seq(AlertStates) BY AppendProperties DEF AlertStates
  <1>2. Resolve(al) \in Seq(AlertStates)
    <2>1. Len(al) \in Nat /\ DOMAIN al = 1 .. Len(al) /\ \A i \in 1 .. Len(al) : al[i] \in AlertStates OBVIOUS
    <2>2. Resolve(al) = [i \in 1 .. Len(al) |-> IF al[i] = "ACTIVE" THEN "RESOLVED" ELSE al[i]]
      BY <2>1 DEF Resolve
    <2>3. \A i \in 1 .. Len(al) : (IF al[i] = "ACTIVE" THEN "RESOLVED" ELSE al[i]) \in AlertStates
      BY <2>1 DEF AlertStates
    <2> QED BY <2>1, <2>2, <2>3, IsASeq
  <1>3. RecordBy(al, f) \in Seq(AlertStates) BY <1>1 DEF RecordBy, Record
  <1>4. ResolveBy(al, f) \in Seq(AlertStates) BY <1>2 DEF ResolveBy
  <1>5. ASSUME al \in OneAtATime, "again" \notin f PROVE RecordBy(al, f) \in OneAtATime
    <2>1. RecordBy(al, f) = al \/ RecordBy(al, f) = Record(al) BY <1>5 DEF RecordBy
    <2> QED BY <1>5, <2>1, RecordOne
  <1>6. ASSUME al \in OneAtATime PROVE ResolveBy(al, f) \in OneAtATime BY <1>6, ResolveOne DEF ResolveBy
  <1>7. Active(al) = {} => al \in OneAtATime BY DEF Active, OneAtATime
  <1> QED BY <1>3, <1>4, <1>5, <1>6, <1>7

\* A report that leaves al behind.
LEMMA TornSound ==
    ASSUME NEW al \in Seq(AlertStates), NEW x \in SUBSET Tears, NEW whole, NEW again, NEW lost,
           again \/ "twice" \in x \/ al \in OneAtATime
    PROVE  Sound(al, Torn(x, whole, again, lost, al))
  <1>1. Active(al) = {} => al \in OneAtATime BY ListsOfAlerts
  <1>2. Torn(x, whole, again, lost, al) \subseteq Tears BY DEF Torn, Tears
  <1>3. "twice" \in Torn(x, whole, again, lost, al) <=> again \/ ("twice" \in x /\ Active(al) # {})
    BY DEF Torn
  <1> QED BY <1>1, <1>2, <1>3 DEF Sound

\* What the processing of the kept reports carries from one to the next.
Walked == [left : Times \cup {NoTime}, gpsOff : Times \cup {NoTime}, bad : BOOLEAN, warn : BOOLEAN,
           alerts : Seq(AlertStates), torn : SUBSET Tears,
           latest : Position \cup {Missing}, newest : Times \cup {NoTime}]
Carried == {x \in Walked : Sound(x.alerts, x.torn)}

LEMMA GpsCarried ==
    ASSUME NEW x \in Carried, NEW r \in Report
    PROVE  GpsStep(x, r) \in Carried
  <1>1. r.at \in Times /\ r.mock \in BOOLEAN BY DEF Report
  <1>2. (x.bad \/ r.mock) \in BOOLEAN /\ (x.bad \/ r.mock \/ r.at - x.gpsOff >= Grace) \in BOOLEAN OBVIOUS
  <1>3. CASE r.gps
    <2>1. GpsStep(x, r) = [x EXCEPT !.gpsOff = NoTime, !.bad = x.bad \/ r.mock] BY <1>3 DEF GpsStep
    <2> QED BY <1>2, <2>1 DEF Carried, Walked
  <1>4. CASE ~r.gps /\ x.gpsOff = NoTime
    <2>1. GpsStep(x, r) = [x EXCEPT !.gpsOff = r.at, !.bad = x.bad \/ r.mock] BY <1>4 DEF GpsStep
    <2> QED BY <1>1, <1>2, <2>1 DEF Carried, Walked
  <1>5. CASE ~r.gps /\ x.gpsOff # NoTime
    <2>1. GpsStep(x, r) = [x EXCEPT !.bad = x.bad \/ r.mock \/ r.at - x.gpsOff >= Grace] BY <1>5 DEF GpsStep
    <2> QED BY <1>2, <2>1 DEF Carried, Walked
  <1> QED BY <1>3, <1>4, <1>5

\* Between the alert and the row of a report with the failures f.
LEMMA BoundaryCarried ==
    ASSUME NEW x \in Carried, NEW r \in Report, NEW f
    PROVE  LET y == BoundaryStep(x, r, f)
           IN  /\ y \in Walked
               /\ (y.warn /\ "again" \in f) \/ "twice" \in y.torn \/ y.alerts \in OneAtATime
  <1>1. r.at \in Times BY DEF Report
  <1>2. /\ x.alerts \in Seq(AlertStates) /\ x \in Walked
        /\ "twice" \in x.torn \/ x.alerts \in OneAtATime
    BY DEF Carried, Walked, Sound
  <1> DEFINE rec == RecordBy(x.alerts, f)
             res == ResolveBy(x.alerts, f)
             bad == x.bad \/ Since(x.left, r.at) >= Grace
             y == BoundaryStep(x, r, f)
             guarded == OfflineAttended /\ ~OfflinePermitted(r.at) /\ r.gps
  <1> SUFFICES /\ y \in Walked
               /\ (y.warn /\ "again" \in f) \/ "twice" \in y.torn \/ y.alerts \in OneAtATime
    OBVIOUS
  <1>3. /\ rec \in Seq(AlertStates) /\ res \in Seq(AlertStates)
        /\ "twice" \in x.torn \/ res \in OneAtATime
        /\ "again" \in f \/ "twice" \in x.torn \/ rec \in OneAtATime
    BY <1>2, ListsOfAlerts
  <1>4. bad \in BOOLEAN OBVIOUS
  <1>5. CASE ~guarded
    <2>1. y = [x EXCEPT !.warn = FALSE] BY <1>5 DEF BoundaryStep
    <2> HIDE DEF y
    <2> QED BY <1>2, <2>1 DEF Walked
  <1>6. CASE guarded /\ InLimit(r.place)
    <2>1. y = [x EXCEPT !.warn = FALSE, !.left = NoTime, !.alerts = res] BY <1>6 DEF BoundaryStep
    <2> HIDE DEF y, res
    <2> QED BY <1>2, <1>3, <2>1 DEF Walked
  <1>7. CASE guarded /\ ~InLimit(r.place) /\ x.left = NoTime
    <2>1. y = [x EXCEPT !.warn = TRUE, !.left = r.at, !.alerts = rec] BY <1>7 DEF BoundaryStep
    <2> HIDE DEF y, rec
    <2> QED BY <1>1, <1>2, <1>3, <2>1 DEF Walked
  <1>8. CASE guarded /\ ~InLimit(r.place) /\ x.left # NoTime
    <2>1. y = [x EXCEPT !.warn = TRUE, !.alerts = rec, !.bad = bad] BY <1>8 DEF BoundaryStep
    <2> HIDE DEF y, rec, bad
    <2> QED BY <1>2, <1>3, <1>4, <2>1 DEF Walked
  <1> HIDE DEF guarded, y
  <1> QED BY <1>5, <1>6, <1>7, <1>8

LEMMA StoreCarried ==
    ASSUME NEW x \in Walked, NEW r \in Report, NEW f,
           (x.warn /\ "again" \in f) \/ "twice" \in x.torn \/ x.alerts \in OneAtATime
    PROVE  StoreStep(x, r, f) \in Carried
  <1>1. r.at \in Times BY DEF Report
  <1> DEFINE stored == "row" \notin f
             new == Torn(x.torn, stored /\ f \cap {"alert", "again"} = {}, x.warn /\ "again" \in f,
                         ~stored /\ x.left = NoTime, x.alerts)
             next == [x EXCEPT !.torn = new]
             force == x.latest # Missing /\ x.latest.force
             pos == [at |-> r.at, warn |-> x.warn, left |-> x.left, force |-> force]
             last == IF x.newest = NoTime \/ r.at > x.newest THEN r.at ELSE x.newest
  <1>2. x.alerts \in Seq(AlertStates) /\ x.torn \in SUBSET Tears BY DEF Walked
  <1>3. Sound(x.alerts, new)
    BY <1>2, TornSound
  <1>4. new \in SUBSET Tears BY <1>3 DEF Sound
  <1>5. force \in BOOLEAN BY DEF Walked, Position
  <1>6. last \in Times \cup {NoTime} BY <1>1 DEF Walked
  <1>7. pos \in Position
    <2> HIDE DEF force
    <2> QED BY <1>1, <1>5 DEF Walked, Position
  <1>8. StoreStep(x, r, f) = IF ~stored THEN next ELSE [next EXCEPT !.latest = pos, !.newest = last]
    BY DEF StoreStep, Walked
  <1> HIDE DEF stored, new, force, pos, last
  <1>9. next \in Walked /\ next.alerts = x.alerts /\ next.torn = new BY <1>4 DEF Walked
  <1> HIDE DEF next
  <1>10. StoreStep(x, r, f) \in Walked BY <1>6, <1>7, <1>8, <1>9 DEF Walked
  <1>11. StoreStep(x, r, f).alerts = x.alerts /\ StoreStep(x, r, f).torn = new BY <1>8, <1>9 DEF Walked
  <1> QED BY <1>3, <1>10, <1>11 DEF Carried

TypeInv ==
  /\ clock \in Times /\ place \in Places
  /\ since \in Times \cup {NoTime} /\ newest \in Times \cup {NoTime}
  /\ att \in BOOLEAN /\ out \in BOOLEAN /\ on \in BOOLEAN /\ reported \in BOOLEAN
  /\ overdue \in BOOLEAN /\ od \in BOOLEAN
  /\ latest \in Position \cup {Missing}
  /\ status \in {Missing, "Present", "Absent"}
  /\ permit \in [on : BOOLEAN, until : Times \cup {NoTime}] /\ (permit.on => Kind = "staff") /\ (od => Kind = "student")
  /\ Sound(alerts, torn) /\ Len(alerts) <= MaxAlerts
  /\ queue \in Seq(Report) /\ Len(queue) <= MaxQueue

LEMMA SyncedCarried ==
    ASSUME TrackingAssumption, TypeInv, NEW fs
    PROVE  Synced(fs) \in Carried
  <1> DEFINE n == Len(queue)
             D == Carried
             b == [left |-> IF latest = Missing THEN NoTime ELSE latest.left, gpsOff |-> NoTime,
                   bad |-> FALSE, warn |-> FALSE, alerts |-> alerts, torn |-> torn,
                   latest |-> latest, newest |-> newest]
             Go(x, i) == IF InHours(queue[i].at) THEN SyncStep(x, queue[i], fs[i]) ELSE x
             s == [x \in D \X Nat |-> IF x[2] \in 1 .. n THEN Go(x[1], x[2]) ELSE x[1]]
             E(f) == [i \in 0 .. n |-> IF i = 0 THEN b
                                       ELSE IF InHours(queue[i].at) THEN SyncStep(f[i - 1], queue[i], fs[i]) ELSE f[i - 1]]
             g == CHOOSE f : f = E(f)
  <1>1. n \in Nat /\ \A i \in 1 .. n : queue[i] \in Report BY DEF TypeInv
  <1>2. b \in D
    <2>1. (IF latest = Missing THEN NoTime ELSE latest.left) \in Times \cup {NoTime} BY DEF TypeInv, Position
    <2>2. b \in Walked BY <2>1 DEF TypeInv, Walked, Sound
    <2> QED BY <2>2 DEF TypeInv, Carried
  <1>3. \A x \in D, i \in 1 .. n : Go(x, i) \in D
    <2> SUFFICES ASSUME NEW x \in D, NEW i \in 1 .. n PROVE Go(x, i) \in D OBVIOUS
    <2>1. GpsStep(x, queue[i]) \in D BY <1>1, GpsCarried
    <2> DEFINE y == BoundaryStep(GpsStep(x, queue[i]), queue[i], fs[i])
    <2>2. /\ y \in Walked
          /\ (y.warn /\ "again" \in fs[i]) \/ "twice" \in y.torn \/ y.alerts \in OneAtATime
      BY <1>1, <2>1, BoundaryCarried
    <2> HIDE DEF y
    <2>4. StoreStep(y, queue[i], fs[i]) \in D BY <1>1, <2>2, StoreCarried
    <2>3. SyncStep(x, queue[i], fs[i]) \in D BY <2>4 DEF SyncStep, y
    <2> QED BY <2>3
  <1>11. Synced(fs) = g[n] BY DEF Synced
  <1>20. \A f, i : (IF InHours(queue[i].at) THEN SyncStep(f[i - 1], queue[i], fs[i]) ELSE f[i - 1]) = Go(f[i - 1], i) OBVIOUS
  <1>21. \A f : E(f) = [i \in 0 .. n |-> IF i = 0 THEN b ELSE Go(f[i - 1], i)] OBVIOUS
  <1> HIDE DEF b, n, Go, E, D
  <1>4. s \in [D \X Nat -> D] BY <1>3
  <1>5. \A x \in D, i \in 1 .. n : s[<<x, i>>] = Go(x, i) BY <1>1
  <1> HIDE DEF s
  <1>15. Reaches(n, D, b, s) BY <1>1, <1>2, <1>4, RecursionExists
  <1>6. PICK f \in [0 .. n -> D] : \A i \in 0 .. n : f[i] = IF i = 0 THEN b ELSE s[<<f[i - 1], i>>]
    BY <1>15 DEF Reaches
  <1>7. \A i \in 0 .. n : f[i] = IF i = 0 THEN b ELSE Go(f[i - 1], i)
    <2> TAKE i \in 0 .. n
    <2>1. f[i] = IF i = 0 THEN b ELSE s[<<f[i - 1], i>>] BY <1>6
    <2>2. i # 0 => i - 1 \in 0 .. n /\ i \in 1 .. n BY <1>1
    <2>3. i # 0 => f[i - 1] \in D BY <2>2
    <2> QED BY <1>5, <2>1, <2>2, <2>3
  <1>8. f = E(f) BY <1>7, <1>21
  <1>9. g = E(g) BY <1>8
  <1> HIDE DEF g
  <1>10. g[0] = b /\ \A i \in 1 .. n : g[i] = Go(g[i - 1], i) BY <1>1, <1>9, <1>21
  <1>12. \A i \in 1 .. n : g[i - 1] \in D => g[i] \in D BY <1>3, <1>10
  <1>13. \A i \in 0 .. n : g[i] \in D BY <1>1, <1>2, <1>10, <1>12, RecursionIn
  <1> QED BY <1>1, <1>11, <1>13 DEF D

LEMMA TypeStep ==
    ASSUME TrackingAssumption, TypeInv, [Next]_vars
    PROVE  TypeInv'
  <1>1. CASE Tick
    <2>1. clock \in 0 .. End /\ clock < End /\ End \in Nat /\ clock' = clock + 1
      BY <1>1 DEF TypeInv, Tick, Times, TrackingAssumption
    <2>2. clock' \in Times BY <2>1 DEF Times
    <2> DEFINE new == Minute(clock + 1) = 0
    <2>3. /\ place' \in Places /\ reported' = FALSE
          /\ since' = IF InLimit(place') THEN NoTime ELSE IF InLimit(place) THEN clock + 1 ELSE since
          /\ overdue' = (Late(clock + 1) \/ (overdue /\ ~new))
          /\ att' = (att /\ ~new) /\ out' = (out /\ ~new)
          /\ status' = IF new THEN Missing ELSE status
          /\ od' = (od /\ ~new)
          /\ UNCHANGED <<permit, latest, newest, alerts, torn, on, queue>>
      BY <1>1 DEF Tick
    <2>4. since' \in Times \cup {NoTime} BY <2>1, <2>2, <2>3 DEF TypeInv
    <2> HIDE DEF new
    <2>5. overdue' \in BOOLEAN /\ att' \in BOOLEAN /\ out' \in BOOLEAN /\ od' \in BOOLEAN BY <2>3
    <2>6. status' \in {Missing, "Present", "Absent"} /\ (od' => od) BY <2>3 DEF TypeInv
    <2> QED BY <2>2, <2>3, <2>4, <2>5, <2>6 DEF TypeInv
  <1>2. CASE CheckIn BY <1>2 DEF CheckIn, TypeInv, world, phone
  <1>3. CASE CheckOut BY <1>3 DEF CheckOut, TypeInv, world, phone
  <1>4. CASE Update
    <2> DEFINE guarded == LiveAttended /\ ~LivePermitted
               left == LeftAfter(guarded, place)
               warn == guarded /\ ~InLimit(place)
               late == warn /\ clock - left >= Grace
               stored(f) == "row" \notin f /\ ~(late /\ "mark" \in f)
    <2>1. /\ Len(alerts') <= MaxAlerts /\ reported' = TRUE
          /\ UNCHANGED <<clock, place, since, overdue, att, out, permit, od, on>>
      BY <1>4 DEF Update, world
    <2>9. queue' \in Seq(Report) /\ Len(queue') <= MaxQueue
      <3>1. \/ queue' = queue
            \/ /\ Len(queue) < MaxQueue
               /\ queue' = Append(queue, [at |-> clock, place |-> place, gps |-> TRUE, mock |-> FALSE])
        BY <1>4 DEF Update
      <3>2. [at |-> clock, place |-> place, gps |-> TRUE, mock |-> FALSE] \in Report BY DEF Report, TypeInv
      <3>3. MaxQueue \in Nat /\ Len(queue) \in Nat BY DEF TypeInv, TrackingAssumption
      <3> QED BY <3>1, <3>2, <3>3, AppendProperties DEF TypeInv
    <2>2. PICK f \in Faults :
            /\ alerts' = CASE warn -> RecordBy(alerts, f)
                           [] guarded /\ ~warn -> ResolveBy(alerts, f)
                           [] OTHER -> alerts
            /\ status' = IF late /\ "mark" \notin f THEN Absent(status) ELSE status
            /\ IF stored(f)
               THEN /\ \E force \in {FALSE, Forced} :
                         /\ "fail" \notin Extras => ~force
                         /\ latest' = [at |-> clock, warn |-> warn, left |-> left, force |-> force]
                    /\ newest' = Newest(clock)
               ELSE UNCHANGED <<latest, newest>>
            /\ torn' = Torn(torn, stored(f) /\ f \cap {"alert", "again"} = {}, warn /\ "again" \in f,
                           ~stored(f) /\ left = NoTime, alerts')
      BY <1>4 DEF Update
    <2>3. left \in Times \cup {NoTime} /\ Forced \in BOOLEAN
      BY DEF TypeInv, LeftAfter, Position, Forced
    <2>4. warn \in BOOLEAN OBVIOUS
    <2>5. guarded \/ ~warn OBVIOUS
    <2> HIDE DEF guarded, left, warn, late, stored
    <2>6. Sound(alerts', torn')
      <3>1. \/ warn /\ alerts' = RecordBy(alerts, f)
            \/ ~warn /\ (alerts' = ResolveBy(alerts, f) \/ alerts' = alerts)
        BY <2>2
      <3>2. /\ alerts \in Seq(AlertStates) /\ torn \in SUBSET Tears
            /\ "twice" \in torn \/ alerts \in OneAtATime
        BY DEF TypeInv, Sound
      <3>3. /\ alerts' \in Seq(AlertStates)
            /\ (warn /\ "again" \in f) \/ "twice" \in torn \/ alerts' \in OneAtATime
        BY <3>1, <3>2, ListsOfAlerts
      <3> QED BY <2>2, <3>2, <3>3, TornSound
    <2>7. latest' \in Position \cup {Missing}
      <3>1. CASE stored(f)
        <4>1. PICK force \in {FALSE, Forced} :
                latest' = [at |-> clock, warn |-> warn, left |-> left, force |-> force]
          BY <2>2, <3>1
        <4> QED BY <2>3, <2>4, <4>1 DEF TypeInv, Position
      <3>2. CASE ~stored(f) BY <2>2, <3>2 DEF TypeInv
      <3> QED BY <3>1, <3>2
    <2>8. newest' \in Times \cup {NoTime} /\ status' \in {Missing, "Present", "Absent"}
      BY <2>2 DEF Newest, Absent, TypeInv
    <2> QED BY <2>1, <2>6, <2>7, <2>8, <2>9 DEF TypeInv
  <1>5. CASE UpdateIgnored BY <1>5 DEF UpdateIgnored, TypeInv, world
  <1>6. CASE Keep
    <2>1. PICK gps \in BOOLEAN, mock \in BOOLEAN :
            queue' = Append(queue, [at |-> clock, place |-> place, gps |-> gps, mock |-> mock])
      BY <1>6 DEF Keep
    <2>2. [at |-> clock, place |-> place, gps |-> gps, mock |-> mock] \in Report BY DEF Report, TypeInv
    <2>3. Len(queue) < MaxQueue /\ MaxQueue \in Nat /\ Len(queue) \in Nat BY <1>6 DEF Keep, TypeInv, TrackingAssumption
    <2>4. queue' \in Seq(Report) /\ Len(queue') <= MaxQueue BY <2>1, <2>2, <2>3, AppendProperties DEF TypeInv
    <2>5. /\ reported' = TRUE
          /\ UNCHANGED <<clock, place, since, overdue, att, out, status, permit, od, latest, newest, alerts, torn, on>>
      BY <1>6 DEF Keep, world
    <2> QED BY <2>4, <2>5 DEF TypeInv
  <1>7. CASE Sync
    <2>2. /\ Sound(alerts', torn') /\ Len(alerts') <= MaxAlerts
          /\ latest' \in Position \cup {Missing} /\ newest' \in Times \cup {NoTime}
          /\ status' \in {Missing, "Present", "Absent"}
      <3>1. CASE \A i \in DOMAIN queue : ~InHours(queue[i].at)
        BY <1>7, <3>1 DEF Sync, TypeInv
      <3>2. CASE ~ \A i \in DOMAIN queue : ~InHours(queue[i].at)
        <4>1. PICK fs \in [DOMAIN queue -> Faults], absent \in BOOLEAN, reset \in BOOLEAN :
                /\ alerts' = Synced(fs).alerts /\ torn' = Synced(fs).torn /\ newest' = Synced(fs).newest
                /\ latest' = IF reset /\ Synced(fs).latest # Missing
                             THEN [Synced(fs).latest EXCEPT !.force = FALSE] ELSE Synced(fs).latest
                /\ status' = IF Synced(fs).bad /\ absent THEN Absent(status) ELSE status
          BY <1>7, <3>2 DEF Sync
        <4> DEFINE acc == Synced(fs)
        <4>2. acc \in Carried BY SyncedCarried
        <4> HIDE DEF acc
        <4>3. Len(alerts') <= MaxAlerts BY <1>7 DEF Sync
        <4>4. /\ Sound(acc.alerts, acc.torn) /\ acc.latest \in Position \cup {Missing}
              /\ acc.newest \in Times \cup {NoTime}
          BY <4>2 DEF Carried, Walked
        <4>5. /\ alerts' = acc.alerts /\ torn' = acc.torn /\ newest' = acc.newest
              /\ latest' = IF reset /\ acc.latest # Missing THEN [acc.latest EXCEPT !.force = FALSE] ELSE acc.latest
              /\ status' = IF acc.bad /\ absent THEN Absent(status) ELSE status
          BY <4>1 DEF acc
        <4> QED BY <4>3, <4>4, <4>5 DEF Position, Absent, TypeInv
      <3> QED BY <3>1, <3>2
    <2>3. queue' \in Seq(Report) /\ Len(queue') <= MaxQueue
      <3>1. <<>> \in Seq(Report) /\ Len(<<>>) = 0 OBVIOUS
      <3>2. queue' = <<>> \/ queue' = queue BY <1>7 DEF Sync, Answered
      <3>3. 0 <= MaxQueue BY DEF TrackingAssumption
      <3>4. CASE queue' = <<>> BY <3>1, <3>3, <3>4
      <3>5. CASE queue' = queue BY <3>5 DEF TypeInv
      <3> QED BY <3>2, <3>4, <3>5
    <2>4. UNCHANGED <<clock, place, since, overdue, att, out, permit, od, on, reported>> BY <1>7 DEF Sync, world
    <2> QED BY <2>2, <2>3, <2>4 DEF TypeInv
  <1>8. CASE Poll
    <2>1. /\ on' = Tracking
          /\ UNCHANGED <<clock, place, since, overdue, att, out, status, permit, od, latest, newest, alerts, torn, queue, reported>>
      BY <1>8 DEF Poll, world
    <2>2. on' \in BOOLEAN BY <2>1 DEF Tracking
    <2> QED BY <2>1, <2>2 DEF TypeInv
  <1>9. CASE Acknowledge
    <2>1. PICK i \in DOMAIN alerts : alerts' = [alerts EXCEPT ![i] = "ACKNOWLEDGED"] BY <1>9 DEF Acknowledge
    <2>2. alerts \in Seq(AlertStates) /\ "ACKNOWLEDGED" \in AlertStates BY DEF TypeInv, Sound, AlertStates
    <2>3. alerts' \in Seq(AlertStates) /\ Len(alerts') = Len(alerts) BY <2>1, <2>2, ExceptSeq
    <2>4. \A j \in DOMAIN alerts' : alerts'[j] = "ACTIVE" => j \in DOMAIN alerts /\ alerts[j] = "ACTIVE"
      BY <2>1
    <2>5. alerts \in OneAtATime => alerts' \in OneAtATime BY <2>3, <2>4 DEF OneAtATime
    <2>6. UNCHANGED <<clock, place, since, overdue, att, out, status, permit, od, latest, newest, torn, on, queue, reported>>
      BY <1>9 DEF Acknowledge, world, phone
    <2> QED BY <2>3, <2>5, <2>6 DEF TypeInv, Sound
  <1>10. CASE ForceUpdate
    <2>1. /\ latest # Missing /\ latest' = [latest EXCEPT !.force = TRUE]
          /\ UNCHANGED <<clock, place, since, overdue, att, out, status, permit, od, newest, alerts, torn, on, queue, reported>>
      BY <1>10 DEF ForceUpdate, world, phone
    <2>2. latest' \in Position BY <2>1 DEF TypeInv, Position
    <2> QED BY <2>1, <2>2 DEF TypeInv
  <1>11. CASE OutPermission
    <2>1. PICK b \in BOOLEAN, t \in {NoTime, clock + 1} :
            t \in Times \cup {NoTime} /\ permit' = [on |-> b, until |-> t]
      BY <1>11 DEF OutPermission
    <2>2. /\ Kind = "staff"
          /\ UNCHANGED <<clock, place, since, overdue, att, out, status, od, latest, newest, alerts, torn, on, queue, reported>>
      BY <1>11 DEF OutPermission, world, phone
    <2>3. permit' \in [on : BOOLEAN, until : Times \cup {NoTime}] BY <2>1
    <2> QED BY <2>2, <2>3 DEF TypeInv
  <1>12. CASE ApproveOD BY <1>12 DEF ApproveOD, TypeInv, world, phone
  <1>13. CASE StudentPing
    <2> DEFINE warn == place # "campus" /\ ~od /\ InHours(clock)
    <2>1. /\ Len(alerts') <= MaxAlerts
          /\ UNCHANGED <<clock, place, since, overdue, att, out, status, permit, od, latest, newest, on, queue, reported>>
      BY <1>13 DEF StudentPing, world, phone
    <2>2. PICK f \in Faults :
            /\ alerts' = CASE warn -> RecordBy(alerts, f)
                           [] place = "campus" -> ResolveBy(alerts, f)
                           [] OTHER -> alerts
            /\ torn' = Torn(torn, TRUE, warn /\ "again" \in f, FALSE, alerts')
      BY <1>13 DEF StudentPing
    <2>3. /\ alerts \in Seq(AlertStates) /\ torn \in SUBSET Tears
          /\ "twice" \in torn \/ alerts \in OneAtATime
      BY DEF TypeInv, Sound
    <2> HIDE DEF warn
    <2>4. \/ warn /\ alerts' = RecordBy(alerts, f)
          \/ alerts' = ResolveBy(alerts, f)
          \/ alerts' = alerts
      BY <2>2
    <2>5. /\ alerts' \in Seq(AlertStates)
          /\ (warn /\ "again" \in f) \/ "twice" \in torn \/ alerts' \in OneAtATime
      BY <2>3, <2>4, ListsOfAlerts
    <2>6. Sound(alerts', torn') BY <2>2, <2>3, <2>5, TornSound
    <2> QED BY <2>1, <2>6 DEF TypeInv
  <1>14. CASE UNCHANGED vars BY <1>14 DEF vars, world, phone, TypeInv
  <1> QED BY <1>1, <1>2, <1>3, <1>4, <1>5, <1>6, <1>7, <1>8, <1>9, <1>10, <1>11, <1>12, <1>13, <1>14 DEF Next

\* At most one alert of a person is ACTIVE, whatever reports, kept reports, pings,
\* acknowledgements, permissions and days follow one another and whichever of their
\* statements fail, until the lookup of an active alert fails
\* (_record_campus_movement_alert, _resolve_campus_movement_alert).
THEOREM OneAlertSafe ==
    ASSUME TrackingAssumption
    PROVE  Spec => [](TypeOK /\ OneActive)
  <1>1. Init => TypeInv
    <2> SUFFICES ASSUME Init PROVE TypeInv OBVIOUS
    <2>1. alerts = <<>> /\ queue = <<>> /\ torn = {} BY DEF Init
    <2>2. <<>> \in OneAtATime /\ Len(<<>>) = 0 /\ <<>> \in Seq(Report) BY DEF OneAtATime
    <2>3. clock = 0 /\ 0 \in Times BY DEF Init, Times, TrackingAssumption
    <2>4. /\ place \in Places /\ since = NoTime /\ newest = NoTime /\ att = FALSE /\ out = FALSE /\ on = FALSE
          /\ reported = FALSE /\ overdue = FALSE /\ od = FALSE /\ latest = Missing /\ status = Missing
          /\ permit = [on |-> FALSE, until |-> NoTime]
      BY DEF Init, TrackingAssumption
    <2>5. MaxAlerts \in Nat /\ MaxQueue \in Nat BY DEF TrackingAssumption
    <2>6. permit \in [on : BOOLEAN, until : Times \cup {NoTime}] /\ permit.on = FALSE BY <2>4
    <2>7. Sound(alerts, torn) /\ Len(alerts) <= MaxAlerts /\ queue \in Seq(Report) /\ Len(queue) <= MaxQueue
      BY <2>1, <2>2, <2>5 DEF Sound, OneAtATime
    <2> QED BY <2>3, <2>4, <2>6, <2>7 DEF TypeInv
  <1>2. TypeInv /\ [Next]_vars => TypeInv' BY TypeStep
  <1>3. TypeInv => TypeOK /\ OneActive
    <2> SUFFICES ASSUME TypeInv PROVE TypeOK /\ OneActive OBVIOUS
    <2>1. TypeOK BY DEF TypeInv, TypeOK, Sound, Tears, AlertStates, Position
    <2>2. OneActive
      <3> SUFFICES ASSUME "twice" \notin torn PROVE OneActive BY DEF OneActive
      <3>1. \A i, j \in Active(alerts) : i = j BY DEF TypeInv, Sound, OneAtATime, Active
      <3>2. CASE Active(alerts) = {}
        <4>1. Cardinality({}) = 0 BY FS_EmptySet
        <4> QED BY <3>2, <4>1 DEF OneActive
      <3>3. ASSUME NEW i \in Active(alerts) PROVE Cardinality(Active(alerts)) = 1
        <4>1. Active(alerts) = {i} BY <3>1
        <4>2. Cardinality({i}) = 1 BY FS_Singleton
        <4> QED BY <4>1, <4>2
      <3> QED BY <3>2, <3>3 DEF OneActive
    <2> QED BY <2>1, <2>2
  <1> QED BY <1>1, <1>2, <1>3, PTL DEF Spec
=============================================================================
