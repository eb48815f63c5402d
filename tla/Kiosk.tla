--------------------------------- MODULE Kiosk ---------------------------------
(***************************************************************************)
(* Kiosk attendance: staff register students' faces, start sessions and    *)
(* scan faces; profiles live in a table and in a dictionary that every     *)
(* registration and deletion clears and refills.  All handlers run in pool *)
(* threads; a step of the model is one statement or one dictionary         *)
(* operation.  A statement may fail: most end their handler, those inside  *)
(* an "except" of their own are passed over, and what was written stays.   *)
(***************************************************************************)
EXTENDS Integers, FiniteSets, FiniteSetsExt

CONSTANTS Student, Thread, KioskSession,
          Versions,    \* bound: faces ever registered for a student
          MaxScans,    \* bound: entries ever logged in one session
          Faults,      \* whether statements may fail
          None, AtRest

Half == {"FN", "AN"}

Step == {"match", "session", "create", "check", "half", "log", "total", "day", "upsert", "clear",
         "select", "fill", "purge", "purgeday", "purgelog", "evict", "clearday", "clearlog"}
Rows == [Student -> {None} \cup 1..Versions]

\* A handler: its next step, the student and the session it is about, the half
\* the clock showed it, and the profiles it has selected and not yet copied.
Handler == [pc : Step, s : Student, k : {None} \cup KioskSession, h : Half, rows : Rows]

KioskAssumption ==
  /\ Versions \in Nat \ {0} /\ MaxScans \in Nat \ {0} /\ Faults \in BOOLEAN
  /\ None \notin KioskSession /\ None \notin 1..Versions /\ AtRest \notin Handler

VARIABLES profile,   \* student_face_profiles: the version registered, or None
          cache,     \* _student_face_profile_cache
          session,   \* kiosk_sessions: "none", "open" or "ended"
          total_scans, \* kiosk_sessions.total_scans
          log,       \* kiosk_attendance_logs: entries per session and student
          day,       \* daily_attendance_status of today, per student and half
          half,      \* the half of the day the clock shows
          dayoff,      \* students whose day is a holiday or an approved leave
          job,       \* the handler each thread executes
          marks,     \* history: accepted scans per student and half since a clear
          cleared,   \* history: log entries per session that were deleted
          lost,      \* history: entries per session whose UPDATE of the counter failed
          raced,     \* history: students with two scans past the checks at once, or
                     \* an accepted scan whose day was not written
          reload     \* history: what became of the last reloads, see Reload

kioskVars == <<profile, cache, session, total_scans, log, day, half, dayoff, job, marks, cleared,
               lost, raced, reload>>
tables == <<profile, session, total_scans, log, day>>
world == <<half, dayoff, marks, cleared, lost, raced, reload>>
Nothing == [s \in Student |-> None]

KioskInit ==
  /\ profile = Nothing /\ cache = Nothing
  /\ session = [k \in KioskSession |-> "none"]
  /\ total_scans = [k \in KioskSession |-> 0]
  /\ log = [k \in KioskSession |-> [s \in Student |-> 0]]
  /\ day = [s \in Student |-> [h \in Half |-> FALSE]]
  /\ half = "FN" /\ dayoff \in SUBSET Student
  /\ job = [t \in Thread |-> AtRest]
  /\ marks = [s \in Student |-> [h \in Half |-> 0]]
  /\ cleared = [k \in KioskSession |-> 0] /\ lost = [k \in KioskSession |-> 0]
  /\ raced = {} /\ reload = [mixed |-> FALSE, failed |-> FALSE]

\* the log entries of a session
Logged(k) == MapThenSumSet(LAMBDA s : log[k][s], Student)

At(t, pc) == job[t] # AtRest /\ job[t].pc = pc
Goto(t, pc) == job' = [job EXCEPT ![t].pc = pc]
Done(t) == job' = [job EXCEPT ![t] = AtRest]
Begin(t, pc, s, k) ==
  job' = [job EXCEPT ![t] = [pc |-> pc, s |-> s, k |-> k, h |-> "FN", rows |-> Nothing]]

\* A scan of s that has passed its checks; a handler that changed the profiles or
\* emptied the dictionary and has not reloaded it yet.
Past(t, s) == job[t] # AtRest /\ job[t].s = s /\ job[t].pc \in {"log", "total", "day"}
Loading(t) == job[t] # AtRest /\ job[t].pc \in {"purgeday", "purgelog", "evict", "clear",
                                              "select", "fill"}
Alone(t) == \A u \in Thread \ {t} : ~Loading(u)

\* Mixed: handlers changed profiles or dictionary while another was reloading, and
\* no reload has begun alone since.  Failed: the last SELECT of the profiles was.
Reload(mixed) == reload' = [reload EXCEPT !.mixed = mixed]

\* A statement raises, and with it the handler ends.
Fails(t, pc) == Faults /\ At(t, pc) /\ Done(t)

-----------------------------------------------------------------------------

Start(t, k) ==
  /\ job[t] = AtRest /\ session[k] = "none"
  /\ session' = [session EXCEPT ![k] = "open"]
  /\ UNCHANGED <<profile, cache, total_scans, log, day, job>> /\ UNCHANGED world

End(t, k) ==
  /\ job[t] = AtRest /\ session[k] = "open"
  /\ session' = [session EXCEPT ![k] = "ended"]
  /\ UNCHANGED <<profile, cache, total_scans, log, day, job>> /\ UNCHANGED world

\* kiosk_scan: the session exists and has not ended.
Scan(t, k, s) ==
  /\ job[t] = AtRest /\ session[k] = "open"
  /\ Begin(t, "match", s, k)
  /\ UNCHANGED cache /\ UNCHANGED tables /\ UNCHANGED world

\* _find_matching_student_face: the face presented is found in the cache.
Match(t) ==
  /\ At(t, "match")
  /\ IF cache[job[t].s] # None THEN Goto(t, IF job[t].k = None THEN "session" ELSE "check")
     ELSE Done(t)
  /\ UNCHANGED cache /\ UNCHANGED tables /\ UNCHANGED world

\* kiosk_quick_scan: no session needed, the newest open one is used or one made.
QuickScan(t, s) ==
  /\ job[t] = AtRest /\ Begin(t, "match", s, None)
  /\ UNCHANGED cache /\ UNCHANGED tables /\ UNCHANGED world

UseSession(t) ==
  /\ At(t, "session")
  /\ LET open == {k \in KioskSession : session[k] = "open"} IN
     IF open # {}
     THEN \E k \in open : job' = [job EXCEPT ![t].k = k, ![t].pc = "check"]
     ELSE Goto(t, "create")
  /\ UNCHANGED cache /\ UNCHANGED tables /\ UNCHANGED world

CreateSession(t) ==
  /\ At(t, "create")
  /\ \E k \in KioskSession :
       /\ session[k] = "none"
       /\ session' = [session EXCEPT ![k] = "open"]
       /\ job' = [job EXCEPT ![t].k = k, ![t].pc = "check"]
  /\ UNCHANGED <<profile, cache, total_scans, log, day>> /\ UNCHANGED world

\* _validate_and_record_kiosk_attendance: the half is taken from the clock, days
\* off are refused, then the session's log is looked up.
CheckSession(t) ==
  /\ At(t, "check")
  /\ IF job[t].s \in dayoff \/ log[job[t].k][job[t].s] > 0 THEN Done(t)
     ELSE job' = [job EXCEPT ![t].pc = "half", ![t].h = half]
  /\ UNCHANGED cache /\ UNCHANGED tables /\ UNCHANGED world

CheckHalf(t) ==
  /\ At(t, "half")
  /\ IF day[job[t].s][job[t].h] THEN Done(t) /\ UNCHANGED raced
     ELSE /\ Goto(t, "log")
          /\ raced' = raced \cup {s \in {job[t].s} : \E u \in Thread : Past(u, s)}
  /\ UNCHANGED <<cache, half, dayoff, marks, cleared, lost, reload>> /\ UNCHANGED tables

\* The entry of the log, then the session's counter.  If the counter's UPDATE fails
\* the entry stays, the scan is answered with an error and the day not written.
Log(t) ==
  /\ At(t, "log") /\ Logged(job[t].k) + cleared[job[t].k] < MaxScans
  /\ log' = [log EXCEPT ![job[t].k][job[t].s] = @ + 1]
  /\ Goto(t, "total")
  /\ UNCHANGED <<profile, cache, session, total_scans, day>> /\ UNCHANGED world

CountScan(t) ==
  /\ At(t, "total")
  /\ total_scans' = [total_scans EXCEPT ![job[t].k] = @ + 1]
  /\ Goto(t, "day")
  /\ UNCHANGED <<profile, cache, session, log, day>> /\ UNCHANGED world

CountFails(t) ==
  /\ Fails(t, "total")
  /\ lost' = [lost EXCEPT ![job[t].k] = @ + 1]
  /\ UNCHANGED <<cache, half, dayoff, marks, cleared, raced, reload>> /\ UNCHANGED tables

\* A read of the session, the log or the day fails, or an INSERT of a session or
\* of the log, or the upsert of a profile: nothing is written.
Raises(t) ==
  /\ \E pc \in {"session", "create", "check", "half", "log", "upsert"} : Fails(t, pc)
  /\ UNCHANGED cache /\ UNCHANGED tables /\ UNCHANGED world

\* The row of daily_attendance_status; an error there is printed, not raised.
MarkDay(t) ==
  /\ At(t, "day")
  /\ \/ day' = [day EXCEPT ![job[t].s][job[t].h] = TRUE] /\ UNCHANGED raced
     \/ Faults /\ raced' = raced \cup {job[t].s} /\ UNCHANGED day
  /\ marks' = [marks EXCEPT ![job[t].s][job[t].h] = IF @ > 1 THEN @ ELSE @ + 1]
  /\ Done(t)
  /\ UNCHANGED <<profile, cache, session, total_scans, log, half, dayoff, cleared, lost, reload>>

-----------------------------------------------------------------------------
\* register_student_face: without overwrite only for a new student.
Register(t, s, overwrite) ==
  /\ job[t] = AtRest /\ (overwrite \/ profile[s] = None)
  /\ Begin(t, "upsert", s, None)
  /\ UNCHANGED cache /\ UNCHANGED tables /\ UNCHANGED world

\* Slip: the dictionary is not reloaded.
UpsertOnly(t) ==
  /\ At(t, "upsert")
  /\ LET s == job[t].s IN
     \E v \in 1..Versions :
       /\ profile[s] = None \/ v # profile[s]
       /\ profile' = [profile EXCEPT ![s] = v]
  /\ Done(t)
  /\ Reload(reload.mixed \/ ~Alone(t))
  /\ UNCHANGED <<cache, session, total_scans, log, day>> /\ UNCHANGED <<half, dayoff, marks, cleared, lost, raced>>

\* The upsert of the profile: the last one wins.
Upsert(t) ==
  /\ At(t, "upsert")
  /\ LET s == job[t].s IN
     \E v \in 1..Versions :
       /\ profile[s] = None \/ v # profile[s]
       /\ profile' = [profile EXCEPT ![s] = v]
  /\ Goto(t, "clear")
  /\ Reload(reload.mixed \/ ~Alone(t))
  /\ UNCHANGED <<cache, session, total_scans, log, day>> /\ UNCHANGED <<half, dayoff, marks, cleared, lost, raced>>

\* load_student_face_profiles: clear the dictionary, select, fill row by row.  A
\* SELECT that fails is printed, and the dictionary stays as it is.
Clear(t) ==
  /\ At(t, "clear") /\ cache' = Nothing /\ Goto(t, "select")
  /\ Reload(~Alone(t))
  /\ UNCHANGED tables /\ UNCHANGED <<half, dayoff, marks, cleared, lost, raced>>

Select(t) ==
  /\ At(t, "select")
  /\ job' = [job EXCEPT ![t].rows = profile, ![t].pc = "fill"]
  /\ reload' = [mixed |-> reload.mixed \/ ~Alone(t), failed |-> FALSE]
  /\ UNCHANGED cache /\ UNCHANGED tables
  /\ UNCHANGED <<half, dayoff, marks, cleared, lost, raced>>

SelectFails(t) ==
  /\ Fails(t, "select")
  /\ reload' = [mixed |-> reload.mixed \/ ~Alone(t), failed |-> TRUE]
  /\ UNCHANGED cache /\ UNCHANGED tables
  /\ UNCHANGED <<half, dayoff, marks, cleared, lost, raced>>

Fill(t) ==
  /\ At(t, "fill")
  /\ LET left == {s \in Student : job[t].rows[s] # None} IN
     IF left = {} THEN Done(t) /\ UNCHANGED cache
     ELSE \E s \in left :
            /\ cache' = [cache EXCEPT ![s] = job[t].rows[s]]
            /\ job' = [job EXCEPT ![t].rows[s] = None]
  /\ Reload(reload.mixed \/ ~Alone(t))
  /\ UNCHANGED tables /\ UNCHANGED <<half, dayoff, marks, cleared, lost, raced>>

\* delete_kiosk_student_profile: table after table (the profile first), then the
\* dictionary's entry, then a reload.  A DELETE that fails is passed over.
Delete(t, s) ==
  /\ job[t] = AtRest /\ profile[s] # None /\ Begin(t, "purge", s, None)
  /\ UNCHANGED cache /\ UNCHANGED tables /\ UNCHANGED world

PurgeProfile(t) ==
  /\ At(t, "purge")
  /\ \/ profile' = [profile EXCEPT ![job[t].s] = None]
     \/ Faults /\ UNCHANGED profile
  /\ Goto(t, "purgeday")
  /\ Reload(reload.mixed \/ ~Alone(t))
  /\ UNCHANGED <<cache, session, total_scans, log, day>>
  /\ UNCHANGED <<half, dayoff, marks, cleared, lost, raced>>

\* clear_kiosk_student_attendance deletes only the attendance.
ClearAttendance(t, s) ==
  /\ job[t] = AtRest /\ profile[s] # None /\ Begin(t, "clearday", s, None)
  /\ UNCHANGED cache /\ UNCHANGED tables /\ UNCHANGED world

\* Both delete the rows of the day before those of the kiosk log.
PurgeDay(t) ==
  /\ At(t, "purgeday") \/ At(t, "clearday")
  /\ \/ /\ day' = [day EXCEPT ![job[t].s] = [h \in Half |-> FALSE]]
        /\ marks' = [marks EXCEPT ![job[t].s] = [h \in Half |-> 0]]
     \/ Faults /\ UNCHANGED <<day, marks>>
  /\ Goto(t, IF job[t].pc = "purgeday" THEN "purgelog" ELSE "clearlog")
  /\ UNCHANGED <<profile, cache, session, total_scans, log, half, dayoff, cleared, lost, raced,
                 reload>>

PurgeLog(t) ==
  /\ At(t, "purgelog") \/ At(t, "clearlog")
  /\ \/ /\ log' = [k \in KioskSession |-> [log[k] EXCEPT ![job[t].s] = 0]]
        /\ cleared' = [k \in KioskSession |-> cleared[k] + log[k][job[t].s]]
     \/ Faults /\ UNCHANGED <<log, cleared>>
  /\ IF job[t].pc = "purgelog" THEN Goto(t, "evict") ELSE Done(t)
  /\ UNCHANGED <<profile, cache, session, total_scans, day, half, dayoff, marks, lost, raced,
                 reload>>

Evict(t) ==
  /\ At(t, "evict")
  /\ cache' = [cache EXCEPT ![job[t].s] = None]
  /\ Goto(t, "clear")
  /\ Reload(reload.mixed \/ ~Alone(t))
  /\ UNCHANGED tables /\ UNCHANGED <<half, dayoff, marks, cleared, lost, raced>>

\* The clock passes one o'clock.
Noon ==
  /\ half = "FN" /\ half' = "AN"
  /\ UNCHANGED <<cache, job, dayoff, marks, cleared, lost, raced, reload>> /\ UNCHANGED tables

KioskNext ==
  \/ \E t \in Thread :
       \/ \E k \in KioskSession : Start(t, k) \/ End(t, k) \/ \E s \in Student : Scan(t, k, s)
       \/ \E s \in Student :
            \/ QuickScan(t, s) \/ Delete(t, s) \/ ClearAttendance(t, s)
            \/ \E overwrite \in BOOLEAN : Register(t, s, overwrite)
       \/ Match(t) \/ UseSession(t) \/ CreateSession(t)
       \/ CheckSession(t) \/ CheckHalf(t) \/ Log(t) \/ CountScan(t) \/ MarkDay(t)
       \/ Upsert(t) \/ Clear(t) \/ Select(t) \/ Fill(t)
       \/ CountFails(t) \/ SelectFails(t) \/ Raises(t)
       \/ PurgeProfile(t) \/ PurgeDay(t) \/ PurgeLog(t) \/ Evict(t)
  \/ Noon
KioskSpec == KioskInit /\ [][KioskNext]_kioskVars

-----------------------------------------------------------------------------
\* Every variable has its type.
KioskTypeOK ==
  /\ profile \in Rows /\ cache \in Rows
  /\ session \in [KioskSession -> {"none", "open", "ended"}]
  /\ total_scans \in [KioskSession -> Nat] /\ log \in [KioskSession -> [Student -> 0..MaxScans]]
  /\ day \in [Student -> [Half -> BOOLEAN]] /\ half \in Half /\ dayoff \subseteq Student
  /\ job \in [Thread -> {AtRest} \cup Handler]
  /\ marks \in [Student -> [Half -> 0..2]] /\ cleared \in [KioskSession -> Nat]
  /\ lost \in [KioskSession -> Nat] /\ raced \subseteq Student
  /\ reload \in [mixed : BOOLEAN, failed : BOOLEAN]

Counting(k) == Cardinality({t \in Thread : At(t, "total") /\ job[t].k = k})

\* However scans and deletions interleave and whatever fails, total_scans of a
\* session is the number of entries ever logged in it, but for those a handler has
\* still to count and those whose own UPDATE of the counter failed.
TotalIsLogged ==
  \A k \in KioskSession :
    total_scans[k] + Counting(k) + lost[k] = Logged(k) + cleared[k]

\* A student whose day is a holiday or an approved leave is never marked.
OffNotMarked == \A s \in dayoff, h \in Half : ~day[s][h] /\ marks[s][h] = 0

\* "Single mark per FN / AN session today": nobody is accepted twice in a half
\* while attendance is not cleared ...
OncePerHalf == \A s \in Student, h \in Half : marks[s][h] <= 1

\* ... unless two of their scans were past the checks at once, or the row of the
\* day could not be written, however many handlers are at work on others.
OnceUnlessRaced == \A s \in Student \ raced, h \in Half : marks[s][h] <= 1

\* "Reload in-memory face index cache": when no handler is at work, the faces the
\* kiosk recognises are the registered ones ...
CacheIsTable == (\A t \in Thread : job[t] = AtRest) => cache = profile

\* ... or none, if the last SELECT failed, unless reloads were mixed up: neither a
\* deleted student nor a replaced face is recognised once a reload is over.
FacesRegistered ==
  (\A t \in Thread : ~Loading(t)) /\ ~reload.mixed =>
    \A s \in Student : cache[s] = profile[s] \/ (cache[s] = None /\ reload.failed)

\* "deletes a student's profile and ALL associated data": a student without a
\* profile whose deletion is over has no attendance.
DeletedIsGone ==
  \A s \in Student :
    profile[s] = None /\ (\A t \in Thread : job[t] = AtRest) =>
      \A h \in Half : ~day[s][h]

\* The kiosk's books, with any number of handlers and failing statements: the
\* counter is the log, nobody is marked on a day off or twice in a half, and the
\* faces are the registered ones.
KioskBooks == TotalIsLogged /\ OffNotMarked /\ OnceUnlessRaced /\ FacesRegistered
=============================================================================
