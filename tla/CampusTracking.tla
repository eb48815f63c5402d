--------------------------- MODULE CampusTracking ---------------------------
(* Movement tracking of one person: the live report of a phone
   (update_user_location), the reports it kept while offline
   (sync_offline_locations), the permission to go out, the poll that tells
   the phone whether to report (get_staff_tracking_status), the background
   ping of a student (student_location_ping) and the alerts they all raise and
   resolve.  Every statement about an alert may fail, which is swallowed; so is the
   failed row of a kept report, while that of a live one ends the request.

   Time counts minutes from 0; a day has DayLen of them.  A place is one of
   "campus" (inside the outer polygon and the limit range), "fringe" (inside
   the limit range only) and "away". *)
EXTENDS Naturals, Sequences, FiniteSets

CONSTANTS
  Kind,        \* "staff", "other" (other staff) or "student"
  DayLen,      \* minutes of a day
  Start, Stop, \* first and last minute of a day in which reports are taken
  Grace,       \* minutes outside after which a person is marked absent
  End,         \* bound: the last minute
  MaxQueue,    \* bound: reports a phone keeps while offline
  MaxAlerts,   \* bound: alerts ever raised
  Places,      \* the places the person visits
  Extras,      \* what happens besides reporting, see the guards
  NoTime, Missing

TrackingAssumption ==
  /\ Kind \in {"staff", "other", "student"}
  /\ {DayLen, Start, Stop, Grace, End, MaxQueue, MaxAlerts} \subseteq Nat
  /\ Start <= Stop /\ Stop < DayLen /\ Grace > 0
  /\ Places \subseteq {"campus", "fringe", "away"} /\ "campus" \in Places
  /\ NoTime \notin Nat /\ Missing \notin {"Present", "Absent"}

VARIABLES
  clock,     \* datetime.now()
  place,     \* where the person is
  since,     \* history: since when outside the limit range, or NoTime
  overdue,   \* history: outside for Grace minutes at a stretch, seen today
  att,       \* a check-in row of today in the table of the person's kind
  out,       \* a check-out row of today
  status,    \* today's row of daily_attendance_status
  permit,    \* users.out_permission_enabled and out_permission_expiry
  od,        \* an approved leave or on-duty request of a student covers today
  latest,    \* the row of user_latest_locations
  newest,    \* history: capture time of the newest report ever stored
  alerts,    \* status of every row of campus_movement_alerts, in order
  torn,      \* history: what failures have pulled apart, see Torn
  on,        \* phone: the last poll said that tracking is active
  queue,     \* phone: the reports kept for sync_offline
  reported   \* phone: a report was made in this minute

phone == <<on, queue, reported>>
world == <<clock, place, since, overdue>>
vars == <<world, att, out, status, permit, od, latest, newest, alerts, torn, phone>>

Times == 0 .. End
Minute(t) == t % DayLen
InHours(t) == Start <= Minute(t) /\ Minute(t) <= Stop
InLimit(p) == p # "away"
Report == [at : Times, place : Places, gps : BOOLEAN, mock : BOOLEAN]

TypeOK ==
  /\ clock \in Times /\ place \in Places
  /\ since \in Times \cup {NoTime}
  /\ {overdue, att, out, od, on, reported} \subseteq BOOLEAN
  /\ status \in {Missing, "Present", "Absent"}
  /\ permit \in [on : BOOLEAN, until : Times \cup {NoTime}]
  /\ (permit.on => Kind = "staff") /\ (od => Kind = "student")
  /\ \/ latest = Missing
     \/ latest \in [at : Times, warn : BOOLEAN, left : Times \cup {NoTime}, force : BOOLEAN]
  /\ newest \in Times \cup {NoTime} /\ torn \subseteq {"alert", "twice", "timer"}
  /\ alerts \in Seq({"ACTIVE", "RESOLVED", "ACKNOWLEDGED"}) /\ Len(alerts) <= MaxAlerts
  /\ queue \in Seq(Report) /\ Len(queue) <= MaxQueue

Init ==
  /\ clock = 0 /\ place = "campus" /\ since = NoTime /\ overdue = FALSE
  /\ att = FALSE /\ out = FALSE /\ status = Missing
  /\ permit = [on |-> FALSE, until |-> NoTime] /\ od = FALSE
  /\ latest = Missing /\ newest = NoTime /\ alerts = <<>> /\ torn = {}
  /\ on = FALSE /\ queue = <<>> /\ reported = FALSE

-----------------------------------------------------------------------------
(* The world: the person moves at most once a minute, and time passes once the
   phone that is told to report has done so; a new day has no rows yet. *)

Late(t) == since' # NoTime /\ t - since' >= Grace

Tick ==
  /\ clock < End
  /\ on => reported
  /\ clock' = clock + 1 /\ reported' = FALSE
  /\ place' \in Places
  /\ since' = IF InLimit(place') THEN NoTime
              ELSE IF InLimit(place) THEN clock + 1 ELSE since
  /\ LET new == Minute(clock + 1) = 0
     IN /\ overdue' = (Late(clock + 1) \/ (overdue /\ ~new))
        /\ att' = (att /\ ~new) /\ out' = (out /\ ~new)
        /\ status' = IF new THEN Missing ELSE status
        /\ od' = (od /\ ~new)
  /\ UNCHANGED <<permit, latest, newest, alerts, torn, on, queue>>

(* Attendance is marked on the campus and checked out by another device. *)
CheckIn ==
  /\ ~att /\ place = "campus"
  /\ att' = TRUE /\ status' = "Present"
  /\ UNCHANGED <<world, out, permit, od, latest, newest, alerts, torn, phone>>

CheckOut ==
  /\ "checkout" \in Extras /\ att /\ ~out
  /\ out' = TRUE
  /\ UNCHANGED <<world, att, status, permit, od, latest, newest, alerts, torn, phone>>

-----------------------------------------------------------------------------
(* _record_campus_movement_alert and _resolve_campus_movement_alert. *)

Active(al) == {i \in DOMAIN al : al[i] = "ACTIVE"}
Record(al) == IF Active(al) # {} THEN al ELSE Append(al, "ACTIVE")
Resolve(al) == [i \in DOMAIN al |-> IF al[i] = "ACTIVE" THEN "RESOLVED" ELSE al[i]]

(* The statements of a report that fail: "alert" the INSERT or the UPDATE of the
   alert; "again" the lookup or the refresh of an active one, after which another is
   raised; "mark" the UPDATE of the day's status; "row" a row of the position. *)
Faults == IF "fail" \in Extras THEN SUBSET {"alert", "again", "mark", "row"} ELSE {{}}

RecordBy(al, f) ==
  CASE "alert" \in f -> al
    [] "alert" \notin f /\ "again" \in f -> Append(al, "ACTIVE")
    [] OTHER -> Record(al)
ResolveBy(al, f) == IF "alert" \in f THEN al ELSE Resolve(al)

(* What failures pull apart: the stored row does not go with what its report did to
   the alerts ("alert"), two alerts may be active until all are resolved ("twice"),
   and a timer runs on that a report should have cleared ("timer"). *)
Torn(t, whole, again, lost, al) ==
  (t \ ((IF whole THEN {"alert"} ELSE {}) \cup (IF Active(al) = {} THEN {"twice"} ELSE {})))
    \cup (IF whole THEN {} ELSE {"alert"})
    \cup (IF again THEN {"twice"} ELSE {})
    \cup (IF lost THEN {"timer"} ELSE {})

Acknowledge ==
  /\ "ack" \in Extras
  /\ \E i \in DOMAIN alerts : alerts' = [alerts EXCEPT ![i] = "ACKNOWLEDGED"]
  /\ UNCHANGED <<world, att, out, status, permit, od, latest, newest, torn, phone>>

-----------------------------------------------------------------------------
(* The live report. *)

LiveAttended == att \/ status # Missing
PermitHolds(t) == permit.on /\ (permit.until = NoTime \/ t < permit.until)
LivePermitted == IF Kind = "student" THEN od ELSE PermitHolds(clock)

Newest(t) == IF newest = NoTime \/ t > newest THEN t ELSE newest

LeftAfterKept(guarded, p) ==
  IF latest # Missing /\ latest.left # NoTime THEN latest.left
  ELSE IF ~guarded \/ InLimit(p) THEN NoTime ELSE clock

(* first_left_boundary_at after a report taken from p: kept while outside,
   forgotten inside and whenever the boundary does not apply. *)
LeftAfter(guarded, p) ==
  IF ~guarded \/ InLimit(p) THEN NoTime
  ELSE IF latest # Missing /\ latest.left # NoTime THEN latest.left ELSE clock

Forced == latest # Missing /\ latest.force
Absent(s) == IF s = Missing THEN Missing ELSE "Absent"

(* The alert, the day's status and then the row; the flag of a forced update is
   reset last.  A failed mark or row ends the request, what was done stays, and the
   phone keeps the report. *)
Update ==
  /\ on /\ ~reported /\ InHours(clock)
  /\ \E f \in Faults :
       LET guarded == LiveAttended /\ ~LivePermitted
           left == LeftAfter(guarded, place)
           warn == guarded /\ ~InLimit(place)
           late == warn /\ clock - left >= Grace
           stored == "row" \notin f /\ ~(late /\ "mark" \in f)
       IN /\ alerts' = CASE warn -> RecordBy(alerts, f)
                         [] guarded /\ ~warn -> ResolveBy(alerts, f)
                         [] OTHER -> alerts
          /\ status' = IF late /\ "mark" \notin f THEN Absent(status) ELSE status
          /\ IF stored
             THEN /\ \E force \in {FALSE, Forced} :
                       /\ "fail" \notin Extras => ~force
                       /\ latest' = [at |-> clock, warn |-> warn, left |-> left, force |-> force]
                  /\ newest' = Newest(clock)
             ELSE UNCHANGED <<latest, newest>>
          /\ torn' = Torn(torn, stored /\ f \cap {"alert", "again"} = {}, warn /\ "again" \in f,
                         ~stored /\ left = NoTime, alerts')
          /\ queue' = IF ~stored /\ "offline" \in Extras /\ Len(queue) < MaxQueue
                      THEN Append(queue, [at |-> clock, place |-> place, gps |-> TRUE, mock |-> FALSE])
                      ELSE queue
  /\ Len(alerts') <= MaxAlerts
  /\ reported' = TRUE
  /\ UNCHANGED <<world, att, out, permit, od, on>>

(* Outside the hours a report is ignored. *)
UpdateIgnored ==
  /\ on /\ ~reported /\ ~InHours(clock)
  /\ reported' = TRUE
  /\ UNCHANGED <<world, att, out, status, permit, od, latest, newest, alerts, torn, on, queue>>

(* Without a network the phone keeps the report. *)
Keep ==
  /\ "offline" \in Extras /\ on /\ ~reported /\ Len(queue) < MaxQueue
  /\ \E gps \in BOOLEAN, mock \in BOOLEAN :
       /\ "tamper" \notin Extras => gps /\ ~mock
       /\ queue' = Append(queue, [at |-> clock, place |-> place, gps |-> gps, mock |-> mock])
  /\ reported' = TRUE
  /\ UNCHANGED <<world, att, out, status, permit, od, latest, newest, alerts, torn, on>>

-----------------------------------------------------------------------------
(* sync_offline_locations: the kept reports are processed in order of capture.
   Only rows of users and of attendance are consulted, so that neither other
   staff nor students have attended. *)

OfflineAttended == Kind = "staff" /\ att
OfflinePermitted(t) == Kind = "staff" /\ PermitHolds(t)

Since(start, t) == IF t < start THEN 0 ELSE t - start

GpsStep(acc, r) ==
  IF r.gps THEN [acc EXCEPT !.gpsOff = NoTime, !.bad = @ \/ r.mock]
  ELSE IF acc.gpsOff = NoTime THEN [acc EXCEPT !.gpsOff = r.at, !.bad = @ \/ r.mock]
  ELSE [acc EXCEPT !.bad = @ \/ r.mock \/ r.at - acc.gpsOff >= Grace]

BoundaryStep(acc, r, f) ==
  LET guarded == OfflineAttended /\ ~OfflinePermitted(r.at) /\ r.gps
  IN CASE ~guarded -> [acc EXCEPT !.warn = FALSE]
       [] guarded /\ InLimit(r.place) ->
            [acc EXCEPT !.warn = FALSE, !.left = NoTime, !.alerts = ResolveBy(@, f)]
       [] guarded /\ ~InLimit(r.place) /\ acc.left = NoTime ->
            [acc EXCEPT !.warn = TRUE, !.left = r.at, !.alerts = RecordBy(@, f)]
       [] OTHER ->
            [acc EXCEPT !.warn = TRUE, !.alerts = RecordBy(@, f),
                        !.bad = @ \/ Since(acc.left, r.at) >= Grace]

\* A row that fails is left out.
StoreStep(acc, r, f) ==
  LET stored == "row" \notin f
      next == [acc EXCEPT !.torn = Torn(@, stored /\ f \cap {"alert", "again"} = {},
                                        acc.warn /\ "again" \in f,
                                        ~stored /\ acc.left = NoTime, acc.alerts)]
  IN IF ~stored THEN next
     ELSE [next EXCEPT !.latest = [at |-> r.at, warn |-> acc.warn, left |-> acc.left,
                                   force |-> acc.latest # Missing /\ acc.latest.force],
                       !.newest = IF @ = NoTime \/ r.at > @ THEN r.at ELSE @]

SyncStep(acc, r, f) == StoreStep(BoundaryStep(GpsStep(acc, r), r, f), r, f)

\* What the kept reports leave behind; one from outside the hours is skipped.
Synced(fs) ==
  LET acc[i \in 0 .. Len(queue)] ==
        IF i = 0
        THEN [left |-> IF latest = Missing THEN NoTime ELSE latest.left, gpsOff |-> NoTime,
              bad |-> FALSE, warn |-> FALSE, alerts |-> alerts, torn |-> torn,
              latest |-> latest, newest |-> newest]
        ELSE IF InHours(queue[i].at) THEN SyncStep(acc[i - 1], queue[i], fs[i]) ELSE acc[i - 1]
  IN  acc[Len(queue)]

\* The answer arrives and the phone forgets the reports, or it keeps them.
Answered ==
  \/ queue' = <<>>
  \/ "lostreply" \in Extras /\ queue' = queue

(* The reports one after the other, then the day's status, then the flag of a
   forced update: if one of the last two fails the phone gets an error. *)
Sync ==
  /\ queue # <<>>
  /\ IF \A i \in DOMAIN queue : ~InHours(queue[i].at)
     THEN UNCHANGED <<alerts, torn, latest, newest, status>> /\ Answered
     ELSE \E fs \in [DOMAIN queue -> Faults], marked \in BOOLEAN, reset \in BOOLEAN :
            LET acc == Synced(fs)
            IN /\ "fail" \notin Extras => marked /\ reset
               /\ reset => marked
               /\ alerts' = acc.alerts /\ torn' = acc.torn /\ newest' = acc.newest
               /\ latest' = IF reset /\ acc.latest # Missing THEN [acc.latest EXCEPT !.force = FALSE]
                            ELSE acc.latest
               /\ status' = IF acc.bad /\ marked THEN Absent(status) ELSE status
               /\ IF reset THEN Answered ELSE queue' = queue
  /\ Len(alerts') <= MaxAlerts
  /\ UNCHANGED <<world, att, out, permit, od, on, reported>>

-----------------------------------------------------------------------------
(* get_staff_tracking_status: the phone learns whether to report. *)

Tracking ==
  /\ att \/ status = "Present"
  /\ ~out
  /\ Minute(clock) <= Stop

Poll ==
  /\ on' = Tracking
  /\ UNCHANGED <<world, att, out, status, permit, od, latest, newest, alerts, torn, queue, reported>>

(* request_force_location_update *)
ForceUpdate ==
  /\ "force" \in Extras /\ latest # Missing
  /\ latest' = [latest EXCEPT !.force = TRUE]
  /\ UNCHANGED <<world, att, out, status, permit, od, newest, alerts, torn, phone>>

(* update_user_out_permission: an UPDATE of users, which has no row of other
   staff or of a student. *)
OutPermission ==
  /\ "permit" \in Extras /\ Kind = "staff"
  /\ \E b \in BOOLEAN, t \in {NoTime, clock + 1} :
       t \in Times \cup {NoTime} /\ permit' = [on |-> b, until |-> t]
  /\ UNCHANGED <<world, att, out, status, od, latest, newest, alerts, torn, phone>>

(* The HOD approves a student's leave or on-duty request for today. *)
ApproveOD ==
  /\ "permit" \in Extras /\ Kind = "student" /\ ~od
  /\ od' = TRUE
  /\ UNCHANGED <<world, att, out, status, permit, latest, newest, alerts, torn, phone>>

(* student_location_ping: the outer polygon and the academic hours count. *)
StudentPing ==
  /\ Kind = "student"
  /\ \E f \in Faults :
       LET warn == place # "campus" /\ ~od /\ InHours(clock)
       IN /\ alerts' = CASE warn -> RecordBy(alerts, f)
                         [] place = "campus" -> ResolveBy(alerts, f)
                         [] OTHER -> alerts
          /\ torn' = Torn(torn, TRUE, warn /\ "again" \in f, FALSE, alerts')
  /\ Len(alerts') <= MaxAlerts
  /\ UNCHANGED <<world, att, out, status, permit, od, latest, newest, phone>>

-----------------------------------------------------------------------------
Next ==
  \/ Tick \/ CheckIn \/ CheckOut
  \/ Update \/ UpdateIgnored \/ Keep \/ Sync \/ Poll
  \/ Acknowledge \/ ForceUpdate \/ OutPermission \/ ApproveOD \/ StudentPing

Spec == Init /\ [][Next]_vars

-----------------------------------------------------------------------------
(* Nobody is marked absent by the tracking who was not outside the limit range for
   the allowed minutes at a stretch during this day: "Please return within 3 minutes
   to avoid being marked absent."  Except after a report of a return whose row failed,
   which leaves the timer. *)
Deserved == status = "Absent" => overdue \/ "timer" \in torn

(* At most one alert of a person is ACTIVE, however the reports, pings and
   acknowledgements of several outings follow one another, unless the lookup of the
   active one failed since they were last resolved. *)
OneActive == Cardinality(Active(alerts)) <= 1 \/ "twice" \in torn

(* A stored warning has behind it an alert that is still open and a timer that
   runs: the three writes of a report agree, in whatever order the reports of an
   outing arrive, unless a statement of the last one failed. *)
WarnedOnce ==
  latest # Missing /\ latest.warn =>
    /\ latest.left # NoTime
    /\ "alert" \in torn \/ \E i \in DOMAIN alerts : alerts[i] # "RESOLVED"

(* A stored report from inside the limit range leaves no alert ACTIVE, unless the
   UPDATE that resolves it failed. *)
ReturnResolves ==
  newest' # newest /\ newest' = clock /\ InLimit(place) =>
    Active(alerts') = {} \/ "alert" \in torn'

=============================================================================
