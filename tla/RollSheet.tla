----------------------------- MODULE RollSheet -----------------------------
(***************************************************************************)
(* The roll sheet of a running class session                               *)
(* (src/siet_sync/lib/widgets/class_session_roll_sheet.dart) and the       *)
(* server behind it: the roll it loads every 15 seconds, in a pool thread, *)
(* and the WebSocket that pushes check-ins and the closing                 *)
(* (ClassSessionWsManager in src/backend/main.py). What a check-in or a    *)
(* closing does to the register is in ClassSession; here each is steps     *)
(* that read and steps that write. A closer in a pool thread runs beside   *)
(* the check-ins on the event loop and writes for absentees it read before.*)
(***************************************************************************)
EXTENDS Naturals, FiniteSets, Sequences, SequencesExt

CONSTANTS
    OnRoll, Sheet,
    Excuse,         \* what the day status says of a student: "none", "On-Duty", "Leave"
    MaxSessions,    \* bound: sessions of the class
    Loads,          \* bound: requests of one sheet at a time
    MaxOverrides,   \* bound
    SheetFeatures   \* "thread": pool threads close expired sessions, "pause": check-in
                    \* is closed separately, "restart", "leave": sheets are closed

SheetAssumption ==
    /\ IsFiniteSet(OnRoll) /\ IsFiniteSet(Sheet)
    /\ Excuse \in [OnRoll -> {"none", "On-Duty", "Leave"}]
    /\ MaxSessions \in Nat \ {0} /\ Loads \in Nat \ {0} /\ MaxOverrides \in Nat
    /\ SheetFeatures \subseteq {"thread", "pause", "restart", "leave"}

Session == 1 .. MaxSessions
Opened == 1     \* the session every sheet was opened for
Nobody == "nobody"

VARIABLES
    status, register,   \* the sessions and their rows of student_attendance
    loop,               \* what a handler or the closer on the event loop is doing
    thread,             \* what a closer in a pool thread is doing: the session, or
                        \* 0, and the students it has still to mark absent
    overwritten,        \* history: rows that were Present when the closer of a pool
                        \* thread wrote Absent
    tasks,              \* broadcasts the event loop has still to finish
    conns,              \* the sheets listed for Opened in _session_connections
    sock, inbox,        \* the sheet's end of the WebSocket
    mounted,            \* sheets on screen
    active,             \* _activeSessionId
    shown,              \* _meta, _roll and the counters on screen
    load,               \* requests for the roll under way
    overrides           \* bound: overrides so far

sheetVars == <<status, register, loop, thread, overwritten, tasks, conns, sock, inbox,
               mounted, active, shown, load, overrides>>
server == <<status, register, loop, thread, overwritten>>
stream == <<tasks, conns, sock, inbox>>
client == <<mounted, active, shown, load>>

Statuses == {"none", "checkin_open", "checkin_closed", "checkout_open", "closed"}
Marks == {"Present", "Absent", "On-Duty", "Leave", "Pending"}
Idle == [job |-> "idle", sid |-> 0, who |-> Nobody]
NoThread == [at |-> "idle", sid |-> 0, left |-> {}]
NoRoll == [x \in OnRoll |-> "unlisted"]
NoLoad == [phase |-> "idle", sid |-> 0, status |-> "none", roll |-> NoRoll]

SheetTypeOK ==
    /\ status \in [Session -> Statuses]
    /\ register \in [Session -> [OnRoll -> {"none", "Present", "Absent"}]]
    /\ loop \in [job : {"idle", "checkin", "close"}, sid : 0 .. MaxSessions,
                 who : OnRoll \cup Sheet \cup {Nobody}]
    /\ thread \in [at : {"idle", "found", "rows"}, sid : 0 .. MaxSessions,
                   left : SUBSET OnRoll]
    /\ overwritten \subseteq Session \X OnRoll
    /\ \A k \in 1 .. Len(tasks) : tasks[k].to \subseteq Sheet
    /\ conns \subseteq Sheet /\ mounted \subseteq Sheet
    /\ sock \in [Sheet -> {"asked", "open", "gone"}]
    /\ active \in [Sheet -> Session]
    /\ \A c \in Sheet :
          /\ shown[c].roll \in [OnRoll -> Marks] \cup {NoRoll}
          /\ {shown[c].pending, shown[c].excused} \subseteq 0 .. Cardinality(OnRoll)
    /\ overrides \in 0 .. MaxOverrides

\* Until the first answer _meta is empty, which counts as recording.
Blank == [sid |-> Opened, status |-> "unknown", roll |-> NoRoll, pending |-> 0, excused |-> 0]
Recording(c) == shown[c].status \in {"unknown", "checkin_open", "checkout_open"}

SheetInit ==
    /\ status = [s \in Session |-> IF s = Opened THEN "checkin_open" ELSE "none"]
    /\ register = [s \in Session |-> [x \in OnRoll |-> "none"]]
    /\ loop = Idle /\ thread = NoThread /\ overwritten = {}
    /\ tasks = <<>> /\ conns = {}
    /\ sock = [c \in Sheet |-> "asked"] /\ inbox = [c \in Sheet |-> <<>>]
    /\ mounted = Sheet /\ active = [c \in Sheet |-> Opened]
    /\ shown = [c \in Sheet |-> Blank]
    /\ load = [c \in Sheet |-> [i \in 1 .. Loads |->
                  IF i = 1 THEN [NoLoad EXCEPT !.phase = "sent", !.sid = Opened] ELSE NoLoad]]
    /\ overrides = 0

-----------------------------------------------------------------------------
(***************************************************************************)
(* The server: check-ins, scans and closings.                              *)
(***************************************************************************)
Free == loop = Idle

Admit(s, x) ==
    /\ Free
    /\ status[s] = "checkin_open" /\ register[s][x] # "Present"
    /\ loop' = [job |-> "checkin", sid |-> s, who |-> x]
    /\ UNCHANGED <<status, register, thread, overwritten, stream, client, overrides>>

\* create_task: the list of receivers is copied when the task begins.
Broadcast(event, s, x) ==
    Append(tasks, [event |-> event, sid |-> s, who |-> x, begun |-> FALSE, to |-> {}])

Mark ==
    /\ loop.job = "checkin"
    /\ register' = [register EXCEPT ![loop.sid][loop.who] = "Present"]
    /\ tasks' = Broadcast("student_checked_in", loop.sid, loop.who)
    /\ loop' = Idle
    /\ UNCHANGED <<status, thread, overwritten, conns, sock, inbox, client, overrides>>

Open(s) == status[s] \notin {"none", "closed"}
Absentees(s) == {x \in OnRoll : register[s][x] # "Present" /\ Excuse[x] = "none"}
WithAbsent(s, X) == [register EXCEPT ![s] = [x \in OnRoll |->
                         IF x \in X THEN "Absent" ELSE @[x]]]

\* _execute_close_class_session writes the rows, then the status, then tells.
\* On the loop it runs for a sheet or for the periodic closer, and no check-in
\* comes between what it reads and what it writes. An upsert that fails is only
\* printed.
CloseRows(s, who) ==
    /\ Free
    /\ Open(s)
    /\ who # Nobody => who \in mounted /\ active[who] = s /\ Recording(who)
    /\ \E X \in SUBSET Absentees(s) : register' = WithAbsent(s, X)
    /\ loop' = [job |-> "close", sid |-> s, who |-> who]
    /\ UNCHANGED <<status, thread, overwritten, stream, client, overrides>>

FreeLoads(c) == {i \in 1 .. Loads : load[c][i].phase = "idle"}
\* The bound Loads: a request waits for another to end.
Requested(c) == [load EXCEPT ![c][CHOOSE i \in FreeLoads(c) : TRUE] =
                     [NoLoad EXCEPT !.phase = "sent", !.sid = active[c]]]

CloseStatus ==
    /\ loop.job = "close"
    /\ status' = [status EXCEPT ![loop.sid] = "closed"]
    /\ tasks' = Broadcast("session_closed", loop.sid, Nobody)
    /\ IF loop.who # Nobody
       THEN FreeLoads(loop.who) # {} /\ load' = Requested(loop.who)
       ELSE UNCHANGED load
    /\ loop' = Idle
    /\ UNCHANGED <<register, thread, overwritten, conns, sock, inbox, mounted, active, shown, overrides>>

\* The closer in a pool thread, called by each request for a roll or for the
\* active session: it finds an open session, reads who is present, then upserts
\* the others one after another, whatever their row says by now.
ThreadFinds(s) ==
    /\ "thread" \in SheetFeatures
    /\ thread = NoThread
    /\ Open(s)
    /\ thread' = [at |-> "found", sid |-> s, left |-> {}]
    /\ UNCHANGED <<status, register, loop, overwritten, stream, client, overrides>>

ThreadReads ==
    /\ thread.at = "found"
    /\ thread' = [thread EXCEPT !.at = "rows", !.left = Absentees(thread.sid)]
    /\ UNCHANGED <<status, register, loop, overwritten, stream, client, overrides>>

ThreadMarks(x) ==
    /\ x \in thread.left
    /\ \/ /\ register' = WithAbsent(thread.sid, {x})
          /\ overwritten' = IF register[thread.sid][x] = "Present"
                     THEN overwritten \cup {<<thread.sid, x>>} ELSE overwritten
       \/ UNCHANGED <<register, overwritten>>
    /\ thread' = [thread EXCEPT !.left = @ \ {x}]
    /\ UNCHANGED <<status, loop, stream, client, overrides>>

\* There create_task raises, and the error is ignored.
ThreadStatus ==
    /\ thread.at = "rows" /\ thread.left = {}
    /\ status' = [status EXCEPT ![thread.sid] = "closed"]
    /\ thread' = NoThread
    /\ UNCHANGED <<register, loop, overwritten, stream, client, overrides>>

CloseCheckin(s) ==
    /\ "pause" \in SheetFeatures
    /\ Free
    /\ status[s] = "checkin_open"
    /\ status' = [status EXCEPT ![s] = "checkin_closed"]
    /\ UNCHANGED <<register, loop, thread, overwritten, stream, client, overrides>>

StartCheckout(s) ==
    /\ Free
    /\ status[s] \in {"checkin_open", "checkin_closed"}
    /\ status' = [status EXCEPT ![s] = "checkout_open"]
    /\ UNCHANGED <<register, loop, thread, overwritten, stream, client, overrides>>

-----------------------------------------------------------------------------
(***************************************************************************)
(* The WebSocket.                                                          *)
(***************************************************************************)
Connect(c) ==
    /\ Free
    /\ sock[c] = "asked"
    /\ sock' = [sock EXCEPT ![c] = "open"]
    /\ conns' = conns \cup {c}
    /\ UNCHANGED <<server, tasks, inbox, client, overrides>>

Drop(c) ==
    /\ sock[c] # "gone"
    /\ sock' = [sock EXCEPT ![c] = "gone"]
    /\ inbox' = [inbox EXCEPT ![c] = <<>>]
    /\ UNCHANGED <<server, tasks, conns, client, overrides>>

\* ws_class_session_stream ends.
Disconnect(c) ==
    /\ Free
    /\ sock[c] = "gone" /\ c \in conns
    /\ conns' = conns \ {c}
    /\ UNCHANGED <<server, tasks, sock, inbox, client, overrides>>

BeginTask(k) ==
    /\ Free
    /\ ~tasks[k].begun
    /\ LET to == IF tasks[k].sid = Opened THEN conns ELSE {} IN
       tasks' = IF to = {} THEN RemoveAt(tasks, k)
                ELSE [tasks EXCEPT ![k].begun = TRUE, ![k].to = to]
    /\ UNCHANGED <<server, conns, sock, inbox, client, overrides>>

\* Sending waits for slow receivers, so other tasks and handlers come in between.
Send(k, c) ==
    /\ Free
    /\ c \in tasks[k].to
    /\ tasks' = IF tasks[k].to = {c} THEN RemoveAt(tasks, k)
                ELSE [tasks EXCEPT ![k].to = @ \ {c}]
    /\ IF sock[c] = "open"
       THEN /\ inbox' = [inbox EXCEPT ![c] = Append(@, [event |-> tasks[k].event,
                                                         who |-> tasks[k].who])]
            /\ UNCHANGED conns
       ELSE conns' = conns \ {c} /\ UNCHANGED inbox
    /\ UNCHANGED <<server, sock, client, overrides>>

-----------------------------------------------------------------------------
(***************************************************************************)
(* The sheet.                                                              *)
(***************************************************************************)
Count(roll, marks) == Cardinality({x \in OnRoll : roll[x] \in marks})

\* A bug: the counts are recalculated by the next answer only.
RecountedLater(sh) == sh

\* _recalculateRollCounts: whatever is not one of three words is pending.
Recounted(sh) == [sh EXCEPT !.pending = Count(sh.roll, {"Pending", "Leave"}),
                            !.excused = Count(sh.roll, {"On-Duty"})]

ReceiveCheckin(c) ==
    /\ inbox[c] # <<>> /\ Head(inbox[c]).event = "student_checked_in"
    /\ inbox' = [inbox EXCEPT ![c] = Tail(@)]
    /\ LET x == Head(inbox[c]).who IN
       shown' = IF shown[c].roll[x] \in {"Present", "unlisted"} THEN shown
                ELSE [shown EXCEPT ![c] = Recounted([@ EXCEPT !.roll[x] = "Present"])]
    /\ UNCHANGED <<server, tasks, conns, sock, mounted, active, load, overrides>>

ReceiveClosed(c) ==
    /\ inbox[c] # <<>> /\ Head(inbox[c]).event = "session_closed"
    /\ FreeLoads(c) # {}
    /\ inbox' = [inbox EXCEPT ![c] = Tail(@)]
    /\ load' = Requested(c)
    /\ UNCHANGED <<server, tasks, conns, sock, mounted, active, shown, overrides>>

\* _periodicStatusCheckTimer.
Poll(c) ==
    /\ c \in mounted /\ Recording(c)
    /\ FreeLoads(c) # {}
    /\ load' = Requested(c)
    /\ UNCHANGED <<server, stream, mounted, active, shown, overrides>>

\* get_session_roll reads the session first, then the rows.
LoadMeta(c, i) ==
    /\ load[c][i].phase = "sent"
    /\ load' = [load EXCEPT ![c][i].phase = "meta", ![c][i].status = status[load[c][i].sid]]
    /\ UNCHANGED <<server, stream, mounted, active, shown, overrides>>

Listed(s, st, x) ==
    CASE register[s][x] # "none" -> register[s][x]
      [] register[s][x] = "none" /\ Excuse[x] # "none" -> Excuse[x]
      [] OTHER -> IF st = "closed" THEN "Absent" ELSE "Pending"

LoadRows(c, i) ==
    /\ load[c][i].phase = "meta"
    /\ load' = [load EXCEPT ![c][i].phase = "rows",
                            ![c][i].roll = [x \in OnRoll |->
                                Listed(load[c][i].sid, load[c][i].status, x)]]
    /\ UNCHANGED <<server, stream, mounted, active, shown, overrides>>

\* _loadRoll: the answer is shown, whichever session is active by now.
Answer(c, i) ==
    /\ load[c][i].phase = "rows"
    /\ shown' = IF c \in mounted
                THEN [shown EXCEPT ![c] =
                        [sid |-> load[c][i].sid, status |-> load[c][i].status,
                         roll |-> load[c][i].roll,
                         pending |-> Count(load[c][i].roll, {"Pending"}),
                         excused |-> Count(load[c][i].roll, {"On-Duty", "Leave"})]]
                ELSE shown
    /\ load' = [load EXCEPT ![c][i] = NoLoad]
    /\ UNCHANGED <<server, stream, mounted, active, overrides>>

\* A silent request that fails is forgotten, however far the server came.
LoadLost(c, i) ==
    /\ load[c][i].phase = "rows"
    /\ load' = [load EXCEPT ![c][i] = NoLoad]
    /\ UNCHANGED <<server, stream, mounted, active, shown, overrides>>

\* quick_start_class_session resumes the newest session that is not closed; the
\* sheet stays connected to Opened.
StartRecording(c) ==
    /\ "restart" \in SheetFeatures
    /\ Free
    /\ c \in mounted /\ ~Recording(c)
    /\ FreeLoads(c) # {}
    /\ \E s \in Session :
          /\ IF \E r \in Session : Open(r)
             THEN Open(s) /\ (\A r \in Session : Open(r) => r <= s) /\ UNCHANGED status
             ELSE /\ status[s] = "none" /\ \A r \in Session : r < s => status[r] # "none"
                  /\ status' = [status EXCEPT ![s] = "checkin_open"]
          /\ active' = [active EXCEPT ![c] = s]
          /\ load' = [load EXCEPT ![c][CHOOSE i \in FreeLoads(c) : TRUE] =
                         [NoLoad EXCEPT !.phase = "sent", !.sid = s]]
    /\ UNCHANGED <<register, loop, thread, overwritten, stream, mounted, shown, overrides>>

\* _setStudentStatus, with the answer of session_manual_override.
Override(c, x, mark) ==
    /\ overrides < MaxOverrides
    /\ Free
    /\ c \in mounted /\ FreeLoads(c) # {}
    /\ shown[c].roll # NoRoll
    /\ register' = [register EXCEPT ![active[c]][x] = mark]
    /\ load' = Requested(c)
    /\ overrides' = overrides + 1
    /\ UNCHANGED <<status, loop, thread, overwritten, stream, mounted, active, shown>>

Dispose(c) ==
    /\ "leave" \in SheetFeatures
    /\ c \in mounted
    /\ mounted' = mounted \ {c}
    /\ sock' = [sock EXCEPT ![c] = "gone"]
    /\ inbox' = [inbox EXCEPT ![c] = <<>>]
    /\ UNCHANGED <<server, tasks, conns, active, shown, load, overrides>>

SheetNext ==
    \/ \E s \in Session :
          \/ \E x \in OnRoll : Admit(s, x)
          \/ \E who \in Sheet \cup {Nobody} : CloseRows(s, who)
          \/ ThreadFinds(s) \/ CloseCheckin(s) \/ StartCheckout(s)
    \/ Mark \/ CloseStatus
    \/ ThreadReads \/ (\E x \in OnRoll : ThreadMarks(x)) \/ ThreadStatus
    \/ \E c \in Sheet :
          \/ Connect(c) \/ Drop(c) \/ Disconnect(c)
          \/ ReceiveCheckin(c) \/ ReceiveClosed(c) \/ Poll(c)
          \/ \E i \in 1 .. Loads :
                LoadMeta(c, i) \/ LoadRows(c, i) \/ Answer(c, i) \/ LoadLost(c, i)
          \/ StartRecording(c) \/ Dispose(c)
          \/ \E x \in OnRoll, mark \in {"Present", "Absent"} : Override(c, x, mark)
    \/ \E k \in 1 .. Len(tasks) : BeginTask(k) \/ \E c \in Sheet : Send(k, c)

SheetSpec == SheetInit /\ [][SheetNext]_sheetVars

\* The timer of the sheet runs, pool threads go on, and of requests repeated for
\* ever some are answered.
ReadMeta(c) == \E i \in 1 .. Loads : LoadMeta(c, i)
ReadRows(c) == \E i \in 1 .. Loads : LoadRows(c, i)
Answered(c) == \E i \in 1 .. Loads : Answer(c, i)
SheetFairness ==
    \A c \in Sheet :
        /\ WF_sheetVars(Poll(c))
        /\ WF_sheetVars(ReadMeta(c)) /\ WF_sheetVars(ReadRows(c))
        /\ SF_sheetVars(Answered(c))

FairSheetSpec == SheetSpec /\ SheetFairness

-----------------------------------------------------------------------------
\* A sheet that shows a session closed shows its final roll: what the register
\* says, and Absent for whom the closing wrote no row. Only a check-in written
\* after the closing may be missing, and one that a closer overwrote be shown.
ClosedIsFinal ==
    \A c \in Sheet : shown[c].status = "closed" =>
        \A x \in OnRoll :
            \/ shown[c].roll[x] = Listed(shown[c].sid, "closed", x)
            \/ register[shown[c].sid][x] = "Present"
            \/ <<shown[c].sid, x>> \in overwritten

\* Events and rolls overtake each other, yet nobody is shown Present who is not,
\* but those whose check-in came between the read and the writes of a closer in a
\* pool thread.
NoFalsePresent ==
    \A c \in Sheet, x \in OnRoll : shown[c].roll[x] = "Present" =>
        register[shown[c].sid][x] = "Present" \/ <<shown[c].sid, x>> \in overwritten

\* The counters are those of the roll on screen, whether counted by the server
\* or by the sheet: pending are those a closing would mark absent.
CountersAgree ==
    \A c \in Sheet : shown[c].roll # NoRoll =>
        /\ shown[c].pending = Count(shown[c].roll, {"Pending"})
        /\ shown[c].excused = Count(shown[c].roll, {"On-Duty", "Leave"})

\* What a sheet shows is true, in whatever order check-ins, the closing and the
\* answers to overlapping requests reach it.
SheetTruthful == SheetTypeOK /\ ClosedIsFinal /\ NoFalsePresent /\ CountersAgree

\* A closed session ends up closed on every sheet that stays on screen, whoever
\* closed it and whatever was lost, and stays so.
Finished(c) == status[active[c]] = "closed"
Told(c) == c \in mounted => shown[c].status = "closed" /\ shown[c].sid = active[c]
ClosedShown == \A c \in Sheet : Finished(c) ~> []Told(c)

\* A closing is pushed.
ClosingPushed ==
    [][\A s \in Session : status[s] # "closed" /\ status'[s] = "closed" =>
           \E k \in 1 .. Len(tasks') : tasks'[k].event = "session_closed" /\ tasks'[k].sid = s]_sheetVars

\* A sheet whose channel is open hears of the session it shows.
Subscribed == \A c \in mounted : sock[c] = "open" => active[c] = Opened

\* Starting to record opens the check-in.
StartOpens ==
    [][\A c \in Sheet : StartRecording(c) => status'[active'[c]] = "checkin_open"]_sheetVars
=============================================================================
