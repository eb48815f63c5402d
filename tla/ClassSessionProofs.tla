------------------------- MODULE ClassSessionProofs -------------------------
(***************************************************************************)
(* Theorems about ClassSession, for every number of students, periods,     *)
(* sessions, threads, requests and faults, and about PeriodConfig, for any *)
(* classes and saved rows: which configuration the lookups give, and when  *)
(* they give one time.                                                     *)
(***************************************************************************)
EXTENDS ClassSession, PeriodConfig, TLAPS

\* What the locals of a running handler satisfy beyond their types.
SessionPcs == {"present", "excused", "absent", "closeCheckin", "startCheckout",
               "dup", "dupToday", "mark", "markToday", "checkoutInsert", "replace",
               "insert"}
StudentPcs == {"dup", "dupToday", "checkoutInsert", "credit"}
WritingPcs == {"absent", "mark", "markToday", "replace", "insert"}

LocalOK(a) ==
    /\ a.pc \in SessionPcs => a.s \in Sessions
    /\ a.pc \in StudentPcs => a.r \in Students
    /\ a.pc \in WritingPcs => \A w \in a.todo : w[2] \in PeriodsOf(a.s)

TypeInv == /\ TypeOK
           /\ \A t \in Threads : LocalOK(act[t])

LEMMA PeriodsFacts ==
    ASSUME NEW s \in Sessions
    PROVE  /\ PeriodsOf(s) \subseteq Periods
           /\ FirstOf[s] \in PeriodsOf(s)
           /\ FirstOf[s] \in Periods
           /\ LastOf[s] \in Periods
  BY PeriodsAssumption, SizesAssumption DEF PeriodsOf, Periods, Sessions

LEMMA SessionsFacts == Sessions \subseteq 0 .. NSessions
  BY SizesAssumption DEF Sessions

LEMMA IdleOK == Idle \in Activity /\ LocalOK(Idle)
  BY SizesAssumption
  DEF Idle, Activity, LocalOK, SessionPcs, StudentPcs, WritingPcs, Marks, NoStudent

\* A thread takes up locals that are well formed.
LEMMA BecomeOK ==
    ASSUME TypeInv, NEW t \in Threads, NEW a \in Activity, LocalOK(a), Become(t, a)
    PROVE  /\ act' \in [Threads -> Activity]
           /\ \A u \in Threads : LocalOK(act'[u])
           /\ act'[t] = a
           /\ \A u \in Threads \ {t} : act'[u] = act[u]
  <1>1. act \in [Threads -> Activity] BY DEF TypeInv, TypeOK
  <1>2. act' = [act EXCEPT ![t] = a] BY DEF Become
  <1>3. act' \in [Threads -> Activity] /\ act'[t] = a
        /\ \A u \in Threads \ {t} : act'[u] = act[u]
    BY <1>1, <1>2
  <1>4. \A u \in Threads : LocalOK(act'[u])
    <2> TAKE u \in Threads
    <2>1. CASE u = t BY <2>1, <1>3
    <2>2. CASE u # t BY <2>2, <1>3 DEF TypeInv
    <2> QED BY <2>1, <2>2
  <1> QED BY <1>3, <1>4

LEMMA WatchOK ==
    ASSUME NEW extra \in SUBSET Pairs, TypeOK, Watch(extra)
    PROVE  cleared' \in SUBSET Pairs /\ exempt' \in [Threads -> SUBSET Students]
  BY DEF Watch, TypeOK

\* One row is written.
LEMMA RowOK ==
    ASSUME TypeOK, NEW w \in Pairs, NEW row \in Row, rows' = [rows EXCEPT ![w] = row]
    PROVE  rows' \in [Pairs -> Row]
  BY DEF TypeOK

(***************************************************************************)
(* TypeInv is inductive.  The steps of the closer first: they only touch   *)
(* rows and status besides the locals of their thread.                     *)
(***************************************************************************)
LEMMA CloserTypes ==
    ASSUME TypeInv, NEW t \in Threads,
           AutoCloser(t) \/ CloserStep(t) \/ CloserFault(t)
    PROVE  TypeInv'
  <1> DEFINE A == act[t]
  <1>0. A \in Activity /\ LocalOK(A) BY DEF TypeInv, TypeOK
  <1>a. TypeOK BY DEF TypeInv
  <1>1. CASE AutoCloser(t)
    <2> DEFINE a == [Idle EXCEPT !.pc = "sweep", !.queue = Expiring]
    <2>1. a \in Activity /\ LocalOK(a)
      BY IdleOK DEF Idle, Activity, LocalOK, Expiring, SessionPcs, StudentPcs, WritingPcs
    <2>2. Become(t, a) /\ Watch({}) BY <1>1 DEF AutoCloser
    <2> HIDE DEF a
    <2> QED BY <1>1, <1>a, <2>1, <2>2, BecomeOK, WatchOK DEF AutoCloser, TypeInv, TypeOK
  <1>2. CASE BeginClose(t)
    <2>1. PICK s \in A.queue :
            IF status[s] = "closed"
            THEN Become(t, [A EXCEPT !.queue = @ \ {s}])
            ELSE Become(t, [A EXCEPT !.pc = "present", !.s = s, !.queue = @ \ {s}])
      BY <1>2 DEF BeginClose
    <2>2. s \in Sessions BY <1>0 DEF Activity
    <2> DEFINE skip == [A EXCEPT !.queue = @ \ {s}]
               go == [A EXCEPT !.pc = "present", !.s = s, !.queue = @ \ {s}]
    <2>3. A.pc = "sweep" BY <1>2 DEF BeginClose
    <2>4. skip \in Activity /\ LocalOK(skip)
      BY <1>0, <2>3 DEF Activity, LocalOK, SessionPcs, StudentPcs, WritingPcs
    <2>5. go \in Activity /\ LocalOK(go)
      BY <1>0, <2>2, SessionsFacts DEF Activity, LocalOK, StudentPcs, WritingPcs
    <2>6. Become(t, skip) \/ Become(t, go) BY <2>1
    <2> HIDE DEF skip, go
    <2>7. PICK a \in Activity : LocalOK(a) /\ Become(t, a) BY <2>4, <2>5, <2>6
    <2> QED BY <1>2, <1>a, <2>7, BecomeOK, WatchOK DEF BeginClose, TypeInv, TypeOK
  <1>3. CASE EndSweep(t)
    <2>1. Students \X (1 .. A.upto) \subseteq Pairs
      BY <1>0, SizesAssumption DEF Activity, Pairs, Periods
    <2>2. PICK a \in Activity : LocalOK(a) /\ Become(t, a)
      BY <1>3, <2>1, IdleOK
      DEF EndSweep, Idle, Activity, LocalOK, SessionPcs, StudentPcs, WritingPcs
    <2> QED BY <1>3, <1>a, <2>2, BecomeOK, WatchOK DEF EndSweep, TypeInv, TypeOK
  <1>4. CASE ReadPresent(t)
    <2>1. PICK a \in Activity : LocalOK(a) /\ Become(t, a)
      BY <1>4, <1>0
      DEF ReadPresent, Activity, LocalOK, SessionPcs, StudentPcs, WritingPcs
    <2> QED BY <1>4, <1>a, <2>1, BecomeOK, WatchOK DEF ReadPresent, TypeInv, TypeOK
  <1>5. CASE ReadExcused(t)
    <2>1. A.s \in Sessions BY <1>5, <1>0 DEF ReadExcused, LocalOK, SessionPcs
    <2> DEFINE todo == (Students \ (A.seen \cup excused)) \X PeriodsOf(A.s)
               a == [A EXCEPT !.pc = "absent", !.todo = todo]
    <2>2. todo \in SUBSET Pairs /\ \A w \in todo : w[2] \in PeriodsOf(A.s)
      BY <2>1, PeriodsFacts DEF Pairs
    <2>3. a \in Activity /\ a.s = A.s /\ a.pc = "absent" /\ a.todo = todo
      BY <1>0, <2>2 DEF Activity
    <2>4. LocalOK(a) BY <2>1, <2>2, <2>3 DEF LocalOK, StudentPcs
    <2>5. Become(t, a) BY <1>5 DEF ReadExcused
    <2> HIDE DEF a
    <2> QED BY <1>5, <1>a, <2>3, <2>4, <2>5, BecomeOK, WatchOK DEF ReadExcused, TypeInv, TypeOK
  <1>6. CASE WriteAbsent(t)
    <2>1. A.s \in Sessions BY <1>6, <1>0 DEF WriteAbsent, LocalOK, SessionPcs
    <2>2. PICK w \in A.todo :
            /\ rows' = [rows EXCEPT ![w] = [st |-> "Absent", sid |-> A.s]]
            /\ Become(t, [A EXCEPT !.todo = @ \ {w}])
      BY <1>6 DEF WriteAbsent
    <2>3. w \in Pairs /\ [st |-> "Absent", sid |-> A.s] \in Row
      BY <1>0, <2>1 DEF Activity, Row, Marks, Sessions
    <2>4. PICK a \in Activity : LocalOK(a) /\ Become(t, a)
      BY <1>6, <1>0, <2>2
      DEF WriteAbsent, Activity, LocalOK, SessionPcs, StudentPcs, WritingPcs
    <2>5. rows' \in [Pairs -> Row] BY <2>2, <2>3, <1>a, RowOK
    <2> QED BY <1>6, <1>a, <2>4, <2>5, BecomeOK, WatchOK DEF WriteAbsent, TypeInv, TypeOK
  <1>7. CASE WriteAbsentFails(t)
    <2>1. PICK w \in A.todo : Become(t, [A EXCEPT !.todo = @ \ {w}]) /\ Watch({w})
      BY <1>7 DEF WriteAbsentFails
    <2>2. {w} \in SUBSET Pairs BY <1>0 DEF Activity
    <2>3. PICK a \in Activity : LocalOK(a) /\ Become(t, a)
      BY <1>7, <1>0, <2>1
      DEF WriteAbsentFails, Activity, LocalOK, SessionPcs, StudentPcs, WritingPcs
    <2>4. faults' \in 0 .. MaxFaults
      BY <1>7, <1>a, SizesAssumption DEF WriteAbsentFails, TypeOK
    <2> QED BY <1>7, <1>a, <2>1, <2>2, <2>3, <2>4, BecomeOK, WatchOK
            DEF WriteAbsentFails, TypeInv, TypeOK
  <1>8. CASE FinishClose(t)
    <2>1. PICK a \in Activity : LocalOK(a) /\ Become(t, a)
      BY <1>8, <1>0, IdleOK
      DEF FinishClose, Idle, Activity, LocalOK, SessionPcs, StudentPcs, WritingPcs
    <2>2. status' \in [Sessions -> Statuses]
      BY <1>8, <1>a DEF FinishClose, TypeOK, Statuses
    <2> QED BY <1>8, <1>a, <2>1, <2>2, BecomeOK, WatchOK DEF FinishClose, TypeInv, TypeOK
  <1>9. CASE CloseFails(t)
    <2>1. PICK a \in Activity : LocalOK(a) /\ Become(t, a)
      BY <1>9, <1>0, IdleOK
      DEF CloseFails, Idle, Activity, LocalOK, SessionPcs, StudentPcs, WritingPcs
    <2>2. faults' \in 0 .. MaxFaults
      BY <1>9, <1>a, SizesAssumption DEF CloseFails, TypeOK
    <2> QED BY <1>9, <1>a, <2>1, <2>2, BecomeOK, WatchOK DEF CloseFails, TypeInv, TypeOK
  <1> QED BY <1>1, <1>2, <1>3, <1>4, <1>5, <1>6, <1>7, <1>8, <1>9
          DEF CloserStep, CloserFault

(***************************************************************************)
(* The handlers: what a request stores, and what each statement leaves.    *)
(***************************************************************************)
LEMMA RequestTypes ==
    ASSUME TypeInv, NEW a \in Activity, LocalOK(a), Request(a)
    PROVE  /\ act' \in [Threads -> Activity]
           /\ \A u \in Threads : LocalOK(act'[u])
           /\ requests' \in 0 .. MaxRequests
  <1>1. Loop \in Threads BY DEF Threads
  <1>2. requests' \in 0 .. MaxRequests
    BY SizesAssumption DEF Request, TypeInv, TypeOK
  <1> QED BY <1>1, <1>2, BecomeOK DEF Request

LEMMA RequestsTypes ==
    ASSUME TypeInv, StaffRequest \/ StudentRequest
    PROVE  TypeInv'
  <1>a. TypeOK BY DEF TypeInv
  <1>b. ASSUME NEW a \in Activity, LocalOK(a), Request(a), Watch({}),
               UNCHANGED <<clock, excused, faults>>,
               status' \in [Sessions -> Statuses], rows' \in [Pairs -> Row]
        PROVE  TypeInv'
    BY <1>a, <1>b, RequestTypes, WatchOK DEF TypeInv, TypeOK
  <1>1. ASSUME NEW s \in Sessions, StartCheckin(s) \/ QuickStart(s)
        PROVE  TypeInv'
    <2>1. status' \in [Sessions -> Statuses]
      BY <1>1, <1>a DEF StartCheckin, QuickStart, TypeOK, Statuses
    <2> QED BY <1>1, <1>a, <1>b, <2>1, IdleOK DEF StartCheckin, QuickStart, TypeOK
  <1>2. ASSUME NEW s \in Sessions,
               CloseCheckin(s) \/ StartCheckout(s) \/ CloseSession(s)
        PROVE  TypeInv'
    <2>1. ASSUME NEW pc \in {"closeCheckin", "startCheckout", "present"}
          PROVE  LET a == [Idle EXCEPT !.pc = pc, !.s = s]
                 IN  a \in Activity /\ LocalOK(a)
      BY IdleOK, SessionsFacts DEF Idle, Activity, LocalOK, StudentPcs, WritingPcs
    <2> QED BY <1>2, <1>a, <1>b, <2>1 DEF CloseCheckin, StartCheckout, CloseSession, TypeOK
  <1>3. ASSUME NEW s \in Sessions, NEW rs \in SUBSET Students, NEW st \in Marks
        PROVE  LET a == [Idle EXCEPT !.pc = "replace", !.s = s, !.st = st,
                                     !.todo = rs \X PeriodsOf(s)]
               IN  a \in Activity /\ LocalOK(a)
    <2>1. rs \X PeriodsOf(s) \in SUBSET Pairs BY PeriodsFacts DEF Pairs
    <2> QED BY <2>1, IdleOK, SessionsFacts
            DEF Idle, Activity, LocalOK, StudentPcs, WritingPcs
  <1>4. ASSUME NEW s \in Sessions, NEW rs \in SUBSET Students, NEW st \in Marks,
               Override(s, rs, st)
        PROVE  TypeInv'
    BY <1>4, <1>3, <1>a, <1>b DEF Override, TypeOK
  <1>5. ASSUME NEW s \in Sessions, NEW r \in Students, ScanFace(s, r)
        PROVE  TypeInv'
    <2>1. {r} \in SUBSET Students /\ "Present" \in Marks BY DEF Marks
    <2> QED BY <1>5, <2>1, <1>3, <1>a, <1>b DEF ScanFace, TypeOK
  <1>6. ASSUME NEW s \in Sessions, NEW r \in Students,
               NEW pc \in {"dup", "dupToday", "checkoutInsert"}
        PROVE  LET a == [Idle EXCEPT !.pc = pc, !.s = s, !.r = r]
               IN  a \in Activity /\ LocalOK(a)
    BY IdleOK, SessionsFacts DEF Idle, Activity, LocalOK, WritingPcs
  <1>7. ASSUME NEW s \in Sessions, NEW r \in Students,
               StudentCheckin(r, s) \/ MarkAttendance(r, s)
        PROVE  TypeInv'
    BY <1>7, <1>6, <1>a, <1>b DEF StudentCheckin, MarkAttendance, TypeOK
  <1>8. ASSUME NEW s \in Sessions, NEW r \in Students, StudentCheckout(r, s)
        PROVE  TypeInv'
    <2>1. rows' \in [Pairs -> Row]
      BY <1>8, <1>a DEF StudentCheckout, TypeOK, Row, Marks
    <2> DEFINE a == IF CheckoutRows(r, s) = {}
                    THEN [Idle EXCEPT !.pc = "checkoutInsert", !.s = s, !.r = r]
                    ELSE Idle
    <2>2. a \in Activity /\ LocalOK(a) BY <1>6, IdleOK
    <2> HIDE DEF a
    <2>3. Request(a) BY <1>8 DEF StudentCheckout, a
    <2> QED BY <1>8, <2>1, <2>2, <2>3, <1>a, <1>b DEF StudentCheckout, TypeOK
  <1>9. ASSUME NEW r \in Students, NEW ps \in SUBSET Periods, GrantLeave(r, ps)
        PROVE  TypeInv'
    <2>1. {r} \X ps \in SUBSET Pairs BY DEF Pairs
    <2> DEFINE a == [Idle EXCEPT !.pc = "credit", !.r = r, !.todo = {r} \X ps]
    <2>2. a \in Activity /\ LocalOK(a)
      BY <2>1, IdleOK DEF Idle, Activity, LocalOK, SessionPcs, WritingPcs
    <2> QED BY <1>9, <2>2, <1>a, <1>b DEF GrantLeave, TypeOK
  <1> QED BY <1>1, <1>2, <1>4, <1>5, <1>7, <1>8, <1>9 DEF StaffRequest, StudentRequest

LEMMA HandlerTypes ==
    ASSUME TypeInv, HandlerStep \/ HandlerFault
    PROVE  TypeInv'
  <1> DEFINE A == act[Loop]
  <1>0. Loop \in Threads BY DEF Threads
  <1>1. A \in Activity /\ LocalOK(A) BY <1>0 DEF TypeInv, TypeOK
  <1>a. TypeOK BY DEF TypeInv
  <1>b. ASSUME NEW a \in Activity, LocalOK(a), Become(Loop, a),
               NEW extra \in SUBSET Pairs, Watch(extra),
               UNCHANGED <<clock, requests>>, faults' \in 0 .. MaxFaults,
               status' \in [Sessions -> Statuses], rows' \in [Pairs -> Row],
               excused' \in SUBSET Students
        PROVE  TypeInv'
    BY <1>0, <1>a, <1>b, BecomeOK, WatchOK DEF TypeInv, TypeOK
  <1>c. {} \in SUBSET Pairs OBVIOUS
  <1>d. status \in [Sessions -> Statuses] /\ rows \in [Pairs -> Row]
        /\ excused \in SUBSET Students /\ faults \in 0 .. MaxFaults
    BY <1>a DEF TypeOK
  \* A thread that has done one more pair, or goes on to insert it.
  <1>e. ASSUME NEW w \in A.todo
        PROVE  LET a == [A EXCEPT !.todo = @ \ {w}] IN a \in Activity /\ LocalOK(a)
    BY <1>1 DEF Activity, LocalOK
  <1>2. CASE UpdateStatus
    <2>1. status' \in [Sessions -> Statuses]
      BY <1>2, <1>d DEF UpdateStatus, Statuses
    <2> QED BY <1>2, <1>b, <1>c, <1>d, <2>1, IdleOK DEF UpdateStatus
  <1>3. CASE ReplaceDelete
    <2>1. PICK w \in A.todo :
            /\ rows' = [rows EXCEPT ![w] = NoRow]
            /\ Become(Loop, IF A.st = "none" THEN [A EXCEPT !.todo = @ \ {w}]
                            ELSE [A EXCEPT !.pc = "insert", !.r = w[1]])
            /\ UNCHANGED <<status, clock, excused, requests, faults>>
            /\ Watch({w})
      BY <1>3 DEF ReplaceDelete
    <2>2. w \in Pairs /\ w[1] \in Students BY <1>1 DEF Activity, Pairs
    <2>3. NoRow \in Row BY SizesAssumption DEF NoRow, Row, Marks
    <2> DEFINE a == [A EXCEPT !.pc = "insert", !.r = w[1]]
    <2>4. A.pc = "replace" BY <1>3 DEF ReplaceDelete
    <2>5. a \in Activity /\ LocalOK(a)
      BY <1>1, <2>2, <2>4 DEF Activity, LocalOK, SessionPcs, StudentPcs, WritingPcs
    <2>6. rows' \in [Pairs -> Row] BY <2>1, <2>2, <2>3, <1>a, RowOK
    <2>7. PICK b \in Activity : LocalOK(b) /\ Become(Loop, b)
      <3> HIDE DEF a
      <3>1. CASE A.st = "none" BY <3>1, <2>1, <1>e
      <3>2. CASE A.st # "none" BY <3>2, <2>1, <2>5 DEF a
      <3> QED BY <3>1, <3>2
    <2> QED BY <2>1, <2>2, <2>6, <2>7, <1>b, <1>d
  <1>4. CASE ReplaceInsert
    <2>1. PICK w \in A.todo :
            IF HasRow(w[1], w[2])
            THEN Become(Loop, Idle) /\ UNCHANGED rows
            ELSE /\ rows' = [rows EXCEPT ![w] = [st |-> A.st, sid |-> A.s]]
                 /\ Become(Loop, [A EXCEPT !.pc = "replace", !.r = NoStudent,
                                           !.todo = @ \ {w}])
      BY <1>4 DEF ReplaceInsert
    <2>2. w \in Pairs /\ A.pc = "insert" BY <1>1, <1>4 DEF Activity, ReplaceInsert
    <2>3. [st |-> A.st, sid |-> A.s] \in Row BY <1>1 DEF Activity, Row
    <2> DEFINE a == [A EXCEPT !.pc = "replace", !.r = NoStudent, !.todo = @ \ {w}]
    <2>4. a \in Activity /\ LocalOK(a)
      BY <1>1, <2>2 DEF Activity, LocalOK, SessionPcs, StudentPcs, WritingPcs
    <2>5. CASE HasRow(w[1], w[2])
      BY <1>4, <2>1, <2>5, <1>b, <1>c, <1>d, IdleOK DEF ReplaceInsert
    <2>6. CASE ~ HasRow(w[1], w[2])
      <3> HIDE DEF a
      <3>1. Become(Loop, a) BY <2>1, <2>6 DEF a
      <3>2. rows' \in [Pairs -> Row] BY <2>1, <2>2, <2>3, <2>6, <1>a, RowOK
      <3> QED BY <1>4, <3>1, <3>2, <2>4, <1>b, <1>c, <1>d DEF ReplaceInsert
    <2> QED BY <2>5, <2>6
  <1>5. CASE ReplaceDone
    BY <1>5, <1>b, <1>c, <1>d, IdleOK DEF ReplaceDone
  <1>6. CASE DuplicateCheck
    <2> DEFINE todo == {A.r} \X PeriodsOf(A.s)
               pc == IF A.pc = "dup" THEN "mark" ELSE "markToday"
               a == [A EXCEPT !.pc = IF @ = "dup" THEN "mark" ELSE "markToday",
                              !.todo = todo]
    <2>1. A.s \in Sessions /\ A.r \in Students
      BY <1>1, <1>6 DEF DuplicateCheck, LocalOK, SessionPcs, StudentPcs
    <2>2. todo \in SUBSET Pairs /\ \A w \in todo : w[2] \in PeriodsOf(A.s)
      BY <2>1, PeriodsFacts DEF Pairs
    <2>3. a \in Activity /\ a.pc = pc /\ a.s = A.s /\ a.todo = todo
      BY <1>1, <2>2 DEF Activity
    <2>4. LocalOK(a) BY <2>1, <2>2, <2>3 DEF LocalOK, StudentPcs
    <2>5. Become(Loop, Idle) \/ Become(Loop, a)
      BY <1>6 DEF DuplicateCheck
    <2> HIDE DEF a
    <2> QED BY <1>6, <2>3, <2>4, <2>5, <1>b, <1>c, <1>d, IdleOK DEF DuplicateCheck
  <1>7. CASE MarkPresent
    <2>1. PICK w \in A.todo :
            /\ rows' = [rows EXCEPT ![w] = [st |-> "Present", sid |-> A.s]]
            /\ Become(Loop, IF A.todo = {w} THEN Idle ELSE [A EXCEPT !.todo = @ \ {w}])
      BY <1>7 DEF MarkPresent
    <2>2. w \in Pairs /\ [st |-> "Present", sid |-> A.s] \in Row
      BY <1>1 DEF Activity, Row, Marks
    <2>3. rows' \in [Pairs -> Row] BY <2>1, <2>2, <1>a, RowOK
    <2>4. PICK b \in Activity : LocalOK(b) /\ Become(Loop, b)
      BY <2>1, <1>e, IdleOK
    <2> QED BY <1>7, <2>3, <2>4, <1>b, <1>c, <1>d DEF MarkPresent
  <1>8. CASE CheckoutInsert
    <2> DEFINE w == <<A.r, FirstOf[A.s]>>
    <2>1. A.s \in Sessions /\ A.r \in Students
      BY <1>1, <1>8 DEF CheckoutInsert, LocalOK, SessionPcs, StudentPcs
    <2>2. w \in Pairs BY <2>1, PeriodsFacts DEF Pairs
    <2>3. rows[w].sid \in 0 .. NSessions BY <2>2, <1>d DEF Row
    <2> DEFINE sid == IF HasRow(w[1], w[2]) THEN rows[w].sid ELSE A.s
               row == [st |-> "Present", sid |-> sid]
    <2>6. row \in Row
      <3>1. sid \in 0 .. NSessions BY <1>1, <2>3 DEF Activity
      <3> HIDE DEF sid
      <3> QED BY <3>1 DEF Row, Marks
    <2>4. rows' = [rows EXCEPT ![w] = row] BY <1>8 DEF CheckoutInsert
    <2> HIDE DEF row
    <2>5. rows' \in [Pairs -> Row] BY <2>2, <2>4, <2>6, <1>a, RowOK
    <2> QED BY <1>8, <2>5, <1>b, <1>c, <1>d, IdleOK DEF CheckoutInsert
  <1>9. CASE CreditPeriod
    <2>1. PICK w \in A.todo :
            /\ rows' = [rows EXCEPT ![w].st = "Excused"]
            /\ Become(Loop, [A EXCEPT !.todo = @ \ {w}])
      BY <1>9 DEF CreditPeriod
    <2>2. w \in Pairs BY <1>1 DEF Activity
    <2>3. rows' \in [Pairs -> Row] BY <2>1, <2>2, <1>d DEF Row, Marks
    <2> QED BY <1>9, <2>1, <2>3, <1>e, <1>b, <1>c, <1>d DEF CreditPeriod
  <1>10. CASE CreditDayStatus
    <2>1. A.r \in Students
      BY <1>1, <1>10 DEF CreditDayStatus, LocalOK, StudentPcs
    <2>2. excused' \in SUBSET Students BY <1>10, <2>1, <1>d DEF CreditDayStatus
    <2> QED BY <1>10, <2>2, <1>b, <1>c, <1>d, IdleOK DEF CreditDayStatus
  <1>11. CASE MarkerPeriod
    <2>1. PICK p \in Periods :
            /\ rows' =
                 IF \E s \in Sessions : status[s] \in Open /\ p \in PeriodsOf(s)
                 THEN rows
                 ELSE [w \in Pairs |->
                         IF w[2] = p /\ rows[w].st = "none"
                         THEN [st |-> IF w[1] \in excused THEN "Excused" ELSE "Absent",
                               sid |-> 0]
                         ELSE rows[w]]
            /\ Become(Loop, IF {w \in A.todo : w[2] # p} = {} THEN Idle
                            ELSE [A EXCEPT !.todo = {w \in A.todo : w[2] # p}])
      BY <1>11 DEF MarkerPeriod
    <2>2. rows' \in [Pairs -> Row] BY <2>1, <1>d, SizesAssumption DEF Row, Marks
    <2> DEFINE a == [A EXCEPT !.todo = {w \in A.todo : w[2] # p}]
    <2>3. a \in Activity /\ LocalOK(a) BY <1>1 DEF Activity, LocalOK
    <2>4. Become(Loop, Idle) \/ Become(Loop, a) BY <2>1
    <2> HIDE DEF a
    <2> QED BY <1>11, <2>2, <2>3, <2>4, <1>b, <1>c, <1>d, IdleOK DEF MarkerPeriod
  <1>12. CASE HandlerFails
    <2>1. faults' \in 0 .. MaxFaults BY <1>12, <1>d, SizesAssumption DEF HandlerFails
    <2> QED BY <1>12, <2>1, <1>b, <1>c, <1>d, IdleOK DEF HandlerFails
  <1>13. CASE UpsertSkipped
    <2>1. faults' \in 0 .. MaxFaults BY <1>13, <1>d, SizesAssumption DEF UpsertSkipped
    <2>2. PICK w \in A.todo :
            Become(Loop, Idle) \/ Become(Loop, [A EXCEPT !.todo = @ \ {w}])
      BY <1>13 DEF UpsertSkipped
    <2>3. PICK a \in Activity : LocalOK(a) /\ Become(Loop, a)
      BY <2>2, <1>e, IdleOK
    <2> QED BY <1>13, <2>1, <2>3, <1>b, <1>c, <1>d DEF UpsertSkipped
  <1> QED BY <1>2, <1>3, <1>4, <1>5, <1>6, <1>7, <1>8, <1>9, <1>10, <1>11, <1>12, <1>13
          DEF HandlerStep, HandlerFault

LEMMA TypeInvInit == Init => TypeInv
  <1> SUFFICES ASSUME Init PROVE TypeInv OBVIOUS
  <1>1. NoRow \in Row BY SizesAssumption DEF NoRow, Row, Marks
  <1>2. TypeOK BY <1>1, IdleOK, SizesAssumption DEF Init, TypeOK, Statuses
  <1>3. \A t \in Threads : LocalOK(act[t]) BY IdleOK DEF Init
  <1> QED BY <1>2, <1>3 DEF TypeInv

LEMMA TypeInvNext == TypeInv /\ [Next]_vars => TypeInv'
  <1> SUFFICES ASSUME TypeInv, [Next]_vars PROVE TypeInv' OBVIOUS
  <1>a. TypeOK BY DEF TypeInv
  <1>1. ASSUME NEW t \in Threads, AutoCloser(t) \/ CloserStep(t) \/ CloserFault(t)
        PROVE  TypeInv'
    BY <1>1, CloserTypes
  <1>2. CASE HandlerStep \/ HandlerFault BY <1>2, HandlerTypes
  <1>3. CASE StaffRequest \/ StudentRequest BY <1>3, RequestsTypes
  <1>4. CASE StartMarker
    <2> DEFINE a == [Idle EXCEPT !.pc = "sweep", !.queue = Expiring, !.upto = clock]
    <2>1. a \in Activity /\ LocalOK(a)
      BY <1>a, IdleOK
      DEF Idle, Activity, LocalOK, Expiring, SessionPcs, StudentPcs, WritingPcs, TypeOK
    <2>2. Become(Loop, a) BY <1>4 DEF StartMarker
    <2>3. Loop \in Threads BY DEF Threads
    <2> HIDE DEF a
    <2> QED BY <1>4, <1>a, <2>1, <2>2, <2>3, BecomeOK, WatchOK DEF StartMarker, TypeInv, TypeOK
  <1>5. CASE Tick
    <2>1. clock' \in 0 .. NPeriods
      BY <1>5, <1>a, SizesAssumption DEF Tick, TypeOK
    <2> QED BY <1>5, <1>a, <2>1, WatchOK DEF Tick, TypeInv, TypeOK
  <1>6. CASE Crash
    <2>1. faults' \in 0 .. MaxFaults
      BY <1>6, <1>a, SizesAssumption DEF Crash, TypeOK
    <2>2. act' \in [Threads -> Activity] /\ \A t \in Threads : LocalOK(act'[t])
      BY <1>6, IdleOK DEF Crash
    <2> QED BY <1>6, <1>a, <2>1, <2>2, WatchOK DEF Crash, TypeInv, TypeOK
  <1>7. CASE UNCHANGED vars
    BY <1>7 DEF vars, TypeInv, TypeOK
  <1> QED BY <1>1, <1>2, <1>3, <1>4, <1>5, <1>6, <1>7 DEF Next

\* Every variable keeps its type, and every running handler has a session, a
\* student and pairs of that session to work on.
THEOREM TypeCorrect == Spec => []TypeOK
  <1>1. Spec => []TypeInv BY TypeInvInit, TypeInvNext, PTL DEF Spec
  <1>2. TypeInv => TypeOK BY DEF TypeInv
  <1> QED BY <1>1, <1>2, PTL

-----------------------------------------------------------------------------
(***************************************************************************)
(* The two safety invariants.  The strengthening says what a close knows   *)
(* between its statements: after its first read everyone it must spare is  *)
(* in seen or already excused; from then on everyone is accounted for or   *)
(* still queued; and a row's session_id is a session over its period.      *)
(***************************************************************************)
SidOK == \A w \in Pairs : rows[w].sid # 0 => w[2] \in PeriodsOf(rows[w].sid)

CloseOK(t) ==
    /\ act[t].pc = "excused" =>
         /\ exempt[t] \subseteq act[t].seen \cup excused
         /\ \A r \in act[t].seen : Accounted(r, act[t].s)
    /\ act[t].pc = "absent" =>
         /\ \A w \in act[t].todo : w[1] \notin exempt[t]
         /\ \A r \in Students : \/ Accounted(r, act[t].s)
                                \/ \E w \in act[t].todo : w[1] = r

IInv == /\ TypeInv
        /\ SidOK
        /\ ClosedIsAccounted
        /\ \A t \in Threads : CloseOK(t)

\* What a step may do to rows and excused, with the pairs it clears.
RowStep(extra) ==
    /\ Watch(extra)
    /\ excused \subseteq excused'
    /\ \A w \in Pairs :
         /\ rows[w].st # "none" => rows'[w].st # "none" \/ w \in extra
         /\ rows'[w].sid # 0 => \/ rows'[w].sid = rows[w].sid
                                \/ w[2] \in PeriodsOf(rows'[w].sid)

LEMMA SameRows ==
    ASSUME NEW extra, Watch(extra), UNCHANGED rows, excused \subseteq excused'
    PROVE  RowStep(extra)
  BY DEF RowStep

LEMMA CloserRows ==
    ASSUME TypeInv, NEW t \in Threads,
           AutoCloser(t) \/ CloserStep(t) \/ CloserFault(t)
    PROVE  \E extra \in SUBSET Pairs : RowStep(extra)
  <1>1. ASSUME Watch({}), UNCHANGED <<rows, excused>>
        PROVE  \E extra \in SUBSET Pairs : RowStep(extra)
    BY <1>1, SameRows
  <1>2. CASE WriteAbsent(t)
    <2> DEFINE A == act[t]
    <2>1. PICK w \in A.todo :
            rows' = [rows EXCEPT ![w] = [st |-> "Absent", sid |-> A.s]]
      BY <1>2 DEF WriteAbsent
    <2>2. A \in Activity /\ LocalOK(A) /\ A.pc = "absent" /\ TypeOK
      BY <1>2 DEF TypeInv, TypeOK, WriteAbsent
    <2>3. w \in Pairs /\ w[2] \in PeriodsOf(A.s)
      BY <2>2 DEF Activity, LocalOK, WritingPcs
    <2>4. Watch({}) /\ UNCHANGED excused BY <1>2 DEF WriteAbsent
    <2>5. RowStep({}) BY <2>1, <2>2, <2>3, <2>4 DEF RowStep, TypeOK
    <2> QED BY <2>5
  <1>3. CASE WriteAbsentFails(t)
    <2>1. PICK w \in act[t].todo : Watch({w}) BY <1>3 DEF WriteAbsentFails
    <2>2. {w} \in SUBSET Pairs BY DEF TypeInv, TypeOK, Activity
    <2>3. RowStep({w}) BY <1>3, <2>1, SameRows DEF WriteAbsentFails
    <2> QED BY <2>2, <2>3
  <1> QED BY <1>1, <1>2, <1>3
          DEF CloserStep, AutoCloser, BeginClose, EndSweep, ReadPresent, ReadExcused,
              FinishClose, CloserFault, CloseFails

LEMMA HandlerRows ==
    ASSUME TypeInv, HandlerStep \/ HandlerFault
    PROVE  \E extra \in SUBSET Pairs : RowStep(extra)
  <1> DEFINE A == act[Loop]
  <1>0. Loop \in Threads BY DEF Threads
  <1>1. A \in Activity /\ LocalOK(A) /\ TypeOK BY <1>0 DEF TypeInv, TypeOK
  <1>a. ASSUME Watch({}), UNCHANGED rows, excused \subseteq excused'
        PROVE  \E extra \in SUBSET Pairs : RowStep(extra)
    BY <1>a, SameRows
  <1>b. ASSUME NEW w \in A.todo PROVE w \in Pairs BY <1>1 DEF Activity
  <1>2. CASE UpdateStatus \/ ReplaceDone \/ DuplicateCheck \/ HandlerFault
    BY <1>2, <1>a
    DEF UpdateStatus, ReplaceDone, DuplicateCheck, HandlerFault, HandlerFails, UpsertSkipped
  <1>3. CASE CreditDayStatus BY <1>3, <1>a DEF CreditDayStatus
  <1>4. CASE ReplaceDelete
    <2>1. PICK w \in A.todo : rows' = [rows EXCEPT ![w] = NoRow]
                              /\ Watch({w}) /\ UNCHANGED excused
      BY <1>4 DEF ReplaceDelete
    <2>2. RowStep({w}) BY <2>1, <1>1, <1>b DEF NoRow, RowStep, TypeOK
    <2> QED BY <2>2, <1>b
  <1>5. CASE ReplaceInsert
    <2>1. Watch({}) /\ UNCHANGED excused BY <1>5 DEF ReplaceInsert
    <2>2. PICK w \in A.todo :
            IF HasRow(w[1], w[2]) THEN UNCHANGED rows
            ELSE rows' = [rows EXCEPT ![w] = [st |-> A.st, sid |-> A.s]]
      BY <1>5 DEF ReplaceInsert
    <2>3. CASE HasRow(w[1], w[2]) BY <2>1, <2>2, <2>3, <1>a
    <2>4. CASE ~ HasRow(w[1], w[2])
      <3>1. w \in Pairs /\ w = <<w[1], w[2]>> BY <1>b DEF Pairs
      <3>2. rows[w].st = "none" BY <2>4, <3>1 DEF HasRow
      <3>3. w[2] \in PeriodsOf(A.s)
        BY <1>1, <1>5 DEF LocalOK, ReplaceInsert, WritingPcs
      <3>4. RowStep({}) BY <2>1, <2>2, <2>4, <3>1, <3>2, <3>3, <1>1 DEF RowStep, TypeOK
      <3> QED BY <3>4
    <2> QED BY <2>3, <2>4
  <1>6. CASE MarkPresent
    <2>1. PICK w \in A.todo : rows' = [rows EXCEPT ![w] = [st |-> "Present", sid |-> A.s]]
      BY <1>6 DEF MarkPresent
    <2>2. Watch({}) /\ UNCHANGED excused /\ w[2] \in PeriodsOf(A.s)
      BY <1>1, <1>6 DEF LocalOK, MarkPresent, WritingPcs
    <2>3. RowStep({}) BY <2>1, <2>2, <1>1, <1>b DEF RowStep, TypeOK
    <2> QED BY <2>3
  <1>7. CASE CheckoutInsert
    <2> DEFINE w == <<A.r, FirstOf[A.s]>>
               sid == IF HasRow(w[1], w[2]) THEN rows[w].sid ELSE A.s
    <2>1. A.s \in Sessions /\ A.r \in Students
      BY <1>1, <1>7 DEF CheckoutInsert, LocalOK, SessionPcs, StudentPcs
    <2>2. w \in Pairs /\ w[2] \in PeriodsOf(A.s) BY <2>1, PeriodsFacts DEF Pairs
    <2>3. rows' = [rows EXCEPT ![w] = [st |-> "Present", sid |-> sid]]
          /\ Watch({}) /\ UNCHANGED excused
      BY <1>7 DEF CheckoutInsert
    <2>4. sid = rows[w].sid \/ sid = A.s OBVIOUS
    <2> HIDE DEF w, sid
    <2>5. RowStep({}) BY <2>2, <2>3, <2>4, <1>1 DEF RowStep, TypeOK
    <2> QED BY <2>5
  <1>8. CASE CreditPeriod
    <2>1. PICK w \in A.todo : rows' = [rows EXCEPT ![w].st = "Excused"]
      BY <1>8 DEF CreditPeriod
    <2>2. Watch({}) /\ UNCHANGED excused BY <1>8 DEF CreditPeriod
    <2>3. RowStep({})
      BY <2>1, <2>2, <1>1, <1>b DEF RowStep, TypeOK, Row
    <2> QED BY <2>3
  <1>9. CASE MarkerPeriod
    <2>1. Watch({}) /\ UNCHANGED excused BY <1>9 DEF MarkerPeriod
    <2>2. PICK p \in Periods :
            \/ rows' = rows
            \/ rows' = [w \in Pairs |->
                         IF w[2] = p /\ rows[w].st = "none"
                         THEN [st |-> IF w[1] \in excused THEN "Excused" ELSE "Absent",
                               sid |-> 0]
                         ELSE rows[w]]
      BY <1>9 DEF MarkerPeriod
    <2>3. RowStep({}) BY <2>1, <2>2 DEF RowStep
    <2> QED BY <2>3
  <1> QED BY <1>2, <1>3, <1>4, <1>5, <1>6, <1>7, <1>8, <1>9 DEF HandlerStep

LEMMA NextRows == TypeInv /\ Next => \E extra \in SUBSET Pairs : RowStep(extra)
  <1> SUFFICES ASSUME TypeInv, Next PROVE \E extra \in SUBSET Pairs : RowStep(extra)
    OBVIOUS
  <1>1. ASSUME Watch({}), UNCHANGED <<rows, excused>>
        PROVE  \E extra \in SUBSET Pairs : RowStep(extra)
    BY <1>1, SameRows
  <1>2. ASSUME NEW t \in Threads, AutoCloser(t) \/ CloserStep(t) \/ CloserFault(t)
        PROVE  \E extra \in SUBSET Pairs : RowStep(extra)
    BY <1>2, CloserRows
  <1>3. CASE HandlerStep \/ HandlerFault BY <1>3, HandlerRows
  <1>4. CASE StaffRequest
    BY <1>4, <1>1
    DEF StaffRequest, StartCheckin, QuickStart, CloseCheckin, StartCheckout,
        CloseSession, Override
  <1>5. CASE StudentRequest
    <2>1. ASSUME NEW r \in Students, NEW s \in Sessions, StudentCheckout(r, s)
          PROVE  \E extra \in SUBSET Pairs : RowStep(extra)
      <3>1. RowStep({})
        BY <2>1 DEF StudentCheckout, RowStep, TypeInv, TypeOK, Row
      <3> QED BY <3>1
    <2> QED BY <1>5, <1>1, <2>1
            DEF StudentRequest, StudentCheckin, MarkAttendance, ScanFace, GrantLeave
  <1>6. CASE StartMarker \/ Tick \/ Crash
    BY <1>6, <1>1 DEF StartMarker, Tick, Crash
  <1> QED BY <1>2, <1>3, <1>4, <1>5, <1>6 DEF Next

\* Who is accounted for stays so: a row that disappears is in cleared.
LEMMA AccountedKept ==
    ASSUME NEW extra \in SUBSET Pairs, RowStep(extra),
           NEW s \in Sessions, NEW r \in Students, Accounted(r, s)
    PROVE  Accounted(r, s)'
  <1>1. CASE r \in excused BY <1>1 DEF RowStep, Accounted
  <1>2. ASSUME NEW p \in PeriodsOf(s), HasRow(r, p) \/ <<r, p>> \in cleared
        PROVE  Accounted(r, s)'
    <2>1. <<r, p>> \in Pairs BY PeriodsFacts DEF Pairs
    <2>2. rows'[<<r, p>>].st # "none" \/ <<r, p>> \in cleared'
      BY <1>2, <2>1 DEF RowStep, Watch, HasRow
    <2> QED BY <2>2 DEF Accounted, HasRow
  <1> QED BY <1>1, <1>2 DEF Accounted

\* What a close knows is kept by every step of another thread ...
LEMMA CloseKept ==
    ASSUME IInv, NEW extra \in SUBSET Pairs, RowStep(extra), NEW t \in Threads,
           act'[t] = act[t]
    PROVE  CloseOK(t)'
  <1> DEFINE A == act[t]
  <1>1. A \in Activity /\ LocalOK(A) /\ CloseOK(t) BY DEF IInv, TypeInv, TypeOK
  <1>2. CASE A.pc \in {"excused", "absent"}
    <2>1. exempt'[t] \subseteq exempt[t] BY <1>2 DEF RowStep, Watch, Closing
    <2>2. PICK s \in Sessions : s = A.s BY <1>1, <1>2 DEF LocalOK, SessionPcs
    <2>3. \A r \in Students : Accounted(r, A.s) => Accounted(r, s)'
      BY <2>2, AccountedKept
    <2>4. excused \subseteq excused' /\ A.seen \subseteq Students
      BY <1>1 DEF RowStep, Activity
    <2>5. \A r \in Students : Accounted(r, A.s) => Accounted(r, act[t].s)'
      BY <2>2, <2>3 DEF Accounted
    <2> QED BY <1>1, <2>1, <2>4, <2>5 DEF CloseOK
  <1>3. CASE A.pc \notin {"excused", "absent"} BY <1>3 DEF CloseOK
  <1> QED BY <1>2, <1>3
\* ... and by its own, read by read and row by row.
LEMMA OwnClose ==
    ASSUME IInv, NEW t \in Threads, CloserStep(t) \/ CloserFault(t),
           NEW extra \in SUBSET Pairs, RowStep(extra)
    PROVE  CloseOK(t)'
  <1> DEFINE A == act[t]
  <1>1. A \in Activity /\ LocalOK(A) /\ CloseOK(t) /\ TypeOK
    BY DEF IInv, TypeInv, TypeOK
  <1>a. ASSUME NEW a, Become(t, a) PROVE act'[t] = a
    BY <1>1, <1>a DEF Become, TypeOK
  <1>b. ASSUME NEW s \in Sessions, act'[t].s = s, A.s = s
        PROVE  \A r \in Students : Accounted(r, A.s) => Accounted(r, act[t].s)'
    <2>1. \A r \in Students : Accounted(r, s) => Accounted(r, s)' BY AccountedKept
    <2> QED BY <2>1, <1>b DEF Accounted
  <1>2. CASE BeginClose(t) \/ EndSweep(t) \/ FinishClose(t) \/ CloseFails(t)
    <2>1. CASE BeginClose(t)
      <3>1. \/ act'[t].pc = A.pc \/ act'[t].pc = "present"
        BY <1>1, <2>1 DEF BeginClose, Become, TypeOK, Activity
      <3> QED BY <2>1, <3>1 DEF BeginClose, CloseOK
    <2>2. CASE EndSweep(t)
      <3>1. act'[t].pc \in {"idle", "marker"}
        BY <1>1, <2>2 DEF EndSweep, Become, TypeOK, Idle
      <3> QED BY <3>1 DEF CloseOK
    <2>3. CASE FinishClose(t) \/ CloseFails(t)
      <3>1. act'[t].pc = "sweep"
        BY <1>1, <2>3 DEF FinishClose, CloseFails, Become, TypeOK, Idle
      <3> QED BY <3>1 DEF CloseOK
    <2> QED BY <1>2, <2>1, <2>2, <2>3
  <1>3. CASE ReadPresent(t)
    <2> DEFINE seen == {r \in Students : PresentIn(rows, r, A.s)}
               a == [A EXCEPT !.pc = "excused", !.seen = seen]
    <2>1. PICK s \in Sessions : s = A.s
      BY <1>1, <1>3 DEF ReadPresent, LocalOK, SessionPcs
    <2>2. a.pc = "excused" /\ a.s = A.s /\ a.seen = seen BY <1>1 DEF Activity
    <2>3. act'[t] = a BY <1>3, <1>a DEF ReadPresent
    <2>4. UNCHANGED <<rows, excused>> /\ Watch({}) BY <1>3 DEF ReadPresent
    <2> HIDE DEF a
    <2>5. exempt'[t] \subseteq seen \cup excused'
      BY <1>1, <2>2, <2>3, <2>4 DEF Watch, Closing, PresentIn, TypeOK
    <2>6. ASSUME NEW r \in seen PROVE Accounted(r, s)'
      <3>1. PICK p \in Periods : rows[<<r, p>>] = [st |-> "Present", sid |-> s]
        BY <2>1 DEF PresentIn
      <3>2. <<r, p>> \in Pairs /\ s # 0 BY DEF Pairs, Sessions
      <3>3. p \in PeriodsOf(s) BY <3>1, <3>2 DEF IInv, SidOK
      <3> QED BY <3>1, <3>3, <2>4 DEF Accounted, HasRow
    <2>7. \A r \in seen : Accounted(r, act[t].s)'
      BY <2>1, <2>2, <2>3, <2>6 DEF Accounted
    <2> QED BY <2>2, <2>3, <2>5, <2>7 DEF CloseOK
  <1>4. CASE ReadExcused(t)
    <2> DEFINE todo == (Students \ (A.seen \cup excused)) \X PeriodsOf(A.s)
               a == [A EXCEPT !.pc = "absent", !.todo = todo]
    <2>1. A.s \in Sessions /\ A.pc = "excused"
      BY <1>1, <1>4 DEF ReadExcused, LocalOK, SessionPcs
    <2>2. a.pc = "absent" /\ a.s = A.s /\ a.todo = todo BY <1>1 DEF Activity
    <2>3. act'[t] = a BY <1>4, <1>a DEF ReadExcused
    <2> HIDE DEF a
    <2>4. exempt'[t] \subseteq exempt[t] BY <2>1, <2>2, <2>3 DEF RowStep, Watch, Closing
    <2>5. \A w \in todo : w[1] \notin exempt'[t] BY <2>1, <2>4, <1>1 DEF CloseOK
    <2>6. ASSUME NEW r \in Students
          PROVE  Accounted(r, A.s) \/ \E w \in todo : w[1] = r
      <3>1. CASE r \in A.seen BY <3>1, <2>1, <1>1 DEF CloseOK
      <3>2. CASE r \in excused BY <3>2 DEF Accounted
      <3>3. CASE r \notin A.seen \cup excused
        <4>1. <<r, FirstOf[A.s]>> \in todo BY <3>3, <2>1, PeriodsFacts
        <4> QED BY <4>1
      <3> QED BY <3>1, <3>2, <3>3
    <2>7. \A r \in Students : Accounted(r, A.s) => Accounted(r, act[t].s)'
      BY <2>1, <2>2, <2>3, <1>b
    <2> QED BY <2>2, <2>3, <2>5, <2>6, <2>7 DEF CloseOK
  <1>5. CASE WriteAbsent(t) \/ WriteAbsentFails(t)
    <2>1. A.s \in Sessions /\ A.pc = "absent"
      BY <1>1, <1>5 DEF WriteAbsent, WriteAbsentFails, LocalOK, SessionPcs
    <2>2. PICK w \in A.todo :
            /\ Become(t, [A EXCEPT !.todo = @ \ {w}])
            /\ \/ rows' = [rows EXCEPT ![w] = [st |-> "Absent", sid |-> A.s]]
               \/ Watch({w})
      BY <1>5 DEF WriteAbsent, WriteAbsentFails
    <2> DEFINE a == [A EXCEPT !.todo = @ \ {w}]
    <2>3. a.pc = "absent" /\ a.s = A.s /\ a.todo = A.todo \ {w}
      BY <1>1, <2>1 DEF Activity
    <2>4. act'[t] = a BY <2>2, <1>a
    <2> HIDE DEF a
    <2>5. w \in Pairs /\ w = <<w[1], w[2]>> /\ w[2] \in PeriodsOf(A.s)
      BY <1>1, <2>1 DEF Activity, Pairs, LocalOK, WritingPcs
    <2>6. exempt'[t] \subseteq exempt[t] BY <2>1, <2>3, <2>4 DEF RowStep, Watch, Closing
    <2>7. rows'[w].st # "none" \/ w \in cleared'
      BY <2>2, <2>5, <1>1 DEF TypeOK, Watch
    <2>8. Accounted(w[1], act[t].s)'
      BY <2>3, <2>4, <2>5, <2>7 DEF Accounted, HasRow
    <2>9. \A r \in Students : Accounted(r, A.s) => Accounted(r, act[t].s)'
      BY <2>1, <2>3, <2>4, <1>b
    <2>10. \A r \in Students : Accounted(r, A.s) \/ \E v \in A.todo : v[1] = r
      BY <2>1, <1>1 DEF CloseOK
    <2>11. \A v \in A.todo : v[1] \notin exempt[t] BY <2>1, <1>1 DEF CloseOK
    <2> QED BY <2>3, <2>4, <2>6, <2>8, <2>9, <2>10, <2>11 DEF CloseOK
  <1> QED BY <1>2, <1>3, <1>4, <1>5 DEF CloserStep, CloserFault

\* No handler turns its thread into a closer past its first read.
LEMMA HandlerPc ==
    ASSUME TypeInv,
           HandlerStep \/ HandlerFault \/ StaffRequest \/ StudentRequest \/ StartMarker
    PROVE  /\ act'[Loop].pc \notin {"excused", "absent"}
           /\ \A t \in Threads \ {Loop} : act'[t] = act[t]
  <1> DEFINE A == act[Loop]
             Goal == /\ act'[Loop].pc \notin {"excused", "absent"}
                     /\ \A t \in Threads \ {Loop} : act'[t] = act[t]
  <1>0. Loop \in Threads BY DEF Threads
  <1>1. A \in Activity /\ act \in [Threads -> Activity] BY <1>0 DEF TypeInv, TypeOK
  <1>2. CASE UpdateStatus \/ ReplaceDone \/ CheckoutInsert \/ CreditDayStatus
    BY <1>0, <1>1, <1>2
    DEF UpdateStatus, ReplaceDone, CheckoutInsert, CreditDayStatus, Become, Idle
  <1>3. CASE ReplaceDelete
    <2>1. PICK w \in A.todo :
            Become(Loop, IF A.st = "none" THEN [A EXCEPT !.todo = @ \ {w}]
                         ELSE [A EXCEPT !.pc = "insert", !.r = w[1]])
      BY <1>3 DEF ReplaceDelete
    <2>2. CASE A.st = "none"
      BY <1>0, <1>1, <1>3, <2>1, <2>2 DEF ReplaceDelete, Become, Activity
    <2>3. CASE A.st # "none" BY <1>0, <1>1, <2>1, <2>3 DEF Become, Activity
    <2> QED BY <2>2, <2>3
  <1>4. CASE ReplaceInsert
    <2>1. PICK w \in A.todo :
            \/ Become(Loop, Idle)
            \/ Become(Loop, [A EXCEPT !.pc = "replace", !.r = NoStudent,
                                      !.todo = @ \ {w}])
      BY <1>4 DEF ReplaceInsert
    <2>2. CASE Become(Loop, Idle) BY <1>0, <1>1, <2>2 DEF Become, Idle
    <2>3. CASE Become(Loop, [A EXCEPT !.pc = "replace", !.r = NoStudent,
                                      !.todo = @ \ {w}])
      BY <1>0, <1>1, <2>3 DEF Become, Activity
    <2> QED BY <2>1, <2>2, <2>3
  <1>5. CASE DuplicateCheck BY <1>0, <1>1, <1>5 DEF DuplicateCheck, Become, Idle, Activity
  <1>6. CASE MarkPresent BY <1>0, <1>1, <1>6 DEF MarkPresent, Become, Idle, Activity
  <1>7. CASE CreditPeriod BY <1>0, <1>1, <1>7 DEF CreditPeriod, Become, Activity
  <1>8. CASE MarkerPeriod BY <1>0, <1>1, <1>8 DEF MarkerPeriod, Become, Idle, Activity
  <1>9. CASE StaffRequest
    <2>1. ASSUME NEW s \in Sessions,
                 StartCheckin(s) \/ QuickStart(s) \/ CloseCheckin(s) \/ StartCheckout(s)
                 \/ CloseSession(s)
          PROVE  Goal
      <3>1. CASE StartCheckin(s) \/ QuickStart(s)
        BY <1>0, <1>1, <3>1 DEF StartCheckin, QuickStart, Request, Become, Idle
      <3>2. CASE CloseCheckin(s) \/ StartCheckout(s)
        BY <1>0, <1>1, <3>2 DEF CloseCheckin, StartCheckout, Request, Become, Idle
      <3>3. CASE CloseSession(s)
        BY <1>0, <1>1, <3>3 DEF CloseSession, Request, Become, Idle
      <3> QED BY <2>1, <3>1, <3>2, <3>3
    <2>2. ASSUME NEW s \in Sessions, NEW rs \in SUBSET Students, NEW st \in Marks,
                 Override(s, rs, st)
          PROVE  Goal
      BY <1>0, <1>1, <2>2 DEF Override, Request, Become, Idle
    <2> HIDE DEF Goal
    <2>3. Goal BY <1>9, <2>1, <2>2 DEF StaffRequest
    <2> QED BY <2>3 DEF Goal
  <1>10. CASE StudentRequest
    <2>1. ASSUME NEW s \in Sessions, NEW r \in Students,
                 StudentCheckin(r, s) \/ MarkAttendance(r, s) \/ ScanFace(s, r)
          PROVE  Goal
      BY <1>0, <1>1, <2>1
      DEF StudentCheckin, MarkAttendance, ScanFace, Request, Become, Idle
    <2>2. ASSUME NEW s \in Sessions, NEW r \in Students, StudentCheckout(r, s)
          PROVE  Goal
      BY <1>0, <1>1, <2>2 DEF StudentCheckout, Request, Become, Idle
    <2>3. ASSUME NEW r \in Students, NEW ps \in SUBSET Periods, GrantLeave(r, ps)
          PROVE  Goal
      BY <1>0, <1>1, <2>3 DEF GrantLeave, Request, Become, Idle
    <2> HIDE DEF Goal
    <2>4. Goal BY <1>10, <2>1, <2>2, <2>3 DEF StudentRequest
    <2> QED BY <2>4 DEF Goal
  <1>11. CASE StartMarker BY <1>0, <1>1, <1>11 DEF StartMarker, Become, Idle
  <1>12. CASE HandlerFault
    BY <1>0, <1>1, <1>12
    DEF HandlerFault, HandlerFails, UpsertSkipped, Become, Idle, Activity
  <1> HIDE DEF Goal
  <1>13. Goal
    BY <1>2, <1>3, <1>4, <1>5, <1>6, <1>7, <1>8, <1>9, <1>10, <1>11, <1>12
    DEF HandlerStep, Goal
  <1> QED BY <1>13 DEF Goal

LEMMA CloseNext ==
    ASSUME IInv, Next, NEW extra \in SUBSET Pairs, RowStep(extra)
    PROVE  \A t \in Threads : CloseOK(t)'
  <1> TAKE t \in Threads
  <1>1. ASSUME NEW u \in Threads, AutoCloser(u) \/ CloserStep(u) \/ CloserFault(u)
        PROVE  CloseOK(t)'
    <2>1. CASE u # t
      <3>1. act'[t] = act[t]
        BY <1>1, <2>1
        DEF AutoCloser, CloserStep, CloserFault, WriteAbsentFails, CloseFails, BeginClose, EndSweep, ReadPresent,
            ReadExcused, WriteAbsent, FinishClose, Become, IInv, TypeInv, TypeOK
      <3> QED BY <3>1, CloseKept
    <2>2. CASE u = t /\ AutoCloser(t)
      <3>1. act'[t].pc = "sweep"
        BY <2>2 DEF AutoCloser, Become, IInv, TypeInv, TypeOK, Idle
      <3> QED BY <3>1 DEF CloseOK
    <2>3. CASE u = t /\ ~ AutoCloser(t) BY <1>1, <2>3, OwnClose
    <2> QED BY <2>1, <2>2, <2>3
  <1>2. CASE HandlerStep \/ HandlerFault \/ StaffRequest \/ StudentRequest \/ StartMarker
    <2>1. act'[t] = act[t] \/ act'[t].pc \notin {"excused", "absent"}
      BY <1>2, HandlerPc DEF IInv
    <2> QED BY <2>1, CloseKept DEF CloseOK
  <1>3. CASE Tick
    <2>1. act'[t] = act[t] BY <1>3 DEF Tick
    <2> QED BY <2>1, CloseKept
  <1>4. CASE Crash
    <2>1. act'[t].pc = "idle" BY <1>4 DEF Crash, Idle
    <2> QED BY <2>1 DEF CloseOK
  <1> QED BY <1>1, <1>2, <1>3, <1>4 DEF Next

\* Only the last step of a close writes "closed".
LEMMA ClosedBy ==
    ASSUME TypeInv, Next, NEW s \in Sessions, status'[s] = "closed"
    PROVE  status[s] = "closed" \/ \E t \in Threads : FinishClose(t) /\ act[t].s = s
  <1>0. status \in [Sessions -> Statuses] BY DEF TypeInv, TypeOK
  <1>1. ASSUME NEW t \in Threads, AutoCloser(t) \/ CloserStep(t) \/ CloserFault(t)
        PROVE  \/ status' = status
               \/ FinishClose(t) /\ (act[t].s = s \/ status'[s] = status[s])
    BY <1>0, <1>1
    DEF AutoCloser, CloserStep, CloserFault, WriteAbsentFails, CloseFails, BeginClose,
        EndSweep, ReadPresent, ReadExcused, WriteAbsent, FinishClose
  <1>2. CASE HandlerStep \/ HandlerFault
    BY <1>0, <1>2
    DEF HandlerStep, HandlerFault, HandlerFails, UpsertSkipped, UpdateStatus, ReplaceDelete, ReplaceInsert, ReplaceDone,
        DuplicateCheck, MarkPresent, CheckoutInsert, CreditPeriod, CreditDayStatus,
        MarkerPeriod
  <1>3. CASE StaffRequest
    BY <1>0, <1>3
    DEF StaffRequest, StartCheckin, QuickStart, CloseCheckin, StartCheckout,
        CloseSession, Override
  <1>4. CASE StudentRequest
    BY <1>4
    DEF StudentRequest, StudentCheckin, MarkAttendance, StudentCheckout, ScanFace,
        GrantLeave
  <1>5. CASE StartMarker \/ Tick \/ Crash BY <1>5 DEF StartMarker, Tick, Crash
  <1> QED BY <1>1, <1>2, <1>3, <1>4, <1>5 DEF Next
LEMMA IInvInit == Init => IInv
  <1> SUFFICES ASSUME Init PROVE IInv OBVIOUS
  <1>1. TypeInv BY TypeInvInit
  <1>2. SidOK BY DEF Init, SidOK, NoRow
  <1>3. ClosedIsAccounted BY DEF Init, ClosedIsAccounted
  <1>4. \A t \in Threads : CloseOK(t) BY DEF Init, CloseOK, Idle
  <1> QED BY <1>1, <1>2, <1>3, <1>4 DEF IInv

LEMMA IInvNext == IInv /\ [Next]_vars => IInv'
  <1> SUFFICES ASSUME IInv, [Next]_vars PROVE IInv' OBVIOUS
  <1>1. TypeInv' BY TypeInvNext DEF IInv
  <1>2. CASE Next
    <2>1. PICK extra \in SUBSET Pairs : RowStep(extra) BY <1>2, NextRows DEF IInv
    <2>2. SidOK' BY <2>1 DEF IInv, SidOK, RowStep
    <2>3. ClosedIsAccounted'
      <3> SUFFICES ASSUME NEW s \in Sessions, NEW r \in Students, status'[s] = "closed"
                   PROVE  Accounted(r, s)'
        BY DEF ClosedIsAccounted
      <3>1. Accounted(r, s)
        <4>1. CASE status[s] = "closed" BY <4>1 DEF IInv, ClosedIsAccounted
        <4>2. ASSUME NEW t \in Threads, FinishClose(t), act[t].s = s
              PROVE  Accounted(r, s)
          BY <4>2 DEF FinishClose, IInv, CloseOK
        <4> QED BY <1>2, <4>1, <4>2, ClosedBy DEF IInv
      <3> QED BY <2>1, <3>1, AccountedKept
    <2>4. \A t \in Threads : CloseOK(t)' BY <1>2, <2>1, CloseNext
    <2> QED BY <1>1, <2>2, <2>3, <2>4 DEF IInv
  <1>3. CASE UNCHANGED vars
    <2>1. SidOK' BY <1>3 DEF vars, IInv, SidOK
    <2>2. ClosedIsAccounted'
      BY <1>3 DEF vars, IInv, ClosedIsAccounted, Accounted, HasRow
    <2>3. \A t \in Threads : CloseOK(t)'
      BY <1>3 DEF vars, IInv, CloseOK, Accounted, HasRow
    <2> QED BY <1>1, <2>1, <2>2, <2>3 DEF IInv
  <1> QED BY <1>2, <1>3

\* A close never queues for an absent mark a student who has been checked in
\* or excused ever since it began.
THEOREM ExemptSafe == Spec => []ExemptNeverQueued
  <1>1. Spec => []IInv BY IInvInit, IInvNext, PTL DEF Spec
  <1>2. IInv => ExemptNeverQueued BY DEF IInv, CloseOK, ExemptNeverQueued
  <1> QED BY <1>1, <1>2, PTL

\* Whatever closers ran side by side, crashed or failed a statement: every
\* student of a closed session is accounted for.
THEOREM ClosedSafe == Spec => []ClosedIsAccounted
  <1>1. Spec => []IInv BY IInvInit, IInvNext, PTL DEF Spec
  <1>2. IInv => ClosedIsAccounted BY DEF IInv
  <1> QED BY <1>1, <1>2, PTL
\* Only the creation of a session opens its check-in.
LEMMA OpenedBy ==
    ASSUME TypeInv, Next, NEW s \in Sessions, status'[s] = "checkin_open"
    PROVE  status[s] \in {"none", "checkin_open"}
  <1>0. status \in [Sessions -> Statuses] BY DEF TypeInv, TypeOK
  <1>1. ASSUME NEW t \in Threads, AutoCloser(t) \/ CloserStep(t) \/ CloserFault(t)
        PROVE  status' = status \/ status' = [status EXCEPT ![act[t].s] = "closed"]
    BY <1>1
    DEF AutoCloser, CloserStep, CloserFault, WriteAbsentFails, CloseFails, BeginClose,
        EndSweep, ReadPresent, ReadExcused, WriteAbsent, FinishClose
  <1>2. CASE HandlerStep \/ HandlerFault
    BY <1>0, <1>2
    DEF HandlerStep, HandlerFault, HandlerFails, UpsertSkipped, UpdateStatus, ReplaceDelete, ReplaceInsert, ReplaceDone,
        DuplicateCheck, MarkPresent, CheckoutInsert, CreditPeriod, CreditDayStatus,
        MarkerPeriod
  <1>3. CASE StaffRequest
    BY <1>0, <1>3
    DEF StaffRequest, StartCheckin, QuickStart, CloseCheckin, StartCheckout,
        CloseSession, Override, Creatable
  <1>4. CASE StudentRequest
    BY <1>4
    DEF StudentRequest, StudentCheckin, MarkAttendance, StudentCheckout, ScanFace,
        GrantLeave
  <1>5. CASE StartMarker \/ Tick \/ Crash BY <1>5 DEF StartMarker, Tick, Crash
  <1> QED BY <1>0, <1>1, <1>2, <1>3, <1>4, <1>5 DEF Next

\* No stale UPDATE, resumed session or restart opens a check-in again.
THEOREM CheckinSafe == Spec => CheckinNeverReopens
  <1> DEFINE Kept == \A s \in Sessions :
                       status'[s] = "checkin_open" => status[s] \in {"none", "checkin_open"}
  <1>1. TypeInv /\ [Next]_vars => [Kept]_vars BY OpenedBy
  <1>2. TypeInv /\ [Next]_vars => TypeInv' BY TypeInvNext
  <1>3. Init => TypeInv BY TypeInvInit
  <1> QED BY <1>1, <1>2, <1>3, PTL DEF Spec, CheckinNeverReopens

-----------------------------------------------------------------------------
(* The times of the periods (PeriodConfig). *)

\* The rows: one for a scope and semester type, none saved later than now.
RowsOK ==
    /\ \A r \in pcRows : /\ KeyOf(r) \in PKeys /\ r.type \in Types /\ r.cfg \in Configs
                         /\ r.at \in 0 .. saves
    /\ \A r, s \in pcRows : KeyOf(r) = KeyOf(s) /\ r.type = s.type => r = s
    /\ saves \in 0 .. MaxSaves
    /\ windows \in [Depts -> Configs \cup {Standard, NoConfig}]

LEMMA KeyInKeys ==
    ASSUME NEW k \in PKeys, NEW scope
    PROVE  ScopeKey(scope, k) \in PKeys
  BY DEF PKeys, ScopeKey

\* The new row of a save.
RowAt(key, type, g) ==
    [dept |-> key.dept, batch |-> key.batch, sem |-> key.sem, sec |-> key.sec, type |-> type, cfg |-> g,
     at |-> saves + 1]

LEMMA SavedRow ==
    ASSUME NEW key \in PKeys, NEW type, NEW g
    PROVE  /\ KeyOf(RowAt(key, type, g)) = key /\ RowAt(key, type, g).type = type
           /\ RowAt(key, type, g).cfg = g /\ RowAt(key, type, g).at = saves + 1
  BY DEF PKeys, KeyOf, RowAt

LEMMA RowsStep ==
    ASSUME PeriodSettings, RowsOK, [PcNext]_pcVars
    PROVE  RowsOK'
  <1>1. ASSUME NEW scope \in Scopes, NEW k \in PKeys, NEW type \in Types, NEW g \in Configs,
               Save(scope, k, type, g)
        PROVE  RowsOK'
    <2> DEFINE key == ScopeKey(scope, k)
               old == {r \in pcRows : KeyOf(r) = key /\ r.type = type}
               new == RowAt(key, type, g)
    <2>1. /\ pcRows' = (pcRows \ old) \cup {new} /\ saves' = saves + 1 /\ saves < MaxSaves
          /\ windows' = windows
      BY <1>1 DEF Save, RowAt
    <2>2. key \in PKeys BY KeyInKeys
    <2>3. KeyOf(new) = key /\ new.type = type /\ new.cfg = g /\ new.at = saves + 1 BY <2>2, SavedRow
    <2>4. saves \in Nat BY DEF RowsOK, PeriodSettings
    <2> HIDE DEF new, key
    <2>5. \A r \in pcRows' : r = new \/ (r \in pcRows /\ ~(KeyOf(r) = key /\ r.type = type)) BY <2>1
    <2>6. ASSUME NEW r \in pcRows'
          PROVE  KeyOf(r) \in PKeys /\ r.type \in Types /\ r.cfg \in Configs /\ r.at \in 0 .. saves'
      <3>1. CASE r = new BY <2>1, <2>2, <2>3, <2>4, <3>1
      <3>2. CASE r \in pcRows
        <4>1. KeyOf(r) \in PKeys /\ r.type \in Types /\ r.cfg \in Configs /\ r.at \in 0 .. saves
          BY <3>2 DEF RowsOK
        <4>2. 0 .. saves \subseteq 0 .. saves' BY <2>1, <2>4
        <4> QED BY <4>1, <4>2
      <3> QED BY <2>5, <3>1, <3>2
    <2>7. ASSUME NEW r \in pcRows', NEW s \in pcRows', KeyOf(r) = KeyOf(s), r.type = s.type
          PROVE  r = s
      BY <2>3, <2>5, <2>7 DEF RowsOK
    <2>8. saves' \in 0 .. MaxSaves BY <2>1, <2>4 DEF PeriodSettings
    <2> QED BY <2>1, <2>6, <2>7, <2>8 DEF RowsOK
  <1>2. ASSUME NEW k \in PKeys, NEW type \in Types, Reset(k, type) PROVE RowsOK'
    <2>1. pcRows' \subseteq pcRows /\ saves' = saves + 1 /\ saves < MaxSaves /\ windows' = windows
      BY <1>2 DEF Reset
    <2>2. saves \in Nat BY DEF RowsOK, PeriodSettings
    <2> QED BY <2>1, <2>2 DEF RowsOK, PeriodSettings
  <1>3. ASSUME NEW d \in Depts, ComputePeriodTimes(d) PROVE RowsOK'
    <2>1. UNCHANGED <<pcRows, saves>> BY <1>3 DEF ComputePeriodTimes
    <2>2. PICK r \in pcRows : windows' = [windows EXCEPT ![d] = r.cfg] BY <1>3 DEF ComputePeriodTimes
    <2>3. r.cfg \in Configs BY DEF RowsOK
    <2>4. windows' \in [Depts -> Configs \cup {Standard, NoConfig}] BY <2>2, <2>3 DEF RowsOK
    <2> QED BY <2>1, <2>4 DEF RowsOK
  <1>4. ASSUME NEW d \in Depts, Expire(d) PROVE RowsOK'
    <2>1. UNCHANGED <<pcRows, saves>> /\ windows' = [windows EXCEPT ![d] = NoConfig] BY <1>4 DEF Expire
    <2>2. windows' \in [Depts -> Configs \cup {Standard, NoConfig}] BY <2>1 DEF RowsOK
    <2> QED BY <2>1, <2>2 DEF RowsOK
  <1>5. CASE UNCHANGED pcVars BY <1>5 DEF pcVars, RowsOK
  <1> QED BY <1>1, <1>2, <1>3, <1>4, <1>5 DEF PcNext

LEMMA RowsInit ==
    ASSUME PeriodSettings, PcInit
    PROVE  RowsOK /\ \A r \in pcRows : Whole(r) /\ r.type = "all"
  <1> DEFINE Seed(d, g) == [dept |-> d, batch |-> "all", sem |-> 0, sec |-> "all", type |-> "all", cfg |-> g, at |-> 0]
  <1>1. ASSUME NEW r \in pcRows
        PROVE  \E d \in Depts : \E g \in Seeded[d] : r = Seed(d, g)
    BY DEF PcInit
  <1>2. ASSUME NEW r \in pcRows
        PROVE  /\ KeyOf(r) \in PKeys /\ r.type = "all" /\ r.cfg \in Configs /\ r.at = 0 /\ Whole(r)
               /\ r.dept \in Depts /\ r.cfg \in Seeded[r.dept]
               /\ KeyOf(r).dept = r.dept
    BY <1>1 DEF KeyOf, PKeys, Whole, PeriodSettings
  <1>3. ASSUME NEW r \in pcRows, NEW s \in pcRows, KeyOf(r) = KeyOf(s) PROVE r = s
    <2>1. r.dept = s.dept /\ r.cfg = s.cfg BY <1>2, <1>3 DEF PeriodSettings
    <2> QED BY <1>1, <2>1
  <1>4. windows \in [Depts -> Configs \cup {Standard, NoConfig}] /\ saves = 0 BY DEF PcInit
  <1>5. "all" \in Types /\ saves \in 0 .. MaxSaves /\ 0 \in 0 .. saves BY <1>4 DEF PeriodSettings
  <1> QED BY <1>2, <1>3, <1>4, <1>5 DEF RowsOK

LEMMA RowsHold ==
    ASSUME PeriodSettings
    PROVE  PcSpec => []RowsOK
  <1>1. PcInit => RowsOK BY RowsInit
  <1>2. RowsOK /\ [PcNext]_pcVars => RowsOK' BY RowsStep
  <1> QED BY <1>1, <1>2, PTL DEF PcSpec

-----------------------------------------------------------------------------
\* The four levels of a class, from its own configuration to the department's.
Level(c, i) == CASE i = 1 -> c
                 [] i = 2 -> ScopeKey("semester", c)
                 [] i = 3 -> ScopeKey("batch", c)
                 [] OTHER -> ScopeKey("dept", c)
\* What the query gives a row of each of them.
Points(i) == 50 - 10 * i

LEMMA KeyExcept ==
    ASSUME NEW a, NEW b, NEW s, NEW e, NEW k, k = [dept |-> a, batch |-> b, sem |-> s, sec |-> e], NEW x
    PROVE  /\ [k EXCEPT !.batch = x] = [dept |-> a, batch |-> x, sem |-> s, sec |-> e]
           /\ [k EXCEPT !.sem = x] = [dept |-> a, batch |-> b, sem |-> x, sec |-> e]
           /\ [k EXCEPT !.sec = x] = [dept |-> a, batch |-> b, sem |-> s, sec |-> x]
  OBVIOUS

LEMMA LevelKeys ==
    ASSUME NEW c \in PClasses
    PROVE  /\ Level(c, 1) = c
           /\ Level(c, 2) = [dept |-> c.dept, batch |-> c.batch, sem |-> c.sem, sec |-> "all"]
           /\ Level(c, 3) = [dept |-> c.dept, batch |-> c.batch, sem |-> 0, sec |-> "all"]
           /\ Level(c, 4) = [dept |-> c.dept, batch |-> "all", sem |-> 0, sec |-> "all"]
  <1>1. Level(c, 1) = c /\ Level(c, 2) = ScopeKey("semester", c) /\ Level(c, 3) = ScopeKey("batch", c)
        /\ Level(c, 4) = ScopeKey("dept", c)
    BY DEF Level
  <1>2. /\ ScopeKey("semester", c) = [c EXCEPT !.sec = "all"]
        /\ ScopeKey("batch", c) = [c EXCEPT !.sem = 0, !.sec = "all"]
        /\ ScopeKey("dept", c) = [c EXCEPT !.batch = "all", !.sem = 0, !.sec = "all"]
    BY DEF ScopeKey
  <1>3. c = [dept |-> c.dept, batch |-> c.batch, sem |-> c.sem, sec |-> c.sec] BY DEF PClasses
  <1>4. [c EXCEPT !.sec = "all"] = [dept |-> c.dept, batch |-> c.batch, sem |-> c.sem, sec |-> "all"]
    BY <1>3
  <1>5. [c EXCEPT !.sem = 0, !.sec = "all"] = [dept |-> c.dept, batch |-> c.batch, sem |-> 0, sec |-> "all"]
    <2> DEFINE d == [c EXCEPT !.sem = 0]
    <2>1. d = [dept |-> c.dept, batch |-> c.batch, sem |-> 0, sec |-> c.sec] BY <1>3, KeyExcept
    <2>2. [c EXCEPT !.sem = 0, !.sec = "all"] = [d EXCEPT !.sec = "all"] OBVIOUS
    <2> HIDE DEF d
    <2>3. [d EXCEPT !.sec = "all"] = [dept |-> c.dept, batch |-> c.batch, sem |-> 0, sec |-> "all"]
      BY <2>1, KeyExcept
    <2> QED BY <2>2, <2>3
  <1>6. [c EXCEPT !.batch = "all", !.sem = 0, !.sec = "all"]
          = [dept |-> c.dept, batch |-> "all", sem |-> 0, sec |-> "all"]
    <2> DEFINE d == [c EXCEPT !.batch = "all"]
               e == [d EXCEPT !.sem = 0]
    <2>1. d = [dept |-> c.dept, batch |-> "all", sem |-> c.sem, sec |-> c.sec] BY <1>3, KeyExcept
    <2>2. [c EXCEPT !.batch = "all", !.sem = 0, !.sec = "all"] = [e EXCEPT !.sec = "all"] OBVIOUS
    <2> HIDE DEF d
    <2>3. e = [dept |-> c.dept, batch |-> "all", sem |-> 0, sec |-> c.sec] BY <2>1, KeyExcept
    <2> HIDE DEF e
    <2>4. [e EXCEPT !.sec = "all"] = [dept |-> c.dept, batch |-> "all", sem |-> 0, sec |-> "all"]
      BY <2>3, KeyExcept
    <2> QED BY <2>2, <2>4
  <1> QED BY <1>1, <1>2, <1>4, <1>5, <1>6

LEMMA LevelFields ==
    ASSUME NEW c \in PClasses, NEW i \in 1 .. 4
    PROVE  /\ Level(c, i).dept = c.dept
           /\ Level(c, i).batch = IF i = 4 THEN "all" ELSE c.batch
           /\ Level(c, i).sem = IF i >= 3 THEN 0 ELSE c.sem
           /\ Level(c, i).sec = IF i >= 2 THEN "all" ELSE c.sec
  <1>1. i = 1 \/ i = 2 \/ i = 3 \/ i = 4 OBVIOUS
  <1>2. CASE i = 1 BY <1>2, LevelKeys
  <1>3. CASE i = 2 BY <1>3, LevelKeys
  <1>4. CASE i = 3 BY <1>4, LevelKeys
  <1>5. CASE i = 4 BY <1>5, LevelKeys
  <1> QED BY <1>1, <1>2, <1>3, <1>4, <1>5

\* The score of a candidate says at which level it is.
LEMMA ScoreLevel ==
    ASSUME PeriodSettings, NEW c \in PClasses, NEW r \in pcRows, RowsOK
    PROVE  /\ \A i \in 1 .. 4 : KeyOf(r) = Level(c, i) => r \in Candidates(c)
           /\ r \in Candidates(c) =>
                /\ Score(r, c) \in {1, 10, 20, 30, 40}
                /\ \A i \in 1 .. 4 : KeyOf(r) = Level(c, i) <=> Score(r, c) = Points(i)
  <1> DEFINE k == KeyOf(r)
  <1>1. /\ c.dept \in Depts /\ c.batch \in PBatches /\ c.sem \in Sems /\ c.sec \in Secs
        /\ c = [dept |-> c.dept, batch |-> c.batch, sem |-> c.sem, sec |-> c.sec]
    BY DEF PClasses
  <1>2. c.batch # "all" /\ c.sec # "all" /\ c.sem # 0 BY <1>1 DEF PeriodSettings
  <1>3. KeyOf(r) = [dept |-> r.dept, batch |-> r.batch, sem |-> r.sem, sec |-> r.sec] BY DEF KeyOf
  <1>4. /\ KeyOf(r) = Level(c, 1) <=> r.dept = c.dept /\ r.batch = c.batch /\ r.sem = c.sem /\ r.sec = c.sec
        /\ KeyOf(r) = Level(c, 2) <=> r.dept = c.dept /\ r.batch = c.batch /\ r.sem = c.sem /\ r.sec = "all"
        /\ KeyOf(r) = Level(c, 3) <=> r.dept = c.dept /\ r.batch = c.batch /\ r.sem = 0 /\ r.sec = "all"
        /\ KeyOf(r) = Level(c, 4) <=> r.dept = c.dept /\ r.batch = "all" /\ r.sem = 0 /\ r.sec = "all"
    <2>1. KeyOf(r) = Level(c, 1) <=> r.dept = c.dept /\ r.batch = c.batch /\ r.sem = c.sem /\ r.sec = c.sec
      BY <1>1, <1>3, LevelKeys
    <2>2. KeyOf(r) = Level(c, 2) <=> r.dept = c.dept /\ r.batch = c.batch /\ r.sem = c.sem /\ r.sec = "all"
      BY <1>3, LevelKeys
    <2>3. KeyOf(r) = Level(c, 3) <=> r.dept = c.dept /\ r.batch = c.batch /\ r.sem = 0 /\ r.sec = "all"
      BY <1>3, LevelKeys
    <2>4. KeyOf(r) = Level(c, 4) <=> r.dept = c.dept /\ r.batch = "all" /\ r.sem = 0 /\ r.sec = "all"
      BY <1>3, LevelKeys
    <2> QED BY <2>1, <2>2, <2>3, <2>4
  <1>5. ASSUME NEW i \in 1 .. 4, KeyOf(r) = Level(c, i) PROVE r \in Candidates(c)
    BY <1>4, <1>5 DEF Candidates
  <1>6. ASSUME r \in Candidates(c)
        PROVE  Score(r, c) \in {1, 10, 20, 30, 40}
    BY DEF Score
  <1>7. ASSUME r \in Candidates(c), NEW i \in 1 .. 4
        PROVE  KeyOf(r) = Level(c, i) <=> Score(r, c) = Points(i)
    <2>1. r.dept = c.dept BY <1>7 DEF Candidates
    <2>2. CASE i = 1 BY <1>2, <1>4, <2>1, <2>2 DEF Score, Points, Whole
    <2>3. CASE i = 2 BY <1>2, <1>4, <2>1, <2>3 DEF Score, Points, Whole
    <2>4. CASE i = 3 BY <1>2, <1>4, <2>1, <2>4 DEF Score, Points, Whole
    <2>5. CASE i = 4 BY <1>2, <1>4, <2>1, <2>5 DEF Score, Points, Whole
    <2> QED BY <2>2, <2>3, <2>4, <2>5
  <1> QED BY <1>5, <1>6, <1>7

\* The most specific level with a row decides.
LEMMA LevelDecides ==
    ASSUME PeriodSettings, RowsOK, NEW c \in PClasses, NEW i \in 1 .. 4,
           RowsAt(Level(c, i)) # {}, \A j \in 1 .. 4 : RowsAt(Level(c, j)) # {} => i <= j
    PROVE  ForClass(c) = Newest(RowsAt(Level(c, i))).cfg
  <1> DEFINE C == Candidates(c)
             B == {r \in C : \A s \in C : Score(s, c) <= Score(r, c)}
  <1>1. C \subseteq pcRows BY DEF Candidates
  <1>2. PICK r0 \in pcRows : KeyOf(r0) = Level(c, i) BY DEF RowsAt
  <1>3. r0 \in C /\ Score(r0, c) = Points(i) BY <1>2, ScoreLevel
  <1>4. ASSUME NEW s \in C PROVE Score(s, c) <= Points(i)
    <2>1. s \in pcRows BY <1>1
    <2>2. Score(s, c) \in {1, 10, 20, 30, 40} BY <2>1, <1>4, ScoreLevel
    <2>3. \A j \in 1 .. 4 : Score(s, c) = Points(j) => i <= j
      <3> SUFFICES ASSUME NEW j \in 1 .. 4, Score(s, c) = Points(j) PROVE i <= j OBVIOUS
      <3>1. KeyOf(s) = Level(c, j) BY <2>1, <1>4, ScoreLevel
      <3>2. s \in RowsAt(Level(c, j)) BY <2>1, <3>1 DEF RowsAt
      <3> QED BY <3>2
    <2>4. \/ Score(s, c) = 1 \/ \E j \in 1 .. 4 : Score(s, c) = Points(j)
      <3>1. Points(1) = 40 /\ Points(2) = 30 /\ Points(3) = 20 /\ Points(4) = 10 BY DEF Points
      <3> QED BY <2>2, <3>1
    <2> QED BY <2>3, <2>4 DEF Points
  <1>5. ASSUME NEW r \in C PROVE (\A s \in C : Score(s, c) <= Score(r, c)) <=> Score(r, c) = Points(i)
    <2>1. r \in pcRows BY <1>1
    <2>2. Score(r, c) \in Int BY <2>1, <1>5, ScoreLevel
    <2> QED BY <1>3, <1>4, <2>2 DEF Points
  <1>6. B = RowsAt(Level(c, i))
    <2>1. ASSUME NEW r \in B PROVE r \in RowsAt(Level(c, i))
      <3>1. r \in C /\ r \in pcRows /\ Score(r, c) = Points(i) BY <1>1, <1>5
      <3> QED BY <3>1, ScoreLevel DEF RowsAt
    <2>2. ASSUME NEW r \in RowsAt(Level(c, i)) PROVE r \in B
      <3>1. r \in pcRows /\ KeyOf(r) = Level(c, i) BY DEF RowsAt
      <3>2. r \in C /\ Score(r, c) = Points(i) BY <3>1, ScoreLevel
      <3> QED BY <1>5, <3>2
    <2> QED BY <2>1, <2>2
  <1>7. ForClass(c) = Newest(B).cfg BY <1>3 DEF ForClass, Best
  <1> QED BY <1>6, <1>7

\* The documented hierarchy holds for every class (get_period_config's ORDER BY
\* over the candidate rows): its own configuration, else the semester's, the
\* batch's, the department's, the newest of each, whatever was saved and reset.
THEOREM HierarchySafe ==
    ASSUME PeriodSettings
    PROVE  PcSpec => [](PcTypeOK /\ Hierarchy)
  <1>1. RowsOK => PcTypeOK
    <2> SUFFICES ASSUME RowsOK PROVE PcTypeOK OBVIOUS
    <2>1. 0 .. saves \subseteq 0 .. MaxSaves BY DEF RowsOK, PeriodSettings
    <2> QED BY <2>1 DEF RowsOK, PcTypeOK
  <1>2. RowsOK => Hierarchy
    <2> SUFFICES ASSUME RowsOK, NEW c \in PClasses
                 PROVE  LET levels == <<RowsAt(c), RowsAt(ScopeKey("semester", c)), RowsAt(ScopeKey("batch", c)),
                                        RowsAt(ScopeKey("dept", c))>>
                            found == {i \in 1 .. 4 : levels[i] # {}}
                        IN  found # {} => ForClass(c) = Newest(levels[Min(found)]).cfg
      BY DEF Hierarchy
    <2> DEFINE levels == <<RowsAt(c), RowsAt(ScopeKey("semester", c)), RowsAt(ScopeKey("batch", c)),
                           RowsAt(ScopeKey("dept", c))>>
               found == {i \in 1 .. 4 : levels[i] # {}}
    <2>1. \A i \in 1 .. 4 : levels[i] = RowsAt(Level(c, i)) BY DEF Level
    <2> HIDE DEF levels
    <2>2. ASSUME found # {} PROVE ForClass(c) = Newest(levels[Min(found)]).cfg
      <3>1. \E m \in found : \A j \in found : m <= j
        <4>1. PICK i \in found : TRUE BY <2>2
        <4> QED BY <4>1
      <3>2. Min(found) \in found /\ \A j \in found : Min(found) <= j BY <3>1 DEF Min
      <3> DEFINE m == Min(found)
      <3>3. m \in 1 .. 4 /\ RowsAt(Level(c, m)) # {} BY <2>1, <3>2
      <3>4. \A j \in 1 .. 4 : RowsAt(Level(c, j)) # {} => m <= j BY <2>1, <3>2
      <3> HIDE DEF m
      <3>5. ForClass(c) = Newest(RowsAt(Level(c, m))).cfg BY <3>3, <3>4, LevelDecides
      <3> QED BY <2>1, <3>3, <3>5 DEF m
    <2> QED BY <2>2 DEF levels
  <1> QED BY <1>1, <1>2, RowsHold, PTL

-----------------------------------------------------------------------------
\* What decides a class's configuration, as a fact of every state.
LevelsDecide ==
    RowsOK => \A c \in PClasses, i \in 1 .. 4 :
      RowsAt(Level(c, i)) # {} /\ (\A j \in 1 .. 4 : RowsAt(Level(c, j)) # {} => i <= j)
        => ForClass(c) = Newest(RowsAt(Level(c, i))).cfg

LEMMA LevelsHold ==
    ASSUME PeriodSettings
    PROVE  LevelsDecide
  BY LevelDecides DEF LevelsDecide

\* The key of a save for a class is at one of its levels, and every class in the
\* scope of the save has it at that level.
LEMMA SavedLevel ==
    ASSUME PeriodSettings, NEW k \in PClasses, NEW scope \in Scopes
    PROVE  \E i \in 1 .. 4 :
             /\ ScopeKey(scope, k) = Level(k, i)
             /\ \A c \in PClasses : InScope(c, ScopeKey(scope, k)) => Level(c, i) = Level(k, i)
             /\ \A c \in PClasses, j \in 1 .. 4 : j < i => Level(c, j) # Level(k, i)
  <1>1. scope \in {"dept", "batch", "semester", "class"} BY DEF PeriodSettings
  <1>2. \A c \in PClasses : /\ c.batch # "all" /\ c.sec # "all" /\ c.sem # 0
                           /\ c = [dept |-> c.dept, batch |-> c.batch, sem |-> c.sem, sec |-> c.sec]
    BY DEF PeriodSettings, PClasses
  <1>3. CASE scope = "class"
    <2>1. ScopeKey(scope, k) = Level(k, 1) BY <1>3 DEF ScopeKey, Level
    <2>2. ASSUME NEW c \in PClasses, InScope(c, k) PROVE c = k BY <1>2, <2>2 DEF InScope
    <2> QED BY <2>1, <2>2, LevelKeys
  <1>4. CASE scope = "semester"
    <2>1. ScopeKey(scope, k) = Level(k, 2) BY <1>4 DEF ScopeKey, Level
    <2>2. ASSUME NEW c \in PClasses, InScope(c, Level(k, 2)) PROVE Level(c, 2) = Level(k, 2)
      BY <1>2, <2>2, LevelKeys DEF InScope
    <2>3. ASSUME NEW c \in PClasses PROVE Level(c, 1) # Level(k, 2) BY <1>2, LevelKeys
    <2> QED BY <2>1, <2>2, <2>3
  <1>5. CASE scope = "batch"
    <2>1. ScopeKey(scope, k) = Level(k, 3) BY <1>5 DEF ScopeKey, Level
    <2>2. ASSUME NEW c \in PClasses, InScope(c, Level(k, 3)) PROVE Level(c, 3) = Level(k, 3)
      BY <1>2, <2>2, LevelKeys DEF InScope
    <2>3. ASSUME NEW c \in PClasses PROVE Level(c, 1) # Level(k, 3) /\ Level(c, 2) # Level(k, 3)
      BY <1>2, LevelKeys
    <2> QED BY <2>1, <2>2, <2>3
  <1>6. CASE scope = "dept"
    <2>1. ScopeKey(scope, k) = Level(k, 4) BY <1>6 DEF ScopeKey, Level
    <2>2. ASSUME NEW c \in PClasses, InScope(c, Level(k, 4)) PROVE Level(c, 4) = Level(k, 4)
      BY <1>2, <2>2, LevelKeys DEF InScope
    <2>3. ASSUME NEW c \in PClasses
          PROVE  Level(c, 1) # Level(k, 4) /\ Level(c, 2) # Level(k, 4) /\ Level(c, 3) # Level(k, 4)
      BY <1>2, LevelKeys
    <2> QED BY <2>1, <2>2, <2>3
  <1> QED BY <1>1, <1>3, <1>4, <1>5, <1>6

LEMMA SaveInForce ==
    ASSUME PeriodSettings, RowsOK, RowsOK', LevelsDecide', "wide" \notin Features, [PcNext]_pcVars
    PROVE  InForce
  <1> SUFFICES ASSUME last' # last, last'.scope # "reset", NEW c \in PClasses, InScope(c, last'.key),
                      \A r \in pcRows : InScope(c, r) /\ InScope(r, last'.key) => KeyOf(r) = last'.key
               PROVE  ForClass(c)' = last'.cfg
    BY DEF InForce
  <1>1. PICK scope \in Scopes, k \in PClasses, type \in Types, g \in Configs : Save(scope, k, type, g)
    BY DEF PcNext, pcVars, Reset, ComputePeriodTimes, Expire
  <1> DEFINE key == ScopeKey(scope, k)
             new == RowAt(key, type, g)
             old == {r \in pcRows : KeyOf(r) = key /\ r.type = type}
  <1>2. /\ last'.key = key /\ last'.cfg = g
        /\ pcRows' = (pcRows \ old) \cup {new}
    BY <1>1 DEF Save, RowAt
  <1>3. key \in PKeys
    <2>1. k \in PKeys BY DEF PClasses, PKeys
    <2> QED BY <2>1, KeyInKeys
  <1>4. KeyOf(new) = key /\ new.cfg = g /\ new.at = saves + 1 BY <1>3, SavedRow
  <1>5. PICK i \in 1 .. 4 : /\ key = Level(k, i) /\ Level(c, i) = Level(k, i)
                            /\ \A j \in 1 .. 4 : j < i => Level(c, j) # Level(k, i)
    <2>1. InScope(c, key) BY <1>2
    <2> QED BY <2>1, SavedLevel
  <1> HIDE DEF new, key
  <1> DEFINE R(j) == RowsAt(Level(c, j))'
  <1>6. \A j \in 1 .. 4 : R(j) = {r \in pcRows' : KeyOf(r) = Level(c, j)} BY DEF RowsAt
  <1>7. new \in R(i) BY <1>2, <1>4, <1>5, <1>6
  <1>8. ASSUME NEW j \in 1 .. 4, j < i PROVE R(j) = {}
    <2> SUFFICES ASSUME NEW r \in R(j) PROVE FALSE OBVIOUS
    <2>1. r \in pcRows' /\ KeyOf(r) = Level(c, j) BY <1>6
    <2>2. Level(c, j) # key BY <1>5, <1>8
    <2>3. r \in pcRows BY <1>2, <1>4, <2>1, <2>2
    <2>4. KeyOf(r) = key
      <3>1. InScope(c, r) /\ InScope(r, key)
        <4>1. KeyOf(r) = [dept |-> r.dept, batch |-> r.batch, sem |-> r.sem, sec |-> r.sec] BY DEF KeyOf
        <4>2. Level(c, i) = key BY <1>5
        <4>3. r.dept = KeyOf(r).dept /\ r.batch = KeyOf(r).batch /\ r.sem = KeyOf(r).sem /\ r.sec = KeyOf(r).sec
          BY <4>1
        <4>4. /\ r.dept = c.dept /\ r.batch = (IF j = 4 THEN "all" ELSE c.batch)
              /\ r.sem = (IF j >= 3 THEN 0 ELSE c.sem) /\ r.sec = (IF j >= 2 THEN "all" ELSE c.sec)
          BY <2>1, <4>3, LevelFields
        <4>5. /\ key.dept = c.dept /\ key.batch = (IF i = 4 THEN "all" ELSE c.batch)
              /\ key.sem = (IF i >= 3 THEN 0 ELSE c.sem) /\ key.sec = (IF i >= 2 THEN "all" ELSE c.sec)
          BY <4>2, LevelFields
        <4> QED BY <1>8, <4>4, <4>5 DEF InScope
      <3> QED BY <1>2, <2>3, <3>1
    <2> QED BY <2>1, <2>2, <2>4
  <1>9. ASSUME NEW r \in R(i), r # new PROVE r.at \in Int /\ r.at < new.at
    <2>1. r \in pcRows BY <1>2, <1>6, <1>9
    <2> QED BY <1>4, <2>1 DEF RowsOK
  <1>10. Newest(R(i)) = new
    <2>1. new.at \in Int BY <1>4 DEF RowsOK
    <2>2. \A s \in R(i) : s.at <= new.at BY <1>9, <2>1
    <2>3. ASSUME NEW r \in R(i), \A s \in R(i) : s.at <= r.at PROVE r = new
      BY <1>7, <1>9, <2>1, <2>3
    <2> HIDE DEF R
    <2> QED BY <1>7, <2>2, <2>3 DEF Newest
  <1>11. ForClass(c)' = Newest(R(i)).cfg
    <2>1. R(i) # {} /\ \A j \in 1 .. 4 : R(j) # {} => i <= j BY <1>7, <1>8
    <2>2. Newest(RowsAt(Level(c, i)))' = Newest(R(i)) BY DEF Newest
    <2> QED BY <2>1, <2>2 DEF LevelsDecide
  <1> QED BY <1>2, <1>4, <1>10, <1>11

\* Every saved configuration takes effect for the classes of its scope that have
\* nothing more specific (save_period_config and get_period_config), when the
\* requests name whole scopes of a class, as the administration page does.
THEOREM InForceSafe ==
    ASSUME PeriodSettings, "wide" \notin Features
    PROVE  PcSpec => [][InForce]_pcVars
  <1>1. PcSpec => []RowsOK BY RowsHold
  <1>2. LevelsDecide BY LevelsHold
  <1>3. RowsOK /\ RowsOK' /\ LevelsDecide' /\ [PcNext]_pcVars => InForce BY SaveInForce
  <1> QED BY <1>1, <1>2, <1>3, PTL DEF PcSpec

=============================================================================
