--------------------------- MODULE StudentProofs ---------------------------
(***************************************************************************)
(* Theorems about what the student's attendance is made of: the own marks  *)
(* of a date (StudentGate) and what is reported of them (StudentReport),   *)
(* the percentage and its advice (AttendanceMargin), and the requests that *)
(* exempt days (StudentLeave);                                             *)
(* and about who looks after a student: who may mark one at the kiosk      *)
(* (KioskPermission) and who advises the class (ClassAdvisors).  The five  *)
(* share no variable; each has its own invariant.                          *)
(***************************************************************************)
EXTENDS StudentReport, AttendanceMargin, StudentLeave, KioskPermission, ClassAdvisors,
        FiniteSetTheorems, WellFoundedInduction, TLAPS

-----------------------------------------------------------------------------
(***************************************************************************)
(* StudentGate, for every timetable of the date and every number of        *)
(* sessions: the type invariant, and that a half of the day is credited    *)
(* only with a mark of the student's own in that half.                     *)
(***************************************************************************)
\* The newest session of a set that is not empty is a member of it.
LEMMA NewestIn ==
  ASSUME NEW S \in SUBSET Sessions, S # {}
  PROVE  Newest(S) \in S
  <1> DEFINE R == {r \in Nat \X Nat : r[1] < r[2]}
             T == {NSessions - s : s \in S}
  <1>1. T \subseteq Nat /\ T # {}
    <2>1. \A s \in S : NSessions - s \in Nat BY GateAssumption DEF Sessions
    <2>2. PICK s \in S : TRUE OBVIOUS
    <2>3. NSessions - s \in T OBVIOUS
    <2> QED BY <2>1, <2>3
  <1>2. \A x \in Nat, y \in Nat : <<x, y>> \in R <=> x < y OBVIOUS
  <1>3. IsWellFoundedOn(R, Nat) BY NatLessThanWellFounded DEF OpToRel
  <1> HIDE DEF R, T
  <1>4. PICK x \in T : \A y \in T : ~ (<<y, x>> \in R) BY <1>1, <1>3, WFMin
  <1>5. PICK s \in S : x = NSessions - s BY DEF T
  <1>6. \A u \in S : u <= s
    <2> SUFFICES ASSUME NEW u \in S PROVE u <= s
      OBVIOUS
    <2>1. NSessions - u \in T BY DEF T
    <2>2. ~ (NSessions - u < x) BY <1>1, <1>2, <1>4, <2>1
    <2> QED BY <1>5, <2>2, GateAssumption DEF Sessions
  <1> QED BY <1>6 DEF Newest

LEMMA TargetIn == Target # 0 => Target \in Sessions
  <1>1. {s \in Sessions : sess[s] = "checkin_open"} \in SUBSET Sessions OBVIOUS
  <1> QED BY <1>1, NewestIn DEF Target, Newest

LEMMA NoRowIn == NoRow \in Row
  <1>1. "none" \in Labels /\ 0 \in 0 .. NSessions /\ "nobody" \in {"nobody", "self", "staff"}
    BY GateAssumption DEF Labels
  <1> QED BY <1>1 DEF Row, NoRow

LEMMA OpIn ==
  ASSUME ops \in 0 .. MaxOps, Op
  PROVE  ops' \in 0 .. MaxOps
  BY GateAssumption DEF Op

LEMMA InitTypes == Init => TypeOK
  <1> SUFFICES ASSUME Init PROVE TypeOK
    OBVIOUS
  <1>1. sess \in [Sessions -> Statuses] BY DEF Init, Statuses
  <1>2. rows \in [Scheduled -> Row] BY NoRowIn DEF Init
  <1>3. daily \in [{"FN", "AN"} -> {"none", "Present"}] BY DEF Init
  <1>4. ops \in 0 .. MaxOps BY GateAssumption DEF Init
  <1>5. off \in DayTypes BY DEF Init, DayTypes
  <1> QED BY <1>1, <1>2, <1>3, <1>4, <1>5 DEF Init, TypeOK

LEMMA NextTypes == TypeOK /\ [Next]_vars => TypeOK'
  <1> SUFFICES ASSUME TypeOK, [Next]_vars PROVE TypeOK'
    OBVIOUS
  <1>0. NSessions \in Nat /\ MaxOps \in Nat BY GateAssumption
  <1>1. ASSUME NEW s \in Sessions, StartCheckin(s) \/ CloseCheckin(s) \/ StartCheckout(s)
        PROVE  TypeOK'
    BY <1>1 DEF StartCheckin, CloseCheckin, StartCheckout, TypeOK, Statuses
  <1>2. ASSUME NEW s \in Sessions, CloseSession(s)
        PROVE  TypeOK'
    <2>1. [st |-> "Absent", sid |-> s, by |-> "staff"] \in Row
      BY <1>0 DEF Row, Labels, Sessions
    <2>2. rows' \in [Scheduled -> Row] BY <1>2, <2>1 DEF CloseSession, TypeOK
    <2>3. sess' \in [Sessions -> Statuses] BY <1>2 DEF CloseSession, TypeOK, Statuses
    <2> QED BY <1>2, <2>2, <2>3 DEF CloseSession, TypeOK
  <1>3. ASSUME NEW s \in Sessions,
               NEW st \in {"Present", "Absent", "On-Duty", "Leave", "Pending"}, Override(s, st)
        PROVE  TypeOK'
    <2>1. NoRow \in Row BY NoRowIn
    <2>2. st # "Pending" => [st |-> st, sid |-> s, by |-> "staff"] \in Row
      <3>1. st # "Pending" => st \in Labels BY DEF Labels
      <3>2. s \in 0 .. NSessions BY <1>0 DEF Sessions
      <3> QED BY <3>1, <3>2 DEF Row
    <2>3. rows' \in [Scheduled -> Row]
      <3>1. \A p \in Scheduled :
              (CASE p \notin PeriodsOf(s) -> rows[p]
                 [] p \in PeriodsOf(s) /\ st = "Pending" -> NoRow
                 [] OTHER -> [st |-> st, sid |-> s, by |-> "staff"]) \in Row
        BY <2>1, <2>2 DEF TypeOK
      <3> QED BY <1>3, <3>1 DEF Override
    <2>4. ops' \in 0 .. MaxOps BY <1>3, OpIn DEF Override, TypeOK
    <2> QED BY <1>3, <2>3, <2>4 DEF Override, TypeOK
  <1>4. ASSUME NEW type \in DOMAIN CreditLabel, NEW half \in {"FN", "AN", "FULL_DAY"},
               Approve(type, half)
        PROVE  TypeOK'
    <2>1. CreditLabel[type] \in Labels /\ type \in DayTypes
      <3>1. type \in {"APPROVED_MEDICAL", "APPROVED_LEAVE", "APPROVED_OD"} BY DEF CreditLabel
      <3>2. CreditLabel["APPROVED_MEDICAL"] \in Labels BY DEF CreditLabel, Labels
      <3>3. CreditLabel["APPROVED_LEAVE"] \in Labels BY DEF CreditLabel, Labels
      <3>4. CreditLabel["APPROVED_OD"] \in Labels BY DEF CreditLabel, Labels
      <3>5. type \in DayTypes BY <3>1 DEF DayTypes
      <3> QED BY <3>1, <3>2, <3>3, <3>4, <3>5
    <2>2. rows' \in [Scheduled -> Row] BY <1>4, <2>1 DEF Approve, TypeOK, Row
    <2>3. ops' \in 0 .. MaxOps BY <1>4, OpIn DEF Approve, TypeOK
    <2> QED BY <1>4, <2>1, <2>2, <2>3 DEF Approve, TypeOK
  <1>5. CASE DeclareOff
    <2>1. ops' \in 0 .. MaxOps BY <1>5, OpIn DEF DeclareOff, TypeOK
    <2> QED BY <1>5, <2>1 DEF DeclareOff, TypeOK, DayTypes
  <1>6. ASSUME NEW p \in Scheduled, Tap(p)
        PROVE  TypeOK'
    BY <1>6 DEF Tap, TypeOK
  <1>7. CASE MissingImage \/ OutsideCampus \/ Locked \/ WrongNetwork \/ MarkedBefore \/ FaceRefused
    BY <1>7
    DEF MissingImage, OutsideCampus, Locked, WrongNetwork, MarkedBefore, FaceRefused, Answer, TypeOK
  <1>8. ASSUME Target # 0, NEW S, rows' = RowsMarked(S) PROVE rows' \in [Scheduled -> Row]
    <2>1. [st |-> "Present", sid |-> Target, by |-> "self"] \in Row
      BY <1>0, <1>8, TargetIn DEF Row, Labels, Sessions
    <2> QED BY <1>8, <2>1 DEF RowsMarked, TypeOK
  <1>11. DailyMarked \in [{"FN", "AN"} -> {"none", "Present"}] BY DEF DailyMarked, TypeOK
  <1>9. CASE UNCHANGED vars BY <1>9 DEF vars, TypeOK
  <1>10. CASE Mark
    <2>1. rows' \in [Scheduled -> Row] BY <1>8, <1>10 DEF Mark
    <2> QED BY <1>10, <1>11, <2>1 DEF Mark, Answer, TypeOK
  <1>12. CASE MarkPartly
    <2>1. PICK S \in SUBSET PeriodsOf(Target) :
            rows' = RowsMarked(PeriodsOf(Target) \ S) /\ unsaved' = unsaved \cup S
      BY <1>12 DEF MarkPartly
    <2>2. rows' \in [Scheduled -> Row] BY <1>8, <1>12, <2>1 DEF MarkPartly
    <2>3. ops' \in 0 .. MaxOps BY <1>12, OpIn DEF MarkPartly, TypeOK
    <2>4. PeriodsOf(Target) \subseteq Scheduled
      BY <1>12, TargetIn, GateAssumption DEF MarkPartly, PeriodsOf
    <2>5. unsaved' \subseteq Scheduled BY <2>1, <2>4 DEF TypeOK
    <2>6. daily' \in [{"FN", "AN"} -> {"none", "Present"}] BY <1>11, <1>12 DEF MarkPartly, TypeOK
    <2> QED BY <1>12, <2>2, <2>3, <2>5, <2>6 DEF MarkPartly, Answer, TypeOK
  <1> QED BY <1>1, <1>2, <1>3, <1>4, <1>5, <1>6, <1>7, <1>9, <1>10, <1>12 DEF Next

\* Every reachable state is well typed.
THEOREM GateTypeCorrect == Spec => []TypeOK
  BY InitTypes, NextTypes, PTL DEF Spec

\* The student's own mark writes, or fails to write, the first period of its session,
\* which was not present before, and that period lies in the half that is credited.
LEMMA MarkEarns ==
  ASSUME TypeOK, Mark \/ MarkPartly, NEW h \in {"FN", "AN"}, daily'[h] # daily[h]
  PROVE  /\ begun # 0 /\ result' = "marked"
         /\ \E p \in OfHalf(h) : \/ rows'[p].by = "self" /\ rows'[p] # rows[p]
                                 \/ p \in unsaved'
  <1> DEFINE p == FirstOf[Target]
  <1>1. Target \in Sessions BY TargetIn DEF Mark, MarkPartly
  <1>2. p \in PeriodsOf(Target) /\ p \in Scheduled
    BY <1>1, GateAssumption DEF PeriodsOf
  <1>3. HalfOf(p) = h BY DEF Mark, MarkPartly, DailyMarked, TypeOK
  <1>4. PICK S : rows' = RowsMarked(PeriodsOf(Target) \ S) /\ (p \in S => p \in unsaved')
    <2>1. CASE Mark
      <3>1. PeriodsOf(Target) \ {} = PeriodsOf(Target) OBVIOUS
      <3> QED BY <2>1, <3>1 DEF Mark
    <2>2. CASE MarkPartly BY <2>2 DEF MarkPartly
    <2> QED BY <2>1, <2>2
  <1>5. p \notin S => rows'[p] = [st |-> "Present", sid |-> Target, by |-> "self"]
    BY <1>2, <1>4 DEF RowsMarked
  <1>6. rows[p].st # "Present" BY DEF Mark, MarkPartly, Duplicate
  <1>7. begun # 0 /\ result' = "marked" BY DEF Mark, MarkPartly, Answer
  <1> QED BY <1>2, <1>3, <1>4, <1>5, <1>6, <1>7 DEF OfHalf

\* A half of the day becomes Present only in the step of the student's own mark
\* of a period of that half, written or failed to be, whatever lecturers and
\* office do in between.
THEOREM HalvesEarned == Spec => HalfEarned
  <1> DEFINE Earned == \A h \in {"FN", "AN"} : daily'[h] # daily[h] =>
                         /\ begun # 0 /\ result' = "marked"
                         /\ \E p \in OfHalf(h) : \/ rows'[p].by = "self" /\ rows'[p] # rows[p]
                                                 \/ p \in unsaved'
  <1>1. TypeOK /\ [Next]_vars => [Earned]_vars
    <2>1. TypeOK /\ (Mark \/ MarkPartly) => Earned BY MarkEarns
    <2>2. Next => Mark \/ MarkPartly \/ daily' = daily
      BY DEF Next, StartCheckin, CloseCheckin, StartCheckout, CloseSession, Override, Approve,
             DeclareOff, Tap, MissingImage, OutsideCampus, Locked, WrongNetwork, MarkedBefore,
             FaceRefused
    <2>3. daily' = daily => Earned OBVIOUS
    <2> QED BY <2>1, <2>2, <2>3
  <1>2. HalfEarned <=> [][Earned]_vars BY PTL DEF HalfEarned
  <1> QED BY <1>1, <1>2, GateTypeCorrect, PTL DEF Spec

-----------------------------------------------------------------------------
(***************************************************************************)
(* StudentReport, for every finite timetable of the date: what is counted  *)
(* of the rows of StudentGate is counted alike.                            *)
(***************************************************************************)
\* The history has one entry for every row of a period.
LEMMA OneEntryEach ==
  ASSUME IsFiniteSet(Scheduled), NEW S \in SUBSET Scheduled
  PROVE  /\ IsFiniteSet(S)
         /\ Cardinality({Entry("Period", p, Normalised(rows[p].st)) : p \in S}) = Cardinality(S)
  <1> DEFINE E == {Entry("Period", p, Normalised(rows[p].st)) : p \in S}
             f == [p \in S |-> Entry("Period", p, Normalised(rows[p].st))]
  <1>1. IsFiniteSet(S) BY FS_Subset
  <1>2. f \in Bijection(S, E)
    <2>1. f \in [S -> E] OBVIOUS
    <2>2. \A p, q \in S : f[p] = f[q] => p = q BY DEF Entry
    <2>3. \A e \in E : \E p \in S : f[p] = e OBVIOUS
    <2> QED BY <2>1, <2>2, <2>3 DEF Bijection, Injection, Surjection, IsInjective
  <1>3. Cardinality(E) = Cardinality(S) BY <1>1, <1>2, FS_Bijection DEF ExistsBijection
  <1> QED BY <1>1, <1>3

\* A label other than Absent is not reported as Absent.
LEMMA AbsentStays ==
  ASSUME NEW st \in Labels PROVE Normalised(st) = "Absent" <=> st = "Absent"
  BY DEF Labels, Normalised

LEMMA OthersAreHalves ==
  \A e \in DailyEntries \cup AuditEntries \cup OffEntries : e.session # "Period" /\ e.status # "Absent"
  <1>1. \A e \in DailyEntries : e.session # "Period" /\ e.status # "Absent" BY DEF DailyEntries, Entry
  <1>2. \A e \in AuditEntries : e.session # "Period" /\ e.status # "Absent" BY DEF AuditEntries, Entry
  <1>3. \A e \in OffEntries : e.session # "Period" /\ e.status # "Absent"
    <2>1. CASE ~IsOff \/ HasDaily \/ audit BY <2>1 DEF OffEntries
    <2>2. CASE ~(~IsOff \/ HasDaily \/ audit)
      <3> DEFINE label == CASE off = "APPROVED_OD"      -> "On-Duty (OD)"
                            [] off = "APPROVED_MEDICAL" -> "Medical Leave"
                            [] off = "COLLEGE_HOLIDAY"  -> "College Holiday"
                            [] OTHER                    -> "Casual / Emergency Leave"
      <3>1. label # "Absent" OBVIOUS
      <3>2. OffEntries = {Entry("FN", 0, label)} BY <2>2 DEF OffEntries
      <3> HIDE DEF label
      <3> QED BY <3>1, <3>2 DEF Entry
    <2> QED BY <2>1, <2>2
  <1> QED BY <1>1, <1>2, <1>3

LEMMA RecordsAgree == ASSUME IsFiniteSet(Scheduled), TypeOK PROVE SameRecords
  <1> DEFINE of(p) == Entry("Period", p, Normalised(rows[p].st))
             kept == {q \in Scheduled : rows[q].st # "none"}
             absent == {q \in Scheduled : rows[q].st \in {"Absent"}}
             here == {q \in Scheduled :
                        rows[q].st \in {"Present"} \cup SummaryOd \cup SummaryMedical \cup SummaryLeave}
  <1>1. \A q \in Scheduled : rows[q].st \in Labels BY DEF TypeOK, Row
  <1>2. Cardinality(kept) = Cardinality(here) + Cardinality(absent)
    <2>1. kept = here \cup absent /\ here \cap absent = {}
      BY <1>1 DEF Labels, SummaryOd, SummaryMedical, SummaryLeave
    <2>2. IsFiniteSet(here) /\ IsFiniteSet(absent) BY FS_Subset
    <2>3. Cardinality(here \cap absent) = 0 BY <2>1, FS_EmptySet
    <2> HIDE DEF kept, here, absent
    <2>4. Cardinality(kept) = Cardinality(here) + Cardinality(absent) - Cardinality(here \cap absent)
      BY <2>1, <2>2, FS_Union
    <2>5. Cardinality(here) \in Nat /\ Cardinality(absent) \in Nat BY <2>2, FS_CardinalityType
    <2> QED BY <2>3, <2>4, <2>5
  <1>3. Cardinality({of(p) : p \in kept}) = Cardinality(kept) BY OneEntryEach
  <1>4. Cardinality({of(p) : p \in absent}) = Cardinality(absent) BY OneEntryEach
  <1>5. {e \in History : e.session = "Period"} = {of(p) : p \in kept}
    BY OthersAreHalves DEF History, RowEntries, Entry
  <1>6. {e \in History : e.status \in {"Absent"}} = {of(p) : p \in absent}
    <2>1. \A p \in kept : of(p).status \in {"Absent"} <=> p \in absent
      BY <1>1, AbsentStays DEF Entry
    <2>2. absent \subseteq kept OBVIOUS
    <2> HIDE DEF absent
    <2> QED BY <2>1, <2>2, OthersAreHalves DEF History, RowEntries
  <1> QED BY <1>2, <1>3, <1>4, <1>5, <1>6
      DEF SameRecords, SummaryTotal, SummaryAttended, SummaryAbsent, Count, Listed

\* A label of one table stands for a label of the other: they differ only in
\* what they call a holiday, which no half counts.
LEMMA HalvesAgree == SameHalves
  <1> DEFINE A == [p \in Scheduled |-> AttStatus(p)]
             S == [p \in Scheduled |-> SummaryStatus(p)]
  <1>1. \A p \in Scheduled : /\ A[p] \in Attended <=> S[p] \in Attended
                             /\ A[p] = "Absent" <=> S[p] = "Absent"
                             /\ A[p] \in Undecided <=> S[p] \in Undecided
    <2> SUFFICES ASSUME NEW p \in Scheduled
                 PROVE  \/ AttStatus(p) = SummaryStatus(p)
                        \/ AttStatus(p) = "Holiday" /\ SummaryStatus(p) = "College Holiday"
      BY DEF Attended, Undecided
    <2>1. CASE rows[p].st # "none" BY <2>1 DEF AttStatus, SummaryStatus
    <2>2. CASE rows[p].st = "none" /\ IsOff BY <2>2 DEF AttStatus, SummaryStatus, OffLabel
    <2>3. CASE rows[p].st = "none" /\ ~IsOff BY <2>3 DEF AttStatus, SummaryStatus
    <2> QED BY <2>1, <2>2, <2>3
  <1> HIDE DEF A, S
  <1>2. \A h \in {"FN", "AN"} : HalfStats(h, A) = HalfStats(h, S)
    <2> SUFFICES ASSUME NEW h \in {"FN", "AN"} PROVE HalfStats(h, A) = HalfStats(h, S)
      OBVIOUS
    <2>1. \A p \in OfHalf(h) : p \in Scheduled BY DEF OfHalf
    <2>2. {p \in OfHalf(h) : A[p] \in Attended} = {p \in OfHalf(h) : S[p] \in Attended} BY <1>1, <2>1
    <2>3. (\A p \in OfHalf(h) : A[p] = "Absent") <=> (\A p \in OfHalf(h) : S[p] = "Absent") BY <1>1, <2>1
    <2>4. (\E p \in OfHalf(h) : A[p] \in Undecided) <=> (\E p \in OfHalf(h) : S[p] \in Undecided)
      BY <1>1, <2>1
    <2> QED BY <2>2, <2>3, <2>4 DEF HalfStats
  <1> QED BY <1>2 DEF SameHalves, A, S

\* For every timetable of the date, whatever is marked, overridden, credited or
\* declared: the history lists what the summary counts, and both labellings of
\* the periods give the same halves.
THEOREM ReportsSafe ==
    ASSUME IsFiniteSet(Scheduled) PROVE Spec => []CountedOnce
  <1>1. TypeOK => SameRecords BY RecordsAgree
  <1>2. SameHalves BY HalvesAgree
  <1>3. TypeOK => CountedOnce BY <1>1, <1>2 DEF CountedOnce
  <1> QED BY <1>3, GateTypeCorrect, PTL

-----------------------------------------------------------------------------
(***************************************************************************)
(* StudentGate: what the button of the only open session promises.  Marked *)
(* says that a mark of a session belongs to its periods and that the first *)
(* period of a session the student is seen in has a row, or failed to get  *)
(* one: rows of a session come and go together, but for failures, as long  *)
(* as no two sessions cover one period.                                    *)
(* Where they do, a lecturer who clears one of them clears the first       *)
(* period of the other, and the tap is answered "already marked".          *)
(***************************************************************************)
SessionsApart == \A s, u \in Sessions : s # u => PeriodsOf(s) \cap PeriodsOf(u) = {}

Marked ==
  /\ \A p \in Scheduled : rows[p].sid # 0 => p \in PeriodsOf(rows[p].sid)
  /\ \A s \in Sessions : Seen(s) => rows[FirstOf[s]].st # "none" \/ FirstOf[s] \in unsaved

LEMMA FirstIn ==
  ASSUME NEW s \in Sessions
  PROVE  FirstOf[s] \in PeriodsOf(s) /\ FirstOf[s] \in Scheduled /\ PeriodsOf(s) \subseteq Scheduled /\ s # 0
  BY GateAssumption DEF PeriodsOf, Sessions

\* A step that rewrites the rows of one session: all of them get a status or all
\* of them none.
LEMMA SessionRowsKeep ==
  ASSUME TypeOK, SessionsApart, Marked, NEW s \in Sessions, NEW r,
         r.sid \in {0, s}, r.st = "none" \/ r.sid = s, r.st = "none" => r.sid = 0,
         rows' = [p \in Scheduled |-> IF p \in PeriodsOf(s) THEN r ELSE rows[p]],
         unsaved \subseteq unsaved'
  PROVE  Marked'
  <1>1. \A p \in Scheduled : rows'[p] = IF p \in PeriodsOf(s) THEN r ELSE rows[p] OBVIOUS
  <1>2. \A p \in Scheduled : rows'[p].sid # 0 => p \in PeriodsOf(rows'[p].sid) BY <1>1 DEF Marked
  <1>3. ASSUME NEW u \in Sessions, Seen(u)' 
        PROVE  rows'[FirstOf[u]].st # "none" \/ FirstOf[u] \in unsaved'
    <2>1. PICK p \in Scheduled : rows'[p].st = "Present" /\ rows'[p].sid = u BY <1>3 DEF Seen
    <2>2. u # 0 /\ FirstOf[u] \in PeriodsOf(u) /\ FirstOf[u] \in Scheduled BY FirstIn
    <2>3. p \in PeriodsOf(u) BY <1>2, <2>1, <2>2
    <2>4. CASE u = s BY <1>1, <2>1, <2>2, <2>3, <2>4
    <2>5. CASE u # s
      <3>1. p \notin PeriodsOf(s) /\ FirstOf[u] \notin PeriodsOf(s) BY <2>2, <2>3, <2>5 DEF SessionsApart
      <3>2. Seen(u) BY <1>1, <2>1, <3>1 DEF Seen
      <3> QED BY <1>1, <2>2, <3>1, <3>2 DEF Marked
    <2> QED BY <2>4, <2>5
  <1> QED BY <1>2, <1>3 DEF Marked

LEMMA MarkedKept == ASSUME TypeOK, SessionsApart, Marked, [Next]_vars PROVE Marked'
  <1>1. ASSUME NEW s \in Sessions, CloseSession(s) PROVE Marked'
    <2> DEFINE r == [st |-> "Absent", sid |-> s, by |-> "staff"]
    <2>1. CASE Seen(s) \/ IsOff
      <3>1. rows' = [p \in Scheduled |-> rows[p]] /\ unsaved' = unsaved
        BY <1>1, <2>1 DEF CloseSession
      <3> QED BY <3>1 DEF TypeOK, Marked, Seen
    <2>2. CASE ~Seen(s) /\ ~IsOff
      <3>1. rows' = [p \in Scheduled |-> IF p \in PeriodsOf(s) THEN r ELSE rows[p]]
        BY <1>1, <2>2 DEF CloseSession
      <3>2. r.st = "Absent" /\ r.sid = s /\ unsaved' = unsaved BY <1>1 DEF CloseSession
      <3> HIDE DEF r
      <3> QED BY <3>1, <3>2, SessionRowsKeep
    <2> QED BY <2>1, <2>2
  <1>2. ASSUME NEW s \in Sessions,
               NEW st \in {"Present", "Absent", "On-Duty", "Leave", "Pending"}, Override(s, st)
        PROVE  Marked'
    <2> DEFINE r == IF st = "Pending" THEN NoRow ELSE [st |-> st, sid |-> s, by |-> "staff"]
    <2>1. rows' = [p \in Scheduled |-> IF p \in PeriodsOf(s) THEN r ELSE rows[p]]
      BY <1>2 DEF Override
    <2>2. r.sid \in {0, s} /\ (r.st = "none" \/ r.sid = s) /\ (r.st = "none" => r.sid = 0)
      BY DEF NoRow
    <2>3. unsaved' = unsaved BY <1>2 DEF Override
    <2> HIDE DEF r
    <2> QED BY <2>1, <2>2, <2>3, SessionRowsKeep
  <1>3. ASSUME NEW type \in DOMAIN CreditLabel, NEW half \in {"FN", "AN", "FULL_DAY"}, Approve(type, half)
        PROVE  Marked'
    <2>1. type \in {"APPROVED_MEDICAL", "APPROVED_LEAVE", "APPROVED_OD"} BY DEF CreditLabel
    <2>2. CreditLabel[type] \notin {"none", "Present"}
      <3>1. CASE type = "APPROVED_MEDICAL" BY <3>1 DEF CreditLabel
      <3>2. CASE type = "APPROVED_LEAVE" BY <3>2 DEF CreditLabel
      <3>3. CASE type = "APPROVED_OD" BY <3>3 DEF CreditLabel
      <3> QED BY <2>1, <3>1, <3>2, <3>3
    <2>3. unsaved' = unsaved /\ \A p \in Scheduled :
            /\ rows'[p].sid = rows[p].sid
            /\ rows'[p].st = IF p \in Credited(half) THEN CreditLabel[type] ELSE rows[p].st
      BY <1>3 DEF Approve, TypeOK, Row
    <2> QED BY <2>2, <2>3, FirstIn DEF Marked, Seen
  <1>4. CASE Mark
    <2> DEFINE r == [st |-> "Present", sid |-> Target, by |-> "self"]
    <2>1. rows' = [p \in Scheduled |-> IF p \in PeriodsOf(Target) THEN r ELSE rows[p]]
      BY <1>4 DEF Mark, RowsMarked
    <2>2. r.st = "Present" /\ r.sid = Target /\ unsaved' = unsaved /\ Target # 0 BY <1>4 DEF Mark
    <2> HIDE DEF r
    <2> QED BY <2>1, <2>2, TargetIn, SessionRowsKeep
  <1>5. CASE UNCHANGED <<rows, unsaved>> BY <1>5 DEF Marked, Seen
  <1>6. CASE MarkPartly
    <2>1. PICK S \in SUBSET PeriodsOf(Target) :
            rows' = RowsMarked(PeriodsOf(Target) \ S) /\ unsaved' = unsaved \cup S
      BY <1>6 DEF MarkPartly
    <2>2. Target # 0 /\ Target \in Sessions BY <1>6, TargetIn DEF MarkPartly
    <2>3. \A p \in Scheduled :
            rows'[p] = IF p \in PeriodsOf(Target) \ S
                       THEN [st |-> "Present", sid |-> Target, by |-> "self"] ELSE rows[p]
      BY <2>1 DEF RowsMarked
    <2>4. \A p \in Scheduled : rows'[p].sid # 0 => p \in PeriodsOf(rows'[p].sid)
      BY <2>3 DEF Marked
    <2>5. ASSUME NEW u \in Sessions, Seen(u)'
          PROVE  rows'[FirstOf[u]].st # "none" \/ FirstOf[u] \in unsaved'
      <3> DEFINE f == FirstOf[u]
      <3>1. f \in PeriodsOf(u) /\ f \in Scheduled BY FirstIn
      <3>2. rows'[f].st = "Present" \/ rows'[f] = rows[f] BY <2>3, <3>1
      <3>3. CASE u = Target
        <4>1. f \in S => f \in unsaved' BY <2>1
        <4>2. f \notin S => f \in PeriodsOf(Target) \ S BY <3>1, <3>3
        <4>3. f \notin S => rows'[f].st = "Present" BY <2>3, <3>1, <4>2
        <4> QED BY <4>1, <4>3
      <3>4. CASE u # Target
        <4>1. PICK p \in Scheduled : rows'[p].st = "Present" /\ rows'[p].sid = u BY <2>5 DEF Seen
        <4>2. p \notin PeriodsOf(Target) \ S BY <2>3, <3>4, <4>1
        <4>3. rows'[p] = rows[p] BY <2>3, <4>2
        <4>4. Seen(u) BY <4>1, <4>3 DEF Seen
        <4>5. rows[f].st # "none" \/ f \in unsaved BY <4>4 DEF Marked
        <4>6. rows'[f].st # "none" \/ f \in unsaved BY <3>2, <4>5
        <4> QED BY <2>1, <4>6
      <3> QED BY <3>3, <3>4
    <2> QED BY <2>4, <2>5 DEF Marked
  <1>7. ASSUME \/ DeclareOff \/ MissingImage \/ OutsideCampus \/ Locked \/ WrongNetwork \/ MarkedBefore
               \/ FaceRefused \/ \E p \in Scheduled : Tap(p)
               \/ \E s \in Sessions : StartCheckin(s) \/ CloseCheckin(s) \/ StartCheckout(s)
        PROVE  UNCHANGED <<rows, unsaved>>
    BY <1>7 DEF DeclareOff, MissingImage, OutsideCampus, Locked, WrongNetwork, MarkedBefore, FaceRefused,
                Tap, StartCheckin, CloseCheckin, StartCheckout
  <1>8. CASE UNCHANGED vars BY <1>5, <1>8 DEF vars
  <1>9. CASE Next BY <1>1, <1>2, <1>3, <1>4, <1>5, <1>6, <1>7, <1>9 DEF Next
  <1> QED BY <1>8, <1>9

\* The endpoint finds the session whose button was tapped.
LEMMA SoleTarget ==
  ASSUME NEW s \in Sessions, IsOpen(s), \A u \in Sessions \ {s} : ~IsOpen(u)
  PROVE  Target = s
  <1>1. {u \in Sessions : sess[u] = "checkin_open"} = {s} BY DEF IsOpen
  <1>2. Newest({s}) \in {s} BY NewestIn
  <1> QED BY <1>1, <1>2 DEF Target

LEMMA SoleTapStep == ASSUME TypeOK, Marked, [Next]_vars PROVE SoleTapMarks
  <1> SUFFICES ASSUME begun # 0, begun' = 0, result' # "failed", rows[begun].st = "none",
                      NEW s \in Sessions, IsOpen(s), begun = FirstOf[s], begun \notin unsaved',
                      \A u \in Sessions \ {s} : ~IsOpen(u)
               PROVE  rows'[begun].st = "Present"
    BY DEF SoleTapMarks
  <1>1. Target = s BY SoleTarget
  <1>2. Target # 0 /\ begun \in PeriodsOf(Target) /\ begun \in Scheduled BY <1>1, FirstIn
  <1>3. CASE Mark BY <1>2, <1>3 DEF Mark, RowsMarked
  <1>4. CASE MarkPartly
    <2>1. PICK S \in SUBSET PeriodsOf(Target) :
            rows' = RowsMarked(PeriodsOf(Target) \ S) /\ unsaved' = unsaved \cup S
      BY <1>4 DEF MarkPartly
    <2> QED BY <1>2, <2>1 DEF RowsMarked
  <1>5. ~Locked BY <1>2 DEF Locked
  <1>6. ~MarkedBefore
    <2>1. ASSUME MarkedBefore PROVE FALSE
      <3>1. begun \notin unsaved BY <2>1 DEF MarkedBefore
      <3> QED BY <1>1, <2>1, <3>1 DEF MarkedBefore, Duplicate, Marked
    <2> QED BY <2>1
  <1>7. ~(MissingImage \/ OutsideCampus \/ WrongNetwork \/ FaceRefused)
    BY DEF MissingImage, OutsideCampus, WrongNetwork, FaceRefused, Answer
  <1>8. ~(\/ DeclareOff \/ \E p \in Scheduled : Tap(p)
          \/ \E u \in Sessions : \/ StartCheckin(u) \/ CloseCheckin(u) \/ StartCheckout(u) \/ CloseSession(u)
                                 \/ \E st \in {"Present", "Absent", "On-Duty", "Leave", "Pending"} : Override(u, st)
          \/ \E type \in DOMAIN CreditLabel, half \in {"FN", "AN", "FULL_DAY"} : Approve(type, half))
    BY DEF DeclareOff, Tap, StartCheckin, CloseCheckin, StartCheckout, CloseSession, Override, Approve
  <1>9. ~UNCHANGED vars BY DEF vars
  <1> QED BY <1>3, <1>4, <1>5, <1>6, <1>7, <1>8, <1>9 DEF Next

\* As long as no two sessions cover one period, the tap on the first period of the
\* only open session marks it, unless a check of the request fails or a mark of it
\* once could not be written: the status the student polled and the endpoint that marks agree (main.py:26946).
THEOREM SoleTapSafe == ASSUME SessionsApart PROVE Spec => [][SoleTapMarks]_vars
  <1>1. Init => Marked
    <2> SUFFICES ASSUME Init PROVE Marked
      OBVIOUS
    <2>1. \A p \in Scheduled : rows[p] = NoRow BY DEF Init
    <2> QED BY <2>1 DEF Marked, Seen, NoRow
  <1>2. TypeOK /\ Marked /\ [Next]_vars => Marked' BY MarkedKept
  <1>3. TypeOK /\ Marked /\ [Next]_vars => SoleTapMarks BY SoleTapStep
  <1> QED BY <1>1, <1>2, <1>3, GateTypeCorrect, PTL DEF Spec

-----------------------------------------------------------------------------
(***************************************************************************)
(* AttendanceMargin: the advice rests on the percentage that is shown,     *)
(* which is rounded to one decimal; up to 499 sessions the rounding cannot *)
(* turn an attendance below 75 % into 75.0.                                *)
(***************************************************************************)
LEMMA QuotientBound ==
    ASSUME NEW a \in Int, NEW b \in Nat, b > 0, NEW q \in Int, a \div b >= q
    PROVE  a >= q * b
  BY Z3

\* Up to 499 sessions, who is shown at least 75 % has at least 75 %.
LEMMA RoundingHarmless ==
    ASSUME MarginTypeOK, total > 0, total < 500, Pct >= 750
    PROVE  Enough
  <1> DEFINE a == 2000 * attended + total
  <1>1. attended \in Nat /\ total \in Nat BY MarginAssumption DEF MarginTypeOK
  <1>2. a \in Int /\ 2 * total \in Nat /\ 2 * total > 0 BY <1>1
  <1>3. a \div (2 * total) >= 750 BY DEF Pct
  <1> HIDE DEF a
  <1>4. a >= 750 * (2 * total) BY <1>2, <1>3, QuotientBound
  <1> QED BY <1>1, <1>4 DEF a, Enough

(***************************************************************************)
(* What the advice promises of the sessions to come: after spare more      *)
(* absences there is still enough, and need is the distance to enough.     *)
(***************************************************************************)
Promise ==
    /\ spare >= 0 => 4 * attended >= 3 * (total + spare)
    /\ need = 0 => Enough
    /\ need > 0 => need = 3 * total - 4 * attended

MarginInv == MarginTypeOK /\ Promise

LEMMA InitInv == MarginInit => MarginInv
  BY MarginAssumption DEF MarginInit, MarginInv, MarginTypeOK, Promise, Void, Enough

LEMMA AdviseKeeps ==
    ASSUME MaxTotal < 500, MarginInv, Advise
    PROVE  MarginInv'
  <1>1. attended \in Nat /\ total \in Nat /\ attended <= total /\ total <= MaxTotal /\ total > 0
        /\ MaxTotal \in Nat
    BY MarginAssumption DEF MarginInv, MarginTypeOK, Advise
  <1>2. need85' \in -1 .. 6 * MaxTotal
    BY <1>1 DEF Advise, NeededFor85, Above
  <1>3. asked' \in 0 .. MaxTotal /\ attended' = attended /\ total' = total
    BY <1>1 DEF Advise
  <1>4. CASE Pct >= 750
    <2>1. Enough BY <1>1, <1>4, RoundingHarmless DEF MarginInv
    <2>2. spare' = SafeAbsences /\ need' = 0 BY <1>4 DEF Advise
    <2>3. spare' \in -1 .. MaxTotal /\ 4 * attended >= 3 * (total + spare')
      BY <1>1, <2>1, <2>2 DEF SafeAbsences, Above, Enough
    <2> QED BY <1>1, <1>2, <1>3, <2>1, <2>2, <2>3
            DEF MarginInv, MarginTypeOK, Promise, Enough
  <1>5. CASE ~(Pct >= 750)
    <2>1. spare' = Void /\ need' = NeededFor75 BY <1>5 DEF Advise
    <2>2. ~Enough
      <3>1. SUFFICES ASSUME Enough PROVE FALSE OBVIOUS
      <3> DEFINE a == 2000 * attended + total
      <3>2. a \in Int /\ 2 * total \in Nat /\ 2 * total > 0 BY <1>1
      <3>3. a >= 750 * (2 * total) BY <1>1, <3>1 DEF Enough
      <3> HIDE DEF a
      <3>4. a \div (2 * total) >= 750 BY <3>2, <3>3, Z3
      <3> QED BY <1>1, <1>5, <3>4 DEF Pct, a
    <2>3. need' = 3 * total - 4 * attended /\ need' > 0 /\ need' <= 3 * MaxTotal
      BY <1>1, <2>1, <2>2 DEF NeededFor75, Above, Enough
    <2> QED BY <1>1, <1>2, <1>3, <2>1, <2>3
            DEF MarginInv, MarginTypeOK, Promise, Void, Enough
  <1> QED BY <1>4, <1>5

LEMMA AttendKeeps ==
    ASSUME MarginInv, Attend
    PROVE  MarginInv'
  <1>1. attended \in Nat /\ total \in Nat /\ attended <= total /\ total < MaxTotal
        /\ MaxTotal \in Nat
    BY MarginAssumption DEF MarginInv, MarginTypeOK, Attend
  <1>2. attended' = attended + 1 /\ total' = total + 1 /\ spare' = spare /\ asked' = asked
    BY DEF Attend
  <1>3. need' \in -1 .. 3 * MaxTotal /\ need85' \in -1 .. 6 * MaxTotal
    BY <1>1 DEF Attend, OneLess, MarginInv, MarginTypeOK
  <1>4. MarginTypeOK' BY <1>1, <1>2, <1>3 DEF MarginInv, MarginTypeOK
  <1>5. spare' >= 0 => 4 * attended' >= 3 * (total' + spare')
    BY <1>1, <1>2 DEF MarginInv, MarginTypeOK, Promise
  <1>6. (need' = 0 => Enough') /\ (need' > 0 => need' = 3 * total' - 4 * attended')
    BY <1>1, <1>2 DEF Attend, OneLess, MarginInv, MarginTypeOK, Promise, Enough
  <1> QED BY <1>4, <1>5, <1>6 DEF MarginInv, Promise

LEMMA MissKeeps ==
    ASSUME MarginInv, Miss
    PROVE  MarginInv'
  BY MarginAssumption DEF MarginInv, MarginTypeOK, Promise, Miss, Void, Enough

\* Up to 499 sessions the invariant is inductive.
LEMMA NextKeeps ==
    ASSUME MaxTotal < 500, MarginInv, [MarginNext]_marginVars
    PROVE  MarginInv'
  <1>1. CASE Advise BY <1>1, AdviseKeeps
  <1>2. CASE Attend BY <1>2, AttendKeeps
  <1>3. CASE Miss BY <1>3, MissKeeps
  <1>4. CASE UNCHANGED marginVars
    BY <1>4 DEF marginVars, MarginInv, MarginTypeOK, Promise, Enough
  <1> QED BY <1>1, <1>2, <1>3, <1>4 DEF MarginNext

LEMMA InvHolds ==
    ASSUME MaxTotal < 500
    PROVE  MarginSpec => []MarginInv
  BY InitInv, NextKeeps, PTL DEF MarginSpec

\* Whatever is advised stays within the number of sessions it was given for.
THEOREM MarginTypeCorrect ==
    ASSUME MaxTotal < 500
    PROVE  MarginSpec => []MarginTypeOK
  BY InvHolds, PTL DEF MarginInv

\* Who follows the advice of the analytics keeps or reaches 75 %, and not one
\* session earlier than promised, in every term of up to 499 sessions.
THEOREM MarginSafe ==
    ASSUME MaxTotal < 500
    PROVE  MarginSpec => []MarginHonest
  <1>1. MarginInv => MarginHonest
    BY MarginAssumption
    DEF MarginInv, MarginTypeOK, Promise, MarginHonest, SpareHonest, NeedHonest, Enough
  <1> QED BY <1>1, InvHolds, PTL

-----------------------------------------------------------------------------
(***************************************************************************)
(* StudentLeave, for any requests of any students over any days, and any   *)
(* number of failures: what a student cancelled leaves no trace in the     *)
(* attendance, and a day exempted as leave points to the credited request  *)
(* that covers it.                                                         *)
(***************************************************************************)
\* The statements a handler may still execute: a day is only credited for a
\* request already flagged as credited, and only a day of that request.
Justified(s, C) == s.do = "credit" =>
    /\ s.q \in C
    /\ \E i \in DOMAIN DaysOf[s.q] : DaysOf[s.q][i] = s.day

Sound(C) == {s \in Statement : Justified(s, C)}

\* Crediting is for ever and a decision never returns to PENDING: this is what
\* keeps a cancelled request apart from a credited one.
Uncredited == \A q \in Requests : hod[q] \in {"PENDING", "CANCELLED"} => q \notin credited

PointsToCredited ==
    \A w \in Students \X LeaveDays : dayReq[w] \in credited \cup {NoRequest}

LeaveInv ==
    /\ LeaveTypeOK
    /\ todo \in Seq(Sound(credited))
    /\ Uncredited
    /\ PointsToCredited
    /\ LeaveDayTraced

-----------------------------------------------------------------------------
\* Sequences of statements.
LEMMA SeqWider ==
  ASSUME NEW S, NEW T, S \subseteq T
  PROVE  Seq(S) \subseteq Seq(T)
  OBVIOUS

LEMMA Rest ==
  ASSUME NEW S, NEW s \in Seq(S), s # <<>>
  PROVE  Head(s) \in S /\ Tail(s) \in Seq(S)
  OBVIOUS

\* SetToSeq of a finite set is a sequence of its elements.
LEMMA SetToSeqType ==
  ASSUME NEW S, IsFiniteSet(S)
  PROVE  SetToSeq(S) \in Seq(S)
  <1>1. Cardinality(S) \in Nat BY FS_CardinalityType
  <1>2. ExistsBijection(1 .. Cardinality(S), S) BY FS_CardinalityType
  <1>3. PICK f \in Bijection(1 .. Cardinality(S), S) : TRUE
    BY <1>2 DEF ExistsBijection
  <1>4. f \in [1 .. Cardinality(S) -> S] /\ IsInjective(f)
    BY <1>3 DEF Bijection, Injection, IsInjective
  <1>5. SetToSeq(S) \in [1 .. Cardinality(S) -> S] BY <1>4 DEF SetToSeq
  <1> QED BY <1>1, <1>5

\* What is declared is the holidays of the list, for the students.
LEMMA DeclaringSound ==
  ASSUME IsFiniteSet(Students), IsFiniteSet(LeaveDays), NEW C, NEW hs \in SUBSET LeaveDays
  PROVE  Declaring(hs) \in Seq(Sound(C))
  <1>1. IsFiniteSet(hs) BY FS_Subset
  <1>2. IsFiniteSet(Students \X hs) BY <1>1, FS_Product
  <1> DEFINE all == SetToSeq(Students \X hs)
  <1>3. all \in Seq(Students \X hs) BY <1>2, SetToSeqType
  <1> HIDE DEF all
  <1>4. \A i \in 1 .. Len(all) : Declare(all[i][1], all[i][2]) \in Sound(C)
    <2> SUFFICES ASSUME NEW i \in 1 .. Len(all) PROVE Declare(all[i][1], all[i][2]) \in Sound(C)
      OBVIOUS
    <2>1. all[i] \in Students \X hs BY <1>3
    <2>2. all[i][1] \in Students /\ all[i][2] \in LeaveDays BY <2>1
    <2>3. Declare(all[i][1], all[i][2]) \in Statement BY <2>2 DEF Statement
    <2>4. Declare(all[i][1], all[i][2]).do # "credit" BY DEF Declare
    <2> QED BY <2>3, <2>4 DEF Sound, Justified
  <1>5. Len(all) \in Nat BY <1>3
  <1>6. [i \in 1 .. Len(all) |-> Declare(all[i][1], all[i][2])] \in Seq(Sound(C)) BY <1>4, <1>5
  <1> QED BY <1>6 DEF Declaring, all

\* What an approval leaves to be executed once the request is flagged.
LEMMA CreditingSound ==
  ASSUME StudentRequests, NEW C, NEW q \in C, q \in Requests
  PROVE  Crediting(q) \in Seq(Sound(C))
  <1>1. DaysOf[q] \in Seq(LeaveDays) BY DEF StudentRequests
  <1>2. \A i \in 1 .. Len(DaysOf[q]) : Credit(q, DaysOf[q][i]) \in Sound(C)
    <2> SUFFICES ASSUME NEW i \in 1 .. Len(DaysOf[q]) PROVE Credit(q, DaysOf[q][i]) \in Sound(C)
      OBVIOUS
    <2>1. DaysOf[q][i] \in LeaveDays /\ i \in DOMAIN DaysOf[q] BY <1>1
    <2>2. Credit(q, DaysOf[q][i]) \in Statement BY <2>1 DEF Statement
    <2>3. Justified(Credit(q, DaysOf[q][i]), C) BY <2>1 DEF Justified, Credit
    <2> QED BY <2>2, <2>3 DEF Sound
  <1>3. Len(DaysOf[q]) \in Nat BY <1>1
  <1> QED BY <1>2, <1>3 DEF Crediting

LEMMA DecideSound ==
  ASSUME NEW C, NEW q \in Requests, NEW v \in {"APPROVED", "REJECTED"}
  PROVE  Decide(q, v) \in Sound(C)
  <1>1. Decide(q, v) \in Statement BY DEF Statement
  <1>2. Decide(q, v).do # "credit" BY DEF Decide
  <1> QED BY <1>1, <1>2 DEF Sound, Justified

\* A statement by its kind.
LEMMA Kinds ==
  ASSUME NEW C, NEW s \in Sound(C)
  PROVE  /\ s.do = "credit" =>
              /\ s.q \in Requests /\ s.q \in C /\ s.day \in LeaveDays
              /\ \E i \in DOMAIN DaysOf[s.q] : DaysOf[s.q][i] = s.day
         /\ s.do = "declare" => s.student \in Students /\ s.day \in LeaveDays
         /\ s.do = "decide" => s.q \in Requests /\ s.verdict \in {"APPROVED", "REJECTED"}
  <1>1. s \in Statement /\ Justified(s, C) BY DEF Sound
  <1>2. s.do = "credit" => s.q \in Requests /\ s.day \in LeaveDays
    BY <1>1 DEF Statement, Credit, Declare, Decide
  <1>3. s.do = "declare" => s.student \in Students /\ s.day \in LeaveDays
    BY <1>1 DEF Statement, Credit, Declare, Decide
  <1>4. s.do = "decide" => s.q \in Requests /\ s.verdict \in {"APPROVED", "REJECTED"}
    BY <1>1 DEF Statement, Credit, Declare, Decide
  <1> QED BY <1>1, <1>2, <1>3, <1>4 DEF Justified

LEMMA SoundStatements ==
  ASSUME NEW C
  PROVE  Seq(Sound(C)) \subseteq Seq(Statement)
  <1>1. Sound(C) \subseteq Statement BY DEF Sound
  <1> QED BY <1>1, SeqWider

\* Flagging more requests keeps the statements justified.
LEMMA SoundGrows ==
  ASSUME NEW C, NEW D, C \subseteq D
  PROVE  Seq(Sound(C)) \subseteq Seq(Sound(D))
  <1>1. Sound(C) \subseteq Sound(D) BY DEF Sound, Justified
  <1> QED BY <1>1, SeqWider

-----------------------------------------------------------------------------
LEMMA InitLeave == ASSUME StudentRequests, FaultBound, LeaveInit PROVE LeaveInv
  <1>1. LeaveTypeOK
    BY DEF LeaveInit, LeaveTypeOK, StudentRequests, FaultBound, MentorStatus, HodStatus, AdminStatus
  <1>2. todo \in Seq(Sound(credited)) BY DEF LeaveInit
  <1>3. Uncredited BY DEF LeaveInit, Uncredited
  <1>4. PointsToCredited BY DEF LeaveInit, PointsToCredited
  <1>5. LeaveDayTraced BY DEF LeaveInit, LeaveDayTraced, ExemptTypes
  <1> QED BY <1>1, <1>2, <1>3, <1>4, <1>5 DEF LeaveInv

\* A step that touches no row of the day table and only flags more requests.
LEMMA RowsKept ==
  ASSUME LeaveInv, UNCHANGED dayTable, credited \subseteq credited'
  PROVE  PointsToCredited' /\ LeaveDayTraced'
  <1>1. dayType' = dayType /\ dayReq' = dayReq BY DEF dayTable
  <1>2. PointsToCredited' BY <1>1 DEF LeaveInv, PointsToCredited
  <1>3. LeaveDayTraced'
    <2> SUFFICES ASSUME NEW w \in Students \X LeaveDays, dayType[w] \in ExemptTypes
                 PROVE  \E q \in credited' : /\ dayReq[w] = q
                                             /\ StudentOf[q] = w[1]
                                             /\ TypeOf[q] = dayType[w]
                                             /\ \E i \in DOMAIN DaysOf[q] : DaysOf[q][i] = w[2]
      BY <1>1 DEF LeaveDayTraced
    <2>1. PICK q \in credited : /\ dayReq[w] = q
                                /\ StudentOf[q] = w[1]
                                /\ TypeOf[q] = dayType[w]
                                /\ \E i \in DOMAIN DaysOf[q] : DaysOf[q][i] = w[2]
      BY DEF LeaveInv, LeaveDayTraced
    <2> QED BY <2>1
  <1> QED BY <1>2, <1>3

\* The decisions: what advisor, HOD and student do.
LEMMA DecisionKeeps ==
  ASSUME StudentRequests, FaultBound, LeaveInv, NEW q \in Requests, Decision(q)
  PROVE  LeaveInv'
  <1> USE DEF MentorStatus, HodStatus, AdminStatus, status, dayTable
  <1>1. CASE Submit(q) \/ Cancel(q) \/ HodReject(q) \/ HodReferBack(q)
    <2>1. LeaveTypeOK' BY <1>1 DEF LeaveInv, LeaveTypeOK, Submit, Cancel, HodReject, HodReferBack
    <2>2. Uncredited'
      BY <1>1 DEF LeaveInv, LeaveTypeOK, Uncredited, Submit, Cancel, HodReject, HodReferBack
    <2>3. credited' = credited /\ todo' = <<>> /\ UNCHANGED dayTable
      BY <1>1 DEF Submit, Cancel, HodReject, HodReferBack
    <2>4. PointsToCredited' /\ LeaveDayTraced' BY <2>3, RowsKept
    <2> QED BY <2>1, <2>2, <2>3, <2>4 DEF LeaveInv
  <1>2. ASSUME NEW v \in {"RECOMMENDED", "REJECTED"}, Review(q, v)
        PROVE  LeaveInv'
    <2>1. LeaveTypeOK' BY <1>2 DEF LeaveInv, LeaveTypeOK, Review
    <2>2. Uncredited' BY <1>2 DEF LeaveInv, LeaveTypeOK, Uncredited, Review
    <2>3. credited' = credited /\ todo' = <<>> /\ UNCHANGED dayTable BY <1>2 DEF Review
    <2>4. PointsToCredited' /\ LeaveDayTraced' BY <2>3, RowsKept
    <2> QED BY <2>1, <2>2, <2>3, <2>4 DEF LeaveInv
  <1>3. CASE HodApprove(q)
    <2>1. q \in credited' /\ credited \subseteq credited' /\ UNCHANGED dayTable
      BY <1>3 DEF HodApprove
    <2>2. Crediting(q) \in Seq(Sound(credited')) BY <2>1, CreditingSound
    <2>3. todo' \in Seq(Sound(credited')) BY <1>3, <2>2 DEF HodApprove
    <2>4. todo' \in Seq(Statement) BY <2>3, SoundStatements
    <2>5. LeaveTypeOK' BY <1>3, <2>4 DEF LeaveInv, LeaveTypeOK, HodApprove
    <2>6. Uncredited' BY <1>3 DEF LeaveInv, LeaveTypeOK, Uncredited, HodApprove
    <2>7. PointsToCredited' /\ LeaveDayTraced' BY <2>1, RowsKept
    <2> QED BY <2>3, <2>5, <2>6, <2>7 DEF LeaveInv
  <1> QED BY <1>1, <1>2, <1>3 DEF Decision

\* The calls that only queue statements.
LEMMA QueueKeeps ==
  ASSUME StudentRequests, FaultBound, LeaveInv,
         UNCHANGED <<status, dayTable, faults>>, holidays' \in SUBSET LeaveDays,
         todo' \in Seq(Sound(credited))
  PROVE  LeaveInv'
  <1>1. credited' = credited BY DEF status
  <1>2. todo' \in Seq(Statement) BY SoundStatements
  <1>3. LeaveTypeOK' BY <1>2 DEF LeaveInv, LeaveTypeOK, status, dayTable
  <1>4. Uncredited' BY DEF LeaveInv, Uncredited, status
  <1>5. PointsToCredited' /\ LeaveDayTraced' BY <1>1, RowsKept
  <1> QED BY <1>1, <1>3, <1>4, <1>5 DEF LeaveInv

\* The turn of one request in a bulk decision.
LEMMA DecideKeeps ==
  ASSUME StudentRequests, FaultBound, LeaveInv, DecideOne
  PROVE  LeaveInv'
  <1> DEFINE q == Head(todo).q
             v == Head(todo).verdict
  <1>1. todo # <<>> /\ Head(todo).do = "decide" BY DEF DecideOne, Due
  <1>2. Head(todo) \in Sound(credited) /\ Tail(todo) \in Seq(Sound(credited))
    BY <1>1, Rest DEF LeaveInv
  <1>3. q \in Requests /\ v \in {"APPROVED", "REJECTED"} BY <1>1, <1>2, Kinds
  <1>4. UNCHANGED <<mentor, holidays, dayTable, faults>> BY DEF DecideOne
  <1>5. CASE ~ Exists(q)
    <2>1. todo' = Tail(todo) /\ UNCHANGED <<hod, admin, credited>> BY <1>5 DEF DecideOne
    <2>2. UNCHANGED <<status, dayTable, faults>> BY <1>4, <2>1 DEF status
    <2>3. holidays' \in SUBSET LeaveDays BY <1>4 DEF LeaveInv, LeaveTypeOK
    <2>4. todo' \in Seq(Sound(credited)) BY <1>2, <2>1
    <2> QED BY <2>2, <2>3, <2>4, QueueKeeps
  <1>6. CASE Exists(q) /\ v = "REJECTED"
    <2>1. /\ admin' = [admin EXCEPT ![q] = v]
          /\ hod' = [hod EXCEPT ![q] = @]
          /\ credited' = credited
          /\ todo' = <<>> \o Tail(todo)
      BY <1>6 DEF DecideOne
    <2>2. todo' = Tail(todo) BY <1>2, <2>1
    <2>3. todo' \in Seq(Sound(credited')) BY <1>2, <2>1, <2>2
    <2>4. todo' \in Seq(Statement) BY <2>3, SoundStatements
    <2>5. hod' = hod BY <2>1 DEF LeaveInv, LeaveTypeOK
    <2>6. admin' \in [Requests -> AdminStatus] BY <1>3, <2>1 DEF LeaveInv, LeaveTypeOK, AdminStatus
    <2>7. LeaveTypeOK' BY <1>4, <2>1, <2>4, <2>5, <2>6 DEF LeaveInv, LeaveTypeOK, dayTable
    <2>8. Uncredited' BY <2>1, <2>5 DEF LeaveInv, Uncredited
    <2>9. PointsToCredited' /\ LeaveDayTraced' BY <1>4, <2>1, RowsKept
    <2> QED BY <2>3, <2>7, <2>8, <2>9 DEF LeaveInv
  <1>7. CASE Exists(q) /\ v = "APPROVED"
    <2>1. /\ admin' = [admin EXCEPT ![q] = v]
          /\ hod' = [hod EXCEPT ![q] = v]
          /\ credited' = credited \cup {q}
          /\ todo' = Crediting(q) \o Tail(todo)
      BY <1>7 DEF DecideOne
    <2>2. Crediting(q) \in Seq(Sound(credited')) BY <1>3, <2>1, CreditingSound
    <2>3. Tail(todo) \in Seq(Sound(credited')) BY <1>2, <2>1, SoundGrows
    <2>4. todo' \in Seq(Sound(credited')) BY <2>1, <2>2, <2>3
    <2>5. todo' \in Seq(Statement) BY <2>4, SoundStatements
    <2>6. admin' \in [Requests -> AdminStatus] BY <1>3, <2>1 DEF LeaveInv, LeaveTypeOK, AdminStatus
    <2>7. hod' \in [Requests -> HodStatus]
      BY <1>3, <1>7, <2>1 DEF LeaveInv, LeaveTypeOK, HodStatus
    <2>8. credited' \in SUBSET Requests BY <1>3, <2>1 DEF LeaveInv, LeaveTypeOK
    <2>9. LeaveTypeOK'
      BY <1>4, <2>5, <2>6, <2>7, <2>8 DEF LeaveInv, LeaveTypeOK, dayTable
    <2>10. Uncredited'
      BY <1>3, <1>7, <2>1 DEF LeaveInv, LeaveTypeOK, Uncredited
    <2>11. PointsToCredited' /\ LeaveDayTraced' BY <1>4, <2>1, RowsKept
    <2> QED BY <2>4, <2>9, <2>10, <2>11 DEF LeaveInv
  <1> QED BY <1>3, <1>5, <1>6, <1>7

\* One day of an approved request.
LEMMA CreditKeeps ==
  ASSUME StudentRequests, FaultBound, LeaveInv, CreditDay
  PROVE  LeaveInv'
  <1> DEFINE q == Head(todo).q
             w == <<StudentOf[q], Head(todo).day>>
  <1>1. todo # <<>> /\ Head(todo).do = "credit" BY DEF CreditDay, Due
  <1>2. Head(todo) \in Sound(credited) /\ Tail(todo) \in Seq(Sound(credited))
    BY <1>1, Rest DEF LeaveInv
  <1>3. /\ q \in Requests /\ q \in credited /\ Head(todo).day \in LeaveDays
        /\ \E i \in DOMAIN DaysOf[q] : DaysOf[q][i] = Head(todo).day
    BY <1>1, <1>2, Kinds
  <1>4. UNCHANGED <<status, holidays, faults>> /\ todo' = Tail(todo) BY DEF CreditDay
  <1>5. CASE IsHoliday(w[2])
    <2>1. UNCHANGED dayTable BY <1>5 DEF CreditDay
    <2>2. holidays' \in SUBSET LeaveDays BY <1>4 DEF LeaveInv, LeaveTypeOK
    <2> QED BY <1>2, <1>4, <2>1, <2>2, QueueKeeps
  <1>6. CASE ~IsHoliday(w[2])
    <2>1. /\ dayType' = [dayType EXCEPT ![w] = TypeOf[q]]
          /\ dayReq' = [dayReq EXCEPT ![w] = q]
      BY <1>6 DEF CreditDay
    <2>2. w \in Students \X LeaveDays BY <1>3 DEF StudentRequests
    <2>3. /\ w[1] = StudentOf[q]
          /\ \E i \in DOMAIN DaysOf[q] : DaysOf[q][i] = w[2]
      BY <1>3
    <2>4. TypeOf[q] \in ExemptTypes BY <1>3 DEF StudentRequests
    <2>5. credited' = credited /\ hod' = hod /\ todo' \in Seq(Sound(credited'))
      BY <1>2, <1>4 DEF status
    <2>6. todo' \in Seq(Statement) BY <2>5, SoundStatements
    <2> HIDE DEF q, w
    <2>7. dayType' \in [Students \X LeaveDays -> ExemptTypes \cup {"NONE", "HOLIDAY"}]
      BY <2>1, <2>2, <2>4 DEF LeaveInv, LeaveTypeOK
    <2>8. dayReq' \in [Students \X LeaveDays -> Requests \cup {NoRequest}]
      BY <1>3, <2>1, <2>2 DEF LeaveInv, LeaveTypeOK
    <2>9. LeaveTypeOK'
      BY <1>4, <2>6, <2>7, <2>8 DEF LeaveInv, LeaveTypeOK, status
    <2>10. Uncredited' BY <2>5 DEF LeaveInv, Uncredited
    <2>11. PointsToCredited'
      BY <1>3, <2>1, <2>2, <2>5 DEF LeaveInv, LeaveTypeOK, PointsToCredited
    <2>12. LeaveDayTraced'
      <3> SUFFICES ASSUME NEW x \in Students \X LeaveDays, dayType'[x] \in ExemptTypes
                   PROVE  \E r \in credited : /\ dayReq'[x] = r
                                              /\ StudentOf[r] = x[1]
                                              /\ TypeOf[r] = dayType'[x]
                                              /\ \E i \in DOMAIN DaysOf[r] : DaysOf[r][i] = x[2]
        BY <2>5 DEF LeaveDayTraced
      <3>1. CASE x = w
        <4>1. dayReq'[x] = q /\ dayType'[x] = TypeOf[q]
          BY <2>1, <2>2, <3>1 DEF LeaveInv, LeaveTypeOK
        <4> QED BY <1>3, <2>3, <3>1, <4>1
      <3>2. CASE x # w
        <4>1. dayReq'[x] = dayReq[x] /\ dayType'[x] = dayType[x]
          BY <2>1, <2>2, <3>2 DEF LeaveInv, LeaveTypeOK
        <4> QED BY <4>1 DEF LeaveInv, LeaveDayTraced
      <3> QED BY <3>1, <3>2
    <2> QED BY <2>5, <2>9, <2>10, <2>11, <2>12 DEF LeaveInv
  <1> QED BY <1>5, <1>6

\* A holiday written over the day: the row no longer exempts as leave.
LEMMA DeclareKeeps ==
  ASSUME StudentRequests, FaultBound, LeaveInv, DeclareHoliday
  PROVE  LeaveInv'
  <1> DEFINE w == <<Head(todo).student, Head(todo).day>>
  <1>1. todo # <<>> /\ Head(todo).do = "declare" BY DEF DeclareHoliday, Due
  <1>2. Head(todo) \in Sound(credited) /\ Tail(todo) \in Seq(Sound(credited))
    BY <1>1, Rest DEF LeaveInv
  <1>3. w \in Students \X LeaveDays BY <1>1, <1>2, Kinds
  <1>4. /\ UNCHANGED <<status, holidays, dayReq, faults>> /\ todo' = Tail(todo)
        /\ dayType' = [dayType EXCEPT ![w] = "HOLIDAY"]
    BY DEF DeclareHoliday
  <1>5. credited' = credited /\ hod' = hod /\ todo' \in Seq(Sound(credited'))
    BY <1>2, <1>4 DEF status
  <1>6. todo' \in Seq(Statement) BY <1>5, SoundStatements
  <1> HIDE DEF w
  <1>7. dayType' \in [Students \X LeaveDays -> ExemptTypes \cup {"NONE", "HOLIDAY"}]
    BY <1>3, <1>4 DEF LeaveInv, LeaveTypeOK
  <1>8. LeaveTypeOK' BY <1>4, <1>6, <1>7 DEF LeaveInv, LeaveTypeOK, status
  <1>9. Uncredited' BY <1>5 DEF LeaveInv, Uncredited
  <1>10. PointsToCredited' BY <1>4, <1>5 DEF LeaveInv, PointsToCredited
  <1>11. LeaveDayTraced'
    <2> SUFFICES ASSUME NEW x \in Students \X LeaveDays, dayType'[x] \in ExemptTypes
                 PROVE  \E r \in credited : /\ dayReq[x] = r
                                            /\ StudentOf[r] = x[1]
                                            /\ TypeOf[r] = dayType'[x]
                                            /\ \E i \in DOMAIN DaysOf[r] : DaysOf[r][i] = x[2]
      BY <1>4, <1>5 DEF LeaveDayTraced
    <2>1. x # w BY <1>3, <1>4 DEF LeaveInv, LeaveTypeOK, ExemptTypes
    <2>2. dayType'[x] = dayType[x] BY <1>3, <1>4, <2>1 DEF LeaveInv, LeaveTypeOK
    <2> QED BY <2>2 DEF LeaveInv, LeaveDayTraced
  <1> QED BY <1>5, <1>8, <1>9, <1>10, <1>11 DEF LeaveInv

\* A failed statement, or a handler that dies, drops statements.
LEMMA FaultKeeps ==
  ASSUME StudentRequests, FaultBound, LeaveInv, StatementFails \/ HandlerLost
  PROVE  LeaveInv'
  <1>1. /\ todo # <<>> /\ faults < MaxFaults /\ faults' = faults + 1
        /\ UNCHANGED <<status, holidays, dayTable>>
        /\ todo' = Tail(todo) \/ todo' = <<>>
    BY DEF StatementFails, HandlerLost
  <1>2. credited' = credited /\ hod' = hod BY <1>1 DEF status
  <1>3. Tail(todo) \in Seq(Sound(credited)) BY <1>1, Rest DEF LeaveInv
  <1>10. <<>> \in Seq(Sound(credited)) OBVIOUS
  <1>4. todo' \in Seq(Sound(credited'))
    <2>1. CASE todo' = Tail(todo) BY <1>2, <1>3, <2>1
    <2>2. CASE todo' = <<>> BY <1>2, <1>10, <2>2
    <2> QED BY <1>1, <2>1, <2>2
  <1>5. todo' \in Seq(Statement) BY <1>4, SoundStatements
  <1>6. faults' \in 0 .. MaxFaults BY <1>1 DEF LeaveInv, LeaveTypeOK, FaultBound
  <1>7. LeaveTypeOK' BY <1>1, <1>5, <1>6 DEF LeaveInv, LeaveTypeOK, status, dayTable
  <1>8. Uncredited' BY <1>2 DEF LeaveInv, Uncredited
  <1>9. PointsToCredited' /\ LeaveDayTraced' BY <1>1, <1>2, RowsKept
  <1> QED BY <1>4, <1>7, <1>8, <1>9 DEF LeaveInv

LEMMA NextLeave ==
  ASSUME StudentRequests, FaultBound, IsFiniteSet(Students), IsFiniteSet(LeaveDays),
         LeaveInv, [LeaveNext]_leaveVars
  PROVE  LeaveInv'
  <1>1. CASE \E q \in Requests : Decision(q) BY <1>1, DecisionKeeps
  <1>2. ASSUME NEW q \in Requests, NEW r \in Requests, NEW v \in {"APPROVED", "REJECTED"},
               AdminAct(<<q>>, v) \/ AdminAct(<<q, r>>, v)
        PROVE  LeaveInv'
    <2>1. UNCHANGED <<status, holidays, dayTable, faults>> BY <1>2 DEF AdminAct
    <2>2. Decide(q, v) \in Sound(credited) /\ Decide(r, v) \in Sound(credited) BY DecideSound
    <2>3. CASE AdminAct(<<q>>, v)
      <3>1. todo' = <<Decide(q, v)>> BY <2>3 DEF AdminAct
      <3> QED BY <2>1, <2>2, <3>1, QueueKeeps DEF LeaveInv, LeaveTypeOK
    <2>4. CASE AdminAct(<<q, r>>, v)
      <3>1. todo' = <<Decide(q, v), Decide(r, v)>> BY <2>4 DEF AdminAct
      <3> QED BY <2>1, <2>2, <3>1, QueueKeeps DEF LeaveInv, LeaveTypeOK
    <2> QED BY <1>2, <2>3, <2>4
  <1>3. ASSUME NEW hs \in SUBSET LeaveDays, SaveCalendar(hs) PROVE LeaveInv'
    <2>1. Declaring(hs) \in Seq(Sound(credited)) BY DeclaringSound
    <2>2. todo' \in Seq(Sound(credited)) /\ holidays' \in SUBSET LeaveDays
      BY <1>3, <2>1 DEF SaveCalendar
    <2>3. UNCHANGED <<status, dayTable, faults>> BY <1>3 DEF SaveCalendar
    <2> QED BY <2>2, <2>3, QueueKeeps
  <1>4. CASE SyncCalendar
    <2>1. holidays \in SUBSET LeaveDays BY DEF LeaveInv, LeaveTypeOK
    <2>2. Declaring(holidays) \in Seq(Sound(credited)) BY <2>1, DeclaringSound
    <2>3. todo' \in Seq(Sound(credited)) /\ holidays' \in SUBSET LeaveDays
      BY <1>4, <2>1, <2>2 DEF SyncCalendar
    <2>4. UNCHANGED <<status, dayTable, faults>> BY <1>4 DEF SyncCalendar
    <2> QED BY <2>3, <2>4, QueueKeeps
  <1>5. CASE Execute BY <1>5, DecideKeeps, CreditKeeps, DeclareKeeps DEF Execute
  <1>6. CASE StatementFails \/ HandlerLost BY <1>6, FaultKeeps
  <1>7. CASE UNCHANGED leaveVars
    <2>1. UNCHANGED <<status, dayTable, faults>> /\ holidays' = holidays /\ todo' = todo
      BY <1>7 DEF leaveVars
    <2> QED BY <2>1, QueueKeeps DEF LeaveInv, LeaveTypeOK
  <1> QED BY <1>1, <1>2, <1>3, <1>4, <1>5, <1>6, <1>7 DEF LeaveNext

-----------------------------------------------------------------------------
(***************************************************************************)
(* The theorems.  The hypotheses say what the tables hold: every request   *)
(* has a student, a list of days and a day type, and there are finitely    *)
(* many students and days.                                                 *)
(***************************************************************************)
LEMMA LeaveHolds ==
  ASSUME StudentRequests, FaultBound, IsFiniteSet(Students), IsFiniteSet(LeaveDays)
  PROVE  LeaveSpec => []LeaveInv
  <1>1. LeaveInit => LeaveInv BY InitLeave
  <1>2. LeaveInv /\ [LeaveNext]_leaveVars => LeaveInv' BY NextLeave
  <1> QED BY <1>1, <1>2, PTL DEF LeaveSpec

\* The columns and the statements of a running handler stay within their
\* types, whatever the order of decisions and wherever a handler dies.
THEOREM StudentLeaveTypes ==
  ASSUME StudentRequests, FaultBound, IsFiniteSet(Students), IsFiniteSet(LeaveDays)
  PROVE  LeaveSpec => []LeaveTypeOK
  <1>1. LeaveInv => LeaveTypeOK BY DEF LeaveInv
  <1> QED BY <1>1, LeaveHolds, PTL

\* A request its student cancelled was never credited and no day points to
\* it (cancel_student_leave_od_request), in whatever order advisor, HOD and
\* admin decide, for any number of requests.
THEOREM CancelledSafe ==
  ASSUME StudentRequests, FaultBound, IsFiniteSet(Students), IsFiniteSet(LeaveDays)
  PROVE  LeaveSpec => []CancelledUncredited
  <1>1. LeaveInv => CancelledUncredited
    BY DEF LeaveInv, CancelledUncredited, Uncredited, PointsToCredited, StudentRequests
  <1> QED BY <1>1, LeaveHolds, PTL

\* A day exempted as leave points to a credited request of that student, of
\* that type, that covers the day (_credit_student_attendance_v2), however
\* leaves and holidays replaced each other and whatever failed.
THEOREM LeaveDaySafe ==
  ASSUME StudentRequests, FaultBound, IsFiniteSet(Students), IsFiniteSet(LeaveDays)
  PROVE  LeaveSpec => []LeaveDayTraced
  <1>1. LeaveInv => LeaveDayTraced BY DEF LeaveInv
  <1> QED BY <1>1, LeaveHolds, PTL

\* Leave leaves the right traces: both of the above.
THEOREM TracesSafe ==
  ASSUME StudentRequests, FaultBound, IsFiniteSet(Students), IsFiniteSet(LeaveDays)
  PROVE  LeaveSpec => []LeaveTraced
  <1>1. LeaveSpec => []CancelledUncredited BY CancelledSafe
  <1>2. LeaveSpec => []LeaveDayTraced BY LeaveDaySafe
  <1>3. CancelledUncredited /\ LeaveDayTraced => LeaveTraced BY DEF LeaveTraced
  <1> QED BY <1>1, <1>2, <1>3, PTL

-----------------------------------------------------------------------------
(***************************************************************************)
(* KioskPermission, for any staff, students and permissions, and grants    *)
(* and deletions whose statements interleave and fail: no permission       *)
(* outlives its student, and access is lost for a reason.  Asked says that *)
(* a grant under way is for a student who is there, or whose deletion saw  *)
(* it: the INSERT then makes no permission the deletion did not know of.   *)
(***************************************************************************)
Asked ==
  \A p \in asking :
    p.student \notin deleting \cup left \cup {All} => owner[p.student] # NoOwner

PermInv == PermTypeOK /\ NoOldGrants /\ Asked

LEMMA PermStarts == PermissionAssumption /\ PermInit => PermInv
  BY DEF PermissionAssumption, PermInit, PermInv, PermTypeOK, NoOldGrants, Asked

LEMMA GrantSound ==
  ASSUME PermissionAssumption, PermInv, NEW a \in Staff, NEW b \in Delegates(a),
         NEW s \in Offered(a) \cup {All}, NEW until \in {"never", "later"}, Grant(a, b, s, until)
  PROVE  PermInv'
  <1> DEFINE p == [id |-> granted, grantor |-> a, grantee |-> b, student |-> s,
                   until |-> until, status |-> "ACTIVE"]
  <1>1. /\ asking' = asking \cup {p}
        /\ granted' = granted + 1 /\ granted < Grants
        /\ UNCHANGED <<owner, suspended, kiosk, global, perms, deleting, left>>
        /\ s # All => owner[s] # NoOwner
    BY DEF Grant, accounts
  <1>2. b \in Staff /\ s \in Learners \cup {All} BY DEF Delegates, Offered, Owned
  <1>3. granted \in 0 .. Grants /\ granted' \in 0 .. Grants
    BY <1>1 DEF PermInv, PermTypeOK, PermissionAssumption
  <1>4. p \in Permission BY <1>2, <1>3 DEF Permission
  <1>5. PermTypeOK' BY <1>1, <1>3, <1>4 DEF PermInv, PermTypeOK
  <1>6. p.student = s OBVIOUS
  <1> HIDE DEF p
  <1>7. Asked' BY <1>1, <1>6 DEF PermInv, Asked
  <1>8. NoOldGrants' BY <1>1 DEF PermInv, NoOldGrants
  <1> QED BY <1>5, <1>7, <1>8 DEF PermInv

LEMMA InsertSoundly ==
  ASSUME PermInv, NEW p \in asking, InsertGrant(p)
  PROVE  PermInv'
  <1>1. /\ asking' = asking \ {p} /\ perms' \subseteq perms \cup {p}
        /\ UNCHANGED <<owner, suspended, kiosk, global, granted, deleting, left>>
    BY DEF InsertGrant, accounts
  <1>2. PermTypeOK' BY <1>1 DEF PermInv, PermTypeOK
  <1> QED BY <1>1, <1>2 DEF PermInv, NoOldGrants, Asked

\* A permission that is revoked or expires stays about the same people.
LEMMA RevokeSound ==
  ASSUME PermInv, NEW a \in Staff, NEW p \in perms, Revoke(a, p)
  PROVE  PermInv'
  <1>1. /\ perms' = {IF q = p THEN [q EXCEPT !.status = "REVOKED"] ELSE q : q \in perms}
        /\ UNCHANGED <<owner, suspended, kiosk, global, granted, asking, deleting, left>>
    BY DEF Revoke, accounts
  <1>2. \A q \in perms : /\ q \in Permission
                         /\ [q EXCEPT !.status = "REVOKED"] \in Permission
                         /\ [q EXCEPT !.status = "REVOKED"].student = q.student
    BY DEF PermInv, PermTypeOK, Permission
  <1>3. \A r \in perms' : r \in Permission /\ \E q \in perms : r.student = q.student
    BY <1>1, <1>2
  <1> QED BY <1>1, <1>3 DEF PermInv, PermTypeOK, NoOldGrants, Asked

LEMMA ExpireSound ==
  ASSUME PermInv, NEW p \in perms, Expire(p)
  PROVE  PermInv'
  <1>1. /\ perms' = (perms \ {p}) \cup {[p EXCEPT !.until = "past"]}
        /\ UNCHANGED <<owner, suspended, kiosk, global, granted, asking, deleting, left>>
    BY DEF Expire, accounts
  <1>2. /\ [p EXCEPT !.until = "past"] \in Permission
        /\ [p EXCEPT !.until = "past"].student = p.student
    BY DEF PermInv, PermTypeOK, Permission
  <1>3. \A r \in perms' : r \in Permission /\ \E q \in perms : r.student = q.student
    BY <1>1, <1>2 DEF PermInv, PermTypeOK
  <1> QED BY <1>1, <1>3 DEF PermInv, PermTypeOK, NoOldGrants, Asked

\* The permissions of a student go: what is left behind is what the DELETE could not
\* see, or everything if it failed.
LEMMA DeletionSound ==
  ASSUME PermissionAssumption, PermInv, NEW s \in Learners, DeletePermissions(s)
  PROVE  PermInv'
  <1>1. deleting' = deleting \ {s} /\ UNCHANGED <<owner, suspended, kiosk, global, granted, asking>>
    BY DEF DeletePermissions, accounts
  <1>2. CASE /\ perms' = {p \in perms : p.student # s}
             /\ left' = IF \E p \in asking : p.student = s THEN left \cup {s} ELSE left \ {s}
    BY <1>1, <1>2 DEF PermInv, PermTypeOK, NoOldGrants, Asked
  <1>3. CASE left' = left \cup {s} /\ UNCHANGED perms
    BY <1>1, <1>3 DEF PermInv, PermTypeOK, NoOldGrants, Asked
  <1> QED BY <1>2, <1>3 DEF DeletePermissions

LEMMA PermSteps == ASSUME PermissionAssumption, PermInv, [PermNext]_permVars PROVE PermInv'
  <1>1. CASE UNCHANGED permVars
    BY <1>1 DEF permVars, accounts, PermInv, PermTypeOK, NoOldGrants, Asked
  <1>2. ASSUME NEW a \in Staff, Toggle(a) \/ Suspend(a) PROVE PermInv'
    BY <1>2 DEF Toggle, Suspend, PermInv, PermTypeOK, NoOldGrants, Asked
  <1>3. ASSUME NEW a \in Staff, NEW s \in Learners, RegisterFace(a, s) PROVE PermInv'
    BY <1>3 DEF RegisterFace, PermInv, PermTypeOK, NoOldGrants, Asked, PermissionAssumption, Permission
  <1>4. ASSUME NEW s \in Learners, DropProfile(s) PROVE PermInv'
    BY <1>4 DEF DropProfile, PermInv, PermTypeOK, NoOldGrants, Asked, Permission
  <1>5. CASE SwitchGlobal BY <1>5 DEF SwitchGlobal, PermInv, PermTypeOK, NoOldGrants, Asked
  <1> QED BY <1>1, <1>2, <1>3, <1>4, <1>5, GrantSound, InsertSoundly, RevokeSound, ExpireSound,
             DeletionSound
      DEF PermNext

\* No permission outlives its student: who registers a deleted student again gives
\* nobody access from before, unless the DELETE of the permissions failed or ran
\* between the checks and the INSERT of a grant, whatever else is granted, deleted
\* or registered at the same time.
THEOREM GrantsSafe == ASSUME PermissionAssumption PROVE PermSpec => []NoOldGrants
  <1>1. PermInit => PermInv BY PermStarts
  <1>2. PermInv /\ [PermNext]_permVars => PermInv' BY PermSteps
  <1>3. PermInv => NoOldGrants BY DEF PermInv
  <1> QED BY <1>1, <1>2, <1>3, PTL DEF PermSpec

\* Who may mark a student: heads and administrators, the owner, and the grantees of
\* the owner or of permissions for the student.
LEMMA AuthorizedIs ==
  ASSUME NEW a \in Staff, NEW s \in Learners
  PROVE  s \in Authorized(a) <=>
           \/ Role[a] \in {"admin", "hod"} \/ owner[s] = a
           \/ \E p \in perms : /\ p.grantee = a /\ InForce(p)
                              /\ IF p.student = All THEN owner[s] = p.grantor ELSE p.student = s
  <1>1. CASE Role[a] \in {"admin", "hod"} BY <1>1 DEF Authorized
  <1>2. CASE Role[a] \notin {"admin", "hod"}
    <2> DEFINE of(p) == IF p.student = All THEN Owned(p.grantor) ELSE {p.student}
               held == {q \in perms : q.grantee = a /\ InForce(q)}
    <2>1. Authorized(a) = Owned(a) \cup UNION {of(p) : p \in held} BY <1>2 DEF Authorized
    <2>2. s \in UNION {of(p) : p \in held} <=> \E p \in held : s \in of(p) OBVIOUS
    <2>3. \A p \in held : s \in of(p) <=> IF p.student = All THEN owner[s] = p.grantor ELSE p.student = s
      BY DEF Owned
    <2>4. s \in Owned(a) <=> owner[s] = a BY DEF Owned
    <2> HIDE DEF of
    <2> QED BY <1>2, <2>1, <2>2, <2>3, <2>4
  <1> QED BY <1>1, <1>2

\* The same after a step.
LEMMA AuthorizedNext ==
  ASSUME NEW a \in Staff, NEW s \in Learners
  PROVE  s \in Authorized(a)' <=>
           \/ Role[a] \in {"admin", "hod"} \/ owner'[s] = a
           \/ \E p \in perms' : /\ p.grantee = a /\ InForce(p)
                               /\ IF p.student = All THEN owner'[s] = p.grantor ELSE p.student = s
  <1>1. CASE Role[a] \in {"admin", "hod"} BY <1>1 DEF Authorized
  <1>2. CASE Role[a] \notin {"admin", "hod"}
    <2> DEFINE of(p) == IF p.student = All THEN {x \in Learners : owner'[x] = p.grantor} ELSE {p.student}
               held == {q \in perms' : q.grantee = a /\ InForce(q)}
    <2>1. Authorized(a)' = {x \in Learners : owner'[x] = a} \cup UNION {of(p) : p \in held}
      BY <1>2 DEF Authorized, Owned, InForce
    <2>2. s \in UNION {of(p) : p \in held} <=> \E p \in held : s \in of(p) OBVIOUS
    <2>3. \A p \in held : s \in of(p) <=> IF p.student = All THEN owner'[s] = p.grantor ELSE p.student = s
      OBVIOUS
    <2> HIDE DEF of
    <2> QED BY <1>2, <2>1, <2>2, <2>3
  <1> QED BY <1>1, <1>2

\* Access is lost by a revocation, an expiry, a deletion or a change of owner only.
THEOREM LossSafe == ASSUME PermissionAssumption PROVE PermSpec => [][LossHasReason]_permVars
  <1>1. PermInit => PermInv BY PermStarts
  <1>2. PermInv /\ [PermNext]_permVars => PermInv' BY PermSteps
  <1>3. PermInv /\ [PermNext]_permVars => [LossHasReason]_permVars
    <2> SUFFICES ASSUME PermInv, PermNext, NEW a \in Staff, NEW s \in Learners,
                        s \in Authorized(a), ~(s \in Authorized(a)'), owner'[s] = owner[s],
                        ~(s \in deleting /\ s \notin deleting')
                 PROVE  \E p \in perms : /\ p.grantee = a /\ InForce(p) /\ p.student \in {s, All}
                                         /\ \E q \in perms' : q.id = p.id /\ ~InForce(q)
                                               /\ (q.status = "REVOKED" \/ p.until = "later")
      BY DEF LossHasReason
    <2>1. PICK p \in perms : /\ p.grantee = a /\ InForce(p)
                             /\ IF p.student = All THEN owner[s] = p.grantor ELSE p.student = s
      BY AuthorizedIs, AuthorizedNext
    <2>2. p \notin perms' BY <2>1, AuthorizedNext
    <2>3. p \in Permission BY DEF PermInv, PermTypeOK
    <2>4. ASSUME NEW b \in Staff, NEW r \in perms, Revoke(b, r)
          PROVE  \E q \in perms' : q.id = p.id /\ ~InForce(q) /\ q.status = "REVOKED"
      <3> DEFINE cleared == [p EXCEPT !.status = "REVOKED"]
      <3>0. perms' = {IF q = r THEN [q EXCEPT !.status = "REVOKED"] ELSE q : q \in perms}
        BY <2>4 DEF Revoke
      <3>1. p = r BY <2>2, <3>0
      <3>2. cleared \in perms' BY <3>0, <3>1
      <3>3. cleared.id = p.id /\ cleared.status = "REVOKED" BY <2>3 DEF Permission
      <3> QED BY <3>2, <3>3 DEF InForce
    <2>5. ASSUME NEW r \in perms, Expire(r)
          PROVE  \E q \in perms' : q.id = p.id /\ ~InForce(q) /\ p.until = "later"
      <3> DEFINE q == [p EXCEPT !.until = "past"]
      <3>1. p = r /\ p.until = "later" BY <2>2, <2>5 DEF Expire
      <3>2. q \in perms' BY <2>5, <3>1 DEF Expire
      <3>3. q.id = p.id /\ q.until = "past" BY <2>3 DEF Permission
      <3> QED BY <3>1, <3>2, <3>3 DEF InForce
    <2>6. ASSUME NEW x \in Learners, DeletePermissions(x) PROVE FALSE
      <3>1. p.student = x BY <2>2, <2>6 DEF DeletePermissions
      <3>2. x = s BY <2>1, <3>1 DEF PermissionAssumption
      <3> QED BY <2>6, <3>2 DEF DeletePermissions
    <2>7. ASSUME NEW b \in Staff, \/ Toggle(b) \/ Suspend(b)
                                  \/ \E x \in Learners : RegisterFace(b, x)
                                  \/ \E c \in Delegates(b), x \in Offered(b) \cup {All},
                                        until \in {"never", "later"} : Grant(b, c, x, until)
          PROVE  p \in perms'
      BY <2>7 DEF Toggle, Suspend, RegisterFace, Grant
    <2>8. (\/ SwitchGlobal
           \/ \E x \in Learners : DropProfile(x)
           \/ \E r \in asking : InsertGrant(r)) => p \in perms'
      BY DEF SwitchGlobal, DropProfile, InsertGrant
    <2> QED BY <2>1, <2>2, <2>4, <2>5, <2>6, <2>7, <2>8 DEF PermNext
  <1> QED BY <1>1, <1>2, <1>3, PTL DEF PermSpec

-----------------------------------------------------------------------------
(***************************************************************************)
(* ClassAdvisors, for any staff, classes, students and spreadsheets: a     *)
(* class has one active advisor, and whoever looks for the advisor finds   *)
(* the same one.                                                           *)
(***************************************************************************)
\* An index refuses what the UPDATE before it should have deactivated, or that
\* UPDATE does not fail.
Guarded == Indexed \/ "deactivate" \notin AdvFaults

OneActive == \A a, b \in Active : a # b => a.staff # b.staff /\ Cohort(a) # Cohort(b)

\* The number of the request that assigns is newer than every row, and without
\* the indexes the class is free, and the member of staff too, before the row is
\* written.
Assigning ==
  /\ \A a \in advisors : a.id <= acts
  /\ loop.pc \in {"deactivate", "upsert"} =>
       /\ loop.id <= acts
       /\ \A a \in advisors : a.id < loop.id
  /\ ~Indexed /\ loop.pc = "deactivate" =>
       \A a \in Active : a.staff = loop.staff => Cohort(a) = Cohort(loop)
  /\ ~Indexed /\ loop.pc = "upsert" =>
       \A a \in Active : a.staff # loop.staff /\ Cohort(a) # Cohort(loop)

AdvInv == AdvTypeOK /\ OneActive /\ Assigning

\* What a step of the event loop or the pool is, by its program counter.
LEMMA LoopAt ==
  ASSUME AdvTypeOK
  PROVE  /\ loop.pc \in {"deactivate", "upsert", "sync", "unplaced"} =>
              loop \in [pc : {"deactivate", "upsert", "sync", "unplaced"}, batch : Batches, sem : Semesters,
                        section : Sections, staff : Mentors, id : 1 .. MaxActs]
         /\ loop.pc = "advisors" => loop \in [pc : {"advisors"}, batch : Batches,
                                              section : Sections \cup {AllSections}, sem : Semesters]
         /\ loop.pc = "register" => loop \in [pc : {"register"}, reg : Pupils, row : PupilRow]
         /\ pool.pc \in {"delete", "clear"} =>
              pool \in [pc : {"delete", "clear"}, id : 1 .. MaxActs, batch : Batches, section : Sections]
         /\ pool.pc = "import" => pool \in [pc : {"import"}, rows : Seq(SheetRow) \ {<<>>},
                                            overwrite : BOOLEAN, done : Nat]
  BY DEF AdvTypeOK, LoopJob, PoolJob, Free

LEMMA AdvStarts == AdvisorSettings /\ AdvInit => AdvInv
  BY DEF AdvisorSettings, AdvInit, AdvInv, AdvTypeOK, OneActive, Assigning, Active, Free

\* The rows of the advisors stay, whatever happens to the pupils.
LEMMA AdvisorsStay ==
  ASSUME AdvInv, advisors' = advisors, acts' = acts \/ acts' = acts + 1, acts' \in 0 .. MaxActs,
         stops' \in 0 .. MaxStops, pupils' \in [Pupils -> PupilRow \cup {NoPupil}],
         loop' \in LoopJob \cup {Free}, pool' \in PoolJob \cup {Free},
         loop' = loop \/ loop'.pc \notin {"deactivate", "upsert"}
  PROVE  AdvInv'
  <1>1. acts \in Nat /\ acts <= acts' BY DEF AdvInv, AdvTypeOK
  <1>2. \A a \in advisors : a.id \in Nat BY DEF AdvInv, AdvTypeOK, AdvisorRow
  <1>3. loop.pc \in {"deactivate", "upsert"} => loop.id \in Nat BY LoopAt DEF AdvInv
  <1>4. AdvTypeOK' BY DEF AdvInv, AdvTypeOK
  <1>5. OneActive' BY DEF AdvInv, OneActive, Active
  <1>6. Assigning' BY <1>1, <1>2, <1>3 DEF AdvInv, Assigning, Active
  <1> QED BY <1>4, <1>5, <1>6 DEF AdvInv

\* Rows only go, or become inactive.
Fewer ==
  \A a \in advisors' : \E b \in advisors :
    /\ a.id = b.id /\ a.batch = b.batch /\ a.sem = b.sem /\ a.section = b.section /\ a.staff = b.staff
    /\ a.active \in BOOLEAN /\ (a.active => b.active)
    /\ a \in AdvisorRow

LEMMA FewerKeeps ==
  ASSUME AdvInv, Fewer, UNCHANGED <<pupils, acts, stops>>,
         \A a, b \in advisors' : a.id = b.id => a = b,
         loop' \in LoopJob \cup {Free}, pool' \in PoolJob \cup {Free},
         loop' = loop \/ loop'.pc \notin {"deactivate", "upsert"}
  PROVE  AdvInv'
  <1>1. \A a, b \in advisors : a.id = b.id \/ Class(a) = Class(b) => a = b BY DEF AdvInv, AdvTypeOK
  <1>2. ASSUME NEW a \in advisors', NEW b \in advisors', a.id = b.id \/ Class(a) = Class(b) PROVE a = b
    <2>1. PICK x \in advisors : a.id = x.id /\ Class(a) = Class(x) BY DEF Fewer, Class
    <2>2. PICK y \in advisors : b.id = y.id /\ Class(b) = Class(y) BY DEF Fewer, Class
    <2>3. x = y BY <1>1, <1>2, <2>1, <2>2
    <2> QED BY <2>1, <2>2, <2>3
  <1>3. advisors' \subseteq AdvisorRow BY DEF Fewer
  <1>4. AdvTypeOK'
    BY <1>2, <1>3 DEF AdvInv, AdvTypeOK, Class
  <1>5. \A a \in Active' : \E b \in Active : a.id = b.id /\ a.staff = b.staff /\ Cohort(a) = Cohort(b)
    BY DEF Fewer, Active, Cohort
  <1>6. \A a, b \in Active' : a.id = b.id => a = b BY DEF Active
  <1>7. OneActive'
    <2> SUFFICES ASSUME NEW a \in Active', NEW b \in Active', a # b
                 PROVE  a.staff # b.staff /\ Cohort(a) # Cohort(b)
      BY DEF OneActive, Cohort
    <2>1. PICK x \in Active : a.id = x.id /\ a.staff = x.staff /\ Cohort(a) = Cohort(x) BY <1>5
    <2>2. PICK y \in Active : b.id = y.id /\ b.staff = y.staff /\ Cohort(b) = Cohort(y) BY <1>5
    <2>3. x # y BY <1>6, <2>1, <2>2
    <2> QED BY <2>1, <2>2, <2>3 DEF AdvInv, OneActive
  <1>8. \A a \in advisors' : \E b \in advisors : a.id = b.id BY DEF Fewer
  <1>9. CASE loop' = loop
    <2>1. \A a \in Active' : \E b \in Active : a.staff = b.staff /\ Cohort(a) = Cohort(b) BY <1>5
    <2>2. Assigning' BY <1>8, <1>9, <2>1 DEF AdvInv, Assigning, Cohort
    <2> QED BY <1>4, <1>7, <2>2 DEF AdvInv
  <1>10. CASE loop'.pc \notin {"deactivate", "upsert"}
    <2>1. Assigning' BY <1>8, <1>10 DEF AdvInv, Assigning
    <2> QED BY <1>4, <1>7, <2>1 DEF AdvInv
  <1> QED BY <1>9, <1>10

LEMMA AssignSound ==
  ASSUME AdvisorSettings, AdvInv, NEW b \in Batches, NEW m \in Semesters, NEW c \in Sections, NEW w \in Mentors,
         Assign(b, m, c, w)
  PROVE  AdvInv'
  <1>1. /\ acts < MaxActs /\ acts' = acts + 1 /\ UNCHANGED <<advisors, pupils, pool, stops>>
        /\ loop' = [pc |-> "deactivate", batch |-> b, sem |-> m, section |-> c, staff |-> w, id |-> acts']
        /\ \A a \in Active : a.staff = w => Cohort(a) = <<b, c>>
    BY DEF Assign, Act
  <1>2. acts \in Nat /\ acts' \in 1 .. MaxActs BY <1>1 DEF AdvInv, AdvTypeOK, AdvisorSettings
  <1>3. loop' \in LoopJob BY <1>1, <1>2 DEF LoopJob
  <1>4. AdvTypeOK' BY <1>1, <1>2, <1>3 DEF AdvInv, AdvTypeOK
  <1>5. OneActive' BY <1>1 DEF AdvInv, OneActive, Active
  <1>6. \A a \in advisors : a.id \in Nat /\ a.id <= acts BY DEF AdvInv, AdvTypeOK, AdvisorRow, Assigning
  <1>7. \A a \in advisors' : a.id <= acts' /\ a.id < acts' BY <1>1, <1>2, <1>6
  <1>8. \A a \in Active' : a.staff = w => Cohort(a) = Cohort(loop') BY <1>1 DEF Active, Cohort
  <1>9. loop'.pc = "deactivate" /\ loop'.id = acts' /\ loop'.staff = w /\ acts' <= acts' BY <1>1, <1>2
  <1>10. Assigning' BY <1>7, <1>8, <1>9 DEF Assigning
  <1> QED BY <1>4, <1>5, <1>10 DEF AdvInv

LEMMA DeactivateSound == ASSUME AdvInv, Deactivate PROVE AdvInv'
  <1> DEFINE switched(a) == [a EXCEPT !.active = a.active /\ Cohort(a) # Cohort(loop)]
  <1>1. /\ loop.pc = "deactivate" /\ loop' = [loop EXCEPT !.pc = "upsert"]
        /\ advisors' = {switched(a) : a \in advisors}
        /\ UNCHANGED <<pupils, pool, acts, stops>>
    BY DEF Deactivate
  <1>2. loop \in [pc : {"deactivate", "upsert", "sync", "unplaced"}, batch : Batches, sem : Semesters,
                  section : Sections, staff : Mentors, id : 1 .. MaxActs]
    BY <1>1, LoopAt DEF AdvInv
  <1>3. ASSUME NEW a \in advisors
        PROVE  /\ switched(a) \in AdvisorRow
               /\ switched(a).id = a.id /\ Class(switched(a)) = Class(a) /\ switched(a).staff = a.staff
               /\ switched(a).active = (a.active /\ Cohort(a) # Cohort(loop)) /\ Cohort(switched(a)) = Cohort(a)
    <2> DEFINE on == a.active /\ Cohort(a) # Cohort(loop)
    <2>1. a \in AdvisorRow BY DEF AdvInv, AdvTypeOK
    <2>2. on \in BOOLEAN OBVIOUS
    <2>3. switched(a) = [a EXCEPT !.active = on] OBVIOUS
    <2> HIDE DEF on, switched
    <2>4. /\ switched(a) \in AdvisorRow
          /\ switched(a).id = a.id /\ switched(a).batch = a.batch /\ switched(a).sem = a.sem
          /\ switched(a).section = a.section /\ switched(a).staff = a.staff /\ switched(a).active = on
      BY <2>1, <2>2, <2>3 DEF AdvisorRow
    <2> QED BY <2>4 DEF Class, Cohort, on
  <1> HIDE DEF switched
  <1>4. \A a \in advisors' : \E x \in advisors : a = switched(x) BY <1>1
  <1>5. AdvTypeOK'
    <2>1. advisors' \subseteq AdvisorRow BY <1>3, <1>4
    <2>2. ASSUME NEW a \in advisors', NEW b \in advisors', a.id = b.id \/ Class(a) = Class(b) PROVE a = b
      <3>1. PICK x \in advisors : a = switched(x) BY <1>4
      <3>2. PICK y \in advisors : b = switched(y) BY <1>4
      <3>3. x.id = y.id \/ Class(x) = Class(y) BY <1>3, <2>2, <3>1, <3>2
      <3>4. x = y BY <3>3 DEF AdvInv, AdvTypeOK
      <3> QED BY <3>1, <3>2, <3>4
    <2>3. loop' \in LoopJob BY <1>1, <1>2 DEF LoopJob
    <2> QED BY <1>1, <2>1, <2>2, <2>3 DEF AdvInv, AdvTypeOK, Class
  <1>6. \A a \in Active' : \E x \in Active : a = switched(x) /\ Cohort(x) # Cohort(loop)
    BY <1>3, <1>4 DEF Active
  <1>7. OneActive'
    <2> SUFFICES ASSUME NEW a \in Active', NEW b \in Active', a # b
                 PROVE  a.staff # b.staff /\ Cohort(a) # Cohort(b)
      BY DEF OneActive, Cohort
    <2>1. PICK x \in Active : a = switched(x) BY <1>6
    <2>2. PICK y \in Active : b = switched(y) BY <1>6
    <2>3. x \in advisors /\ y \in advisors /\ x # y BY <2>1, <2>2 DEF Active
    <2> QED BY <1>3, <2>1, <2>2, <2>3 DEF AdvInv, OneActive
  <1>8. /\ loop'.pc = "upsert" /\ loop'.id = loop.id /\ loop'.staff = loop.staff
        /\ loop'.batch = loop.batch /\ loop'.section = loop.section
    BY <1>1, <1>2
  <1>9. /\ \A a \in advisors' : a.id <= acts' /\ a.id < loop'.id
        /\ loop'.id <= acts'
    BY <1>1, <1>3, <1>4, <1>8 DEF AdvInv, Assigning
  <1>10. ASSUME ~Indexed, NEW a \in Active'
         PROVE  a.staff # loop'.staff /\ Cohort(a) # Cohort(loop')
    <2>1. PICK x \in Active : a = switched(x) /\ Cohort(x) # Cohort(loop) BY <1>6
    <2>2. x \in advisors /\ x.staff # loop.staff BY <1>1, <1>10, <2>1 DEF AdvInv, Assigning, Active
    <2> QED BY <1>3, <1>8, <2>1, <2>2 DEF Cohort
  <1>11. Assigning' BY <1>8, <1>9, <1>10 DEF Assigning, Cohort
  <1> QED BY <1>5, <1>7, <1>11 DEF AdvInv

LEMMA DeactivateFailsSound ==
  ASSUME AdvisorSettings, Guarded, AdvInv, DeactivateFails PROVE AdvInv'
  <1>1. /\ loop.pc = "deactivate" /\ loop' = [loop EXCEPT !.pc = "upsert"] /\ Indexed
        /\ stops < MaxStops /\ stops' = stops + 1
        /\ UNCHANGED <<advisors, pupils, pool, acts>>
    BY DEF DeactivateFails, Guarded
  <1>2. loop \in [pc : {"deactivate", "upsert", "sync", "unplaced"}, batch : Batches, sem : Semesters,
                  section : Sections, staff : Mentors, id : 1 .. MaxActs]
    BY <1>1, LoopAt DEF AdvInv
  <1>3. loop' \in LoopJob /\ loop'.pc = "upsert" /\ loop'.id = loop.id BY <1>1, <1>2 DEF LoopJob
  <1>4. AdvTypeOK' BY <1>1, <1>3 DEF AdvInv, AdvTypeOK, AdvisorSettings
  <1>5. OneActive' BY <1>1 DEF AdvInv, OneActive, Active
  <1>6. Assigning' BY <1>1, <1>3 DEF AdvInv, Assigning
  <1> QED BY <1>4, <1>5, <1>6 DEF AdvInv

LEMMA UpsertSound == ASSUME AdvInv, UpsertAdvisor PROVE AdvInv'
  <1> DEFINE same == advisors \ Others
             id   == IF same = {} THEN loop.id ELSE (CHOOSE a \in same : TRUE).id
             new  == [id |-> id, batch |-> loop.batch, sem |-> loop.sem,
                      section |-> loop.section, staff |-> loop.staff, active |-> TRUE]
  <1>1. /\ loop.pc = "upsert" /\ loop' = [loop EXCEPT !.pc = "sync"]
        /\ advisors' = Others \cup {new}
        /\ UNCHANGED <<pupils, pool, acts, stops>>
    BY DEF UpsertAdvisor
  <1>2. loop \in [pc : {"deactivate", "upsert", "sync", "unplaced"}, batch : Batches, sem : Semesters,
                  section : Sections, staff : Mentors, id : 1 .. MaxActs]
    BY <1>1, LoopAt DEF AdvInv
  <1>3. loop' \in LoopJob /\ loop'.pc = "sync" BY <1>1, <1>2 DEF LoopJob
  <1>4. Others \subseteq advisors /\ \A a \in Others : Class(a) # Class(loop) BY DEF Others
  <1>5. id \in 1 .. MaxActs /\ id <= acts /\ \A a \in Others : a.id # id
    <2>1. CASE same = {} BY <1>1, <1>2, <1>4, <2>1 DEF AdvInv, Assigning
    <2>2. CASE same # {}
      <3>1. PICK x \in same : id = x.id BY <2>2
      <3>2. x \in advisors /\ x \notin Others BY <3>1
      <3>3. x \in AdvisorRow /\ x.id <= acts BY <3>2 DEF AdvInv, AdvTypeOK, Assigning
      <3>4. \A a \in Others : a.id # x.id BY <1>4, <3>2 DEF AdvInv, AdvTypeOK
      <3> QED BY <3>1, <3>3, <3>4 DEF AdvisorRow
    <2> QED BY <2>1, <2>2
  <1> HIDE DEF id
  <1>6. /\ new \in AdvisorRow /\ new.id = id /\ Class(new) = Class(loop) /\ Cohort(new) = Cohort(loop)
        /\ new.staff = loop.staff
    BY <1>2, <1>5 DEF AdvisorRow, Class, Cohort
  <1> HIDE DEF new
  <1>7. AdvTypeOK'
    <2>1. advisors' \subseteq AdvisorRow BY <1>1, <1>4, <1>6 DEF AdvInv, AdvTypeOK
    <2>2. \A a, b \in advisors' : a.id = b.id \/ Class(a) = Class(b) => a = b
      BY <1>1, <1>4, <1>5, <1>6 DEF AdvInv, AdvTypeOK
    <2> QED BY <1>1, <1>3, <2>1, <2>2 DEF AdvInv, AdvTypeOK, Class
  <1>8. \A a \in Others : a.active => a.staff # loop.staff /\ Cohort(a) # Cohort(loop)
    <2>1. CASE Indexed BY <2>1 DEF UpsertAdvisor
    <2>2. CASE ~Indexed BY <1>1, <1>4, <2>2 DEF AdvInv, Assigning, Active
    <2> QED BY <2>1, <2>2
  <1>9. OneActive'
    <2>1. \A a \in Active' : (a \in Active /\ a \in Others) \/ a = new BY <1>1, <1>4 DEF Active
    <2>2. \A a, b \in Active' : a # b => a.staff # b.staff /\ Cohort(a) # Cohort(b)
      BY <1>6, <1>8, <2>1 DEF AdvInv, OneActive, Active
    <2> QED BY <2>2 DEF OneActive, Cohort
  <1>10. Assigning' BY <1>1, <1>3, <1>4, <1>5, <1>6 DEF AdvInv, Assigning
  <1> QED BY <1>7, <1>9, <1>10 DEF AdvInv

LEMMA FreeIs == Free \in LoopJob \cup {Free} /\ Free \in PoolJob \cup {Free} /\ Free.pc = "idle"
  BY DEF Free

LEMMA SubsetFewer ==
  ASSUME AdvInv, advisors' \subseteq advisors
  PROVE  Fewer /\ \A a, b \in advisors' : a.id = b.id => a = b
  <1>1. \A a \in advisors : a \in AdvisorRow BY DEF AdvInv, AdvTypeOK
  <1>2. \A a \in AdvisorRow : a.active \in BOOLEAN BY DEF AdvisorRow
  <1>3. \A a, b \in advisors' : a.id = b.id => a = b BY DEF AdvInv, AdvTypeOK
  <1> QED BY <1>1, <1>2, <1>3 DEF Fewer

LEMMA UpsertRefusedSound == ASSUME AdvInv, UpsertRefused PROVE AdvInv'
  <1>1. /\ advisors' \subseteq advisors /\ loop' = Free /\ UNCHANGED <<pupils, pool, acts, stops>>
    BY DEF UpsertRefused, Others
  <1>2. pool' \in PoolJob \cup {Free} BY <1>1 DEF AdvInv, AdvTypeOK
  <1> QED BY <1>1, <1>2, FreeIs, SubsetFewer, FewerKeeps

LEMMA DeleteAdvisorSound == ASSUME AdvInv, DeleteAdvisor PROVE AdvInv'
  <1>1. /\ pool.pc = "delete" /\ pool' = [pool EXCEPT !.pc = "clear"]
        /\ advisors' \subseteq advisors /\ UNCHANGED <<pupils, loop, acts, stops>>
    BY DEF DeleteAdvisor
  <1>2. pool' \in PoolJob BY <1>1, LoopAt DEF AdvInv, PoolJob
  <1>3. loop' \in LoopJob \cup {Free} BY <1>1 DEF AdvInv, AdvTypeOK
  <1> QED BY <1>1, <1>2, <1>3, SubsetFewer, FewerKeeps

LEMMA PromoteAdvisorsSound == ASSUME AdvInv, PromoteAdvisors PROVE AdvInv'
  <1> DEFINE after(a) == IF Promoted(a) THEN [a EXCEPT !.sem = loop.sem] ELSE a
  <1>1. /\ loop.pc = "advisors" /\ loop' = Free /\ UNCHANGED <<pupils, pool, acts, stops>>
        /\ advisors' = IF \E a, b \in advisors : a # b /\ Class(after(a)) = Class(after(b))
                       THEN advisors ELSE {after(a) : a \in advisors}
    BY DEF PromoteAdvisors
  <1>2. loop.sem \in Semesters BY <1>1, LoopAt DEF AdvInv
  <1>3. ASSUME NEW a \in advisors
        PROVE  /\ after(a) \in AdvisorRow /\ after(a).id = a.id /\ after(a).staff = a.staff
               /\ Cohort(after(a)) = Cohort(a) /\ after(a).active = a.active
    <2>1. a \in AdvisorRow BY DEF AdvInv, AdvTypeOK
    <2> QED BY <1>2, <2>1 DEF AdvisorRow, Cohort
  <1>4. pool' \in PoolJob \cup {Free} BY <1>1 DEF AdvInv, AdvTypeOK
  <1> HIDE DEF after
  <1>5. CASE advisors' = advisors
    <2>1. /\ acts' \in 0 .. MaxActs /\ stops' \in 0 .. MaxStops
          /\ pupils' \in [Pupils -> PupilRow \cup {NoPupil}]
      BY <1>1 DEF AdvInv, AdvTypeOK
    <2> QED BY <1>1, <1>4, <1>5, <2>1, FreeIs, AdvisorsStay
  <1>6. CASE advisors' # advisors
    <2>1. /\ advisors' = {after(a) : a \in advisors}
          /\ \A a, b \in advisors : Class(after(a)) = Class(after(b)) => a = b
      BY <1>1, <1>6
    <2>2. \A a \in advisors' : \E x \in advisors : a = after(x) BY <2>1
    <2>3. advisors' \subseteq AdvisorRow BY <1>3, <2>2
    <2>4. ASSUME NEW a \in advisors', NEW b \in advisors', a.id = b.id \/ Class(a) = Class(b) PROVE a = b
      <3>1. PICK x \in advisors : a = after(x) BY <2>2
      <3>2. PICK y \in advisors : b = after(y) BY <2>2
      <3>3. x = y BY <1>3, <2>1, <2>4, <3>1, <3>2 DEF AdvInv, AdvTypeOK
      <3> QED BY <3>1, <3>2, <3>3
    <2>5. AdvTypeOK' BY <1>1, <1>4, <2>3, <2>4, FreeIs DEF AdvInv, AdvTypeOK, Class
    <2>6. \A a \in Active' : \E x \in Active : a = after(x) BY <1>3, <2>2 DEF Active
    <2>7. OneActive'
      <3> SUFFICES ASSUME NEW a \in Active', NEW b \in Active', a # b
                   PROVE  a.staff # b.staff /\ Cohort(a) # Cohort(b)
        BY DEF OneActive, Cohort
      <3>1. PICK x \in Active : a = after(x) BY <2>6
      <3>2. PICK y \in Active : b = after(y) BY <2>6
      <3>3. x \in advisors /\ y \in advisors /\ x # y BY <3>1, <3>2 DEF Active
      <3> QED BY <1>3, <3>1, <3>2, <3>3 DEF AdvInv, OneActive
    <2>8. Assigning' BY <1>1, <1>3, <2>2, FreeIs DEF AdvInv, Assigning
    <2> QED BY <2>5, <2>7, <2>8 DEF AdvInv
  <1> QED BY <1>5, <1>6

-----------------------------------------------------------------------------
\* A row with a column changed.
LEMMA PupilSet ==
  ASSUME NEW r \in PupilRow
  PROVE  /\ \A m \in Semesters : [r EXCEPT !.sem = m] \in PupilRow
         /\ \A b \in Batches : [r EXCEPT !.batch = b] \in PupilRow
         /\ \A c \in Sections : [r EXCEPT !.section = c] \in PupilRow
         /\ \A w \in Mentors \cup {NoMentor} : [r EXCEPT !.mentor = w] \in PupilRow
         /\ \A w \in Mentors, b \in Batches : [r EXCEPT !.mentor = w, !.batch = b] \in PupilRow
         /\ \A w \in Mentors, m \in Semesters : [r EXCEPT !.mentor = w, !.sem = m] \in PupilRow
  BY DEF PupilRow

LEMMA PupilsAre ==
  ASSUME AdvInv, NEW s \in Pupils
  PROVE  /\ pupils[s] \in PupilRow \cup {NoPupil}
         /\ s \in Present => pupils[s] \in PupilRow
  BY DEF AdvInv, AdvTypeOK, Present

LEMMA CountersAre ==
  ASSUME AdvisorSettings, AdvInv
  PROVE  /\ acts \in 0 .. MaxActs /\ stops \in 0 .. MaxStops
         /\ loop \in LoopJob \cup {Free} /\ pool \in PoolJob \cup {Free}
         /\ pupils \in [Pupils -> PupilRow \cup {NoPupil}]
         /\ Act => acts' = acts + 1 /\ acts' \in 0 .. MaxActs
  BY DEF AdvInv, AdvTypeOK, Act, AdvisorSettings

LEMMA SyncSound == ASSUME AdvisorSettings, AdvInv, SyncClass \/ SyncUnplaced PROVE AdvInv'
  <1>1. loop \in [pc : {"deactivate", "upsert", "sync", "unplaced"}, batch : Batches, sem : Semesters,
                  section : Sections, staff : Mentors, id : 1 .. MaxActs]
    BY LoopAt DEF AdvInv, SyncClass, SyncUnplaced
  <1>2. CASE SyncClass
    <2>1. \A s \in Pupils : s \in Present => [pupils[s] EXCEPT !.mentor = loop.staff, !.batch = loop.batch] \in PupilRow
      BY <1>1, PupilsAre, PupilSet
    <2>2. pupils' \in [Pupils -> PupilRow \cup {NoPupil}] BY <1>2, <2>1, PupilsAre DEF SyncClass
    <2>3. loop' = [loop EXCEPT !.pc = "unplaced"] BY <1>2 DEF SyncClass
    <2>4. loop' \in LoopJob /\ loop'.pc = "unplaced" BY <1>1, <2>3 DEF LoopJob
    <2>5. UNCHANGED <<advisors, pool, acts, stops>> BY <1>2 DEF SyncClass
    <2> QED BY <2>2, <2>4, <2>5, AdvisorsStay, CountersAre
  <1>3. CASE SyncUnplaced
    <2>1. \A s \in Pupils : s \in Present => [pupils[s] EXCEPT !.mentor = loop.staff, !.sem = loop.sem] \in PupilRow
      BY <1>1, PupilsAre, PupilSet
    <2>2. pupils' \in [Pupils -> PupilRow \cup {NoPupil}] BY <1>3, <2>1, PupilsAre DEF SyncUnplaced
    <2>3. loop' = Free /\ UNCHANGED <<advisors, pool, acts, stops>> BY <1>3 DEF SyncUnplaced
    <2> QED BY <2>2, <2>3, AdvisorsStay, CountersAre, FreeIs
  <1> QED BY <1>2, <1>3

LEMMA PromoteSound ==
  ASSUME AdvisorSettings, AdvInv, NEW b \in Batches, NEW c \in Sections \cup {AllSections}, NEW m \in Semesters,
         Promote(b, c, m)
  PROVE  AdvInv'
  <1>1. \A s \in Pupils : s \in Present => [pupils[s] EXCEPT !.sem = m] \in PupilRow BY PupilsAre, PupilSet
  <1>2. pupils' \in [Pupils -> PupilRow \cup {NoPupil}] BY <1>1, PupilsAre DEF Promote
  <1>3. loop' = [pc |-> "advisors", batch |-> b, section |-> c, sem |-> m] /\ Act
        /\ UNCHANGED <<advisors, pool, stops>>
    BY DEF Promote
  <1>4. loop' \in LoopJob /\ loop'.pc = "advisors" BY <1>3 DEF LoopJob
  <1> QED BY <1>2, <1>3, <1>4, AdvisorsStay, CountersAre

LEMMA EditSound ==
  ASSUME AdvisorSettings, AdvInv, NEW s \in Pupils, EditPupil(s) \/ DeletePupil(s)
  PROVE  AdvInv'
  <1>1. CASE EditPupil(s)
    <2>1. PICK new \in Edited(pupils[s]) : pupils' = [pupils EXCEPT ![s] = new] BY <1>1 DEF EditPupil
    <2>2. pupils[s] \in PupilRow BY <1>1, PupilsAre DEF EditPupil
    <2>3. new \in PupilRow BY <2>2, PupilSet DEF Edited
    <2>4. pupils' \in [Pupils -> PupilRow \cup {NoPupil}] BY <2>1, <2>3, CountersAre
    <2>5. Act /\ UNCHANGED <<advisors, loop, pool, stops>> BY <1>1 DEF EditPupil
    <2> QED BY <2>4, <2>5, AdvisorsStay, CountersAre
  <1>2. CASE DeletePupil(s)
    <2>1. pupils' \in [Pupils -> PupilRow \cup {NoPupil}] BY <1>2, CountersAre DEF DeletePupil
    <2>2. Act /\ UNCHANGED <<advisors, loop, pool, stops>> BY <1>2 DEF DeletePupil
    <2> QED BY <2>1, <2>2, AdvisorsStay, CountersAre
  <1> QED BY <1>1, <1>2

LEMMA RegisterSound ==
  ASSUME AdvisorSettings, AdvInv, NEW s \in Pupils, NEW new \in PupilRow, NEW overwrite \in BOOLEAN,
         RegisterPupil(s, new, overwrite)
  PROVE  AdvInv'
  <1>1. loop' = [pc |-> "register", reg |-> s, row |-> new] /\ Act /\ UNCHANGED <<advisors, pupils, pool, stops>>
    BY DEF RegisterPupil
  <1>2. loop' \in LoopJob /\ loop'.pc = "register" BY <1>1 DEF LoopJob
  <1> QED BY <1>1, <1>2, AdvisorsStay, CountersAre

LEMMA InsertSound == ASSUME AdvisorSettings, AdvInv, InsertPupil PROVE AdvInv'
  <1>1. loop.row \in PupilRow BY LoopAt DEF AdvInv, InsertPupil
  <1>2. pupils' \in [Pupils -> PupilRow \cup {NoPupil}] BY <1>1, CountersAre DEF InsertPupil
  <1>3. loop' = Free /\ UNCHANGED <<advisors, pool, acts, stops>> BY DEF InsertPupil
  <1> QED BY <1>2, <1>3, AdvisorsStay, CountersAre, FreeIs

LEMMA RemoveSound == ASSUME AdvisorSettings, AdvInv, NEW a \in advisors, RemoveAdvisor(a) PROVE AdvInv'
  <1>1. /\ pool' = [pc |-> "delete", id |-> a.id, batch |-> a.batch, section |-> a.section]
        /\ Act /\ UNCHANGED <<advisors, pupils, loop, stops>>
    BY DEF RemoveAdvisor
  <1>2. a \in AdvisorRow BY DEF AdvInv, AdvTypeOK
  <1>3. pool' \in PoolJob BY <1>1, <1>2 DEF PoolJob, AdvisorRow
  <1> QED BY <1>1, <1>3, AdvisorsStay, CountersAre

LEMMA ClearSound == ASSUME AdvisorSettings, AdvInv, ClearMentors PROVE AdvInv'
  <1>1. \A s \in Pupils : s \in Present => [pupils[s] EXCEPT !.mentor = NoMentor] \in PupilRow
    BY PupilsAre, PupilSet
  <1>2. pupils' \in [Pupils -> PupilRow \cup {NoPupil}] BY <1>1, PupilsAre DEF ClearMentors
  <1>3. pool' = Free /\ UNCHANGED <<advisors, loop, acts, stops>> BY DEF ClearMentors
  <1> QED BY <1>2, <1>3, AdvisorsStay, CountersAre, FreeIs

LEMMA ImportSound ==
  ASSUME AdvisorSettings, AdvInv, NEW sheet \in Sheets, NEW overwrite \in BOOLEAN, Import(sheet, overwrite)
  PROVE  AdvInv'
  <1>1. /\ pool' = [pc |-> "import", rows |-> sheet, overwrite |-> overwrite, done |-> 0]
        /\ Act /\ UNCHANGED <<advisors, pupils, loop, stops>>
    BY DEF Import
  <1>2. pool' \in PoolJob BY <1>1 DEF PoolJob, AdvisorSettings
  <1> QED BY <1>1, <1>2, AdvisorsStay, CountersAre

LEMMA ImportRowSound == ASSUME AdvisorSettings, AdvInv, ImportRow PROVE AdvInv'
  <1> DEFINE reg  == Head(pool.rows).reg
             new  == Head(pool.rows).row
             kept == IF new.mentor = NoMentor /\ pupils[reg] # NoPupil THEN pupils[reg].mentor ELSE new.mentor
             row  == [new EXCEPT !.mentor = kept]
  <1>1. /\ pool.pc = "import"
        /\ pupils' = IF pupils[reg] # NoPupil /\ ~pool.overwrite THEN pupils
                     ELSE [pupils EXCEPT ![reg] = row]
        /\ pool' = IF Len(pool.rows) = 1 THEN Free
                   ELSE [pool EXCEPT !.rows = Tail(pool.rows), !.done = pool.done + 1]
        /\ UNCHANGED <<advisors, loop, acts, stops>>
    BY DEF ImportRow
  <1>2. pool \in [pc : {"import"}, rows : Seq(SheetRow) \ {<<>>}, overwrite : BOOLEAN, done : Nat]
    BY <1>1, LoopAt DEF AdvInv
  <1>3. PICK sheet \in Seq(SheetRow) : sheet = pool.rows /\ sheet # <<>> BY <1>2
  <1>4. /\ Head(sheet) \in SheetRow /\ Tail(sheet) \in Seq(SheetRow)
        /\ Len(sheet) # 1 => Tail(sheet) # <<>>
    <2> HIDE DEF reg, new, row, kept
    <2>1. Len(sheet) \in Nat /\ Len(sheet) # 0 BY <1>3
    <2>2. Head(sheet) \in SheetRow BY <1>3, <2>1
    <2>3. Tail(sheet) \in Seq(SheetRow) /\ Len(Tail(sheet)) = Len(sheet) - 1 BY <1>3, <2>1
    <2>4. Len(sheet) # 1 => Len(Tail(sheet)) # 0 BY <2>1, <2>3
    <2>5. Len(<<>>) = 0 OBVIOUS
    <2> QED BY <2>2, <2>3, <2>4, <2>5
  <1>5. reg \in Pupils /\ new \in PupilRow BY <1>3, <1>4 DEF SheetRow
  <1> HIDE DEF reg, new
  <1>6. kept \in Mentors \cup {NoMentor} BY <1>5, PupilsAre DEF PupilRow
  <1> HIDE DEF kept
  <1>7. row \in PupilRow BY <1>5, <1>6, PupilSet
  <1> HIDE DEF row
  <1>8. pupils' \in [Pupils -> PupilRow \cup {NoPupil}] BY <1>1, <1>7, CountersAre
  <1>9. pool' \in PoolJob \cup {Free}
    <2>1. CASE Len(sheet) = 1 BY <1>1, <1>3, <2>1
    <2>2. CASE Len(sheet) # 1
      <3>1. pool' = [pool EXCEPT !.rows = Tail(pool.rows), !.done = pool.done + 1] BY <1>1, <1>3, <2>2
      <3>2. Tail(pool.rows) \in Seq(SheetRow) \ {<<>>} BY <1>3, <1>4, <2>2
      <3>3. pool.done + 1 \in Nat BY <1>2
      <3>4. pool' \in [pc : {"import"}, rows : Seq(SheetRow) \ {<<>>}, overwrite : BOOLEAN, done : Nat]
        <4> DEFINE S == Seq(SheetRow) \ {<<>>}
                   t == Tail(pool.rows)
        <4>1. pool \in [pc : {"import"}, rows : S, overwrite : BOOLEAN, done : Nat] BY <1>2
        <4>2. t \in S /\ pool' = [pool EXCEPT !.rows = t, !.done = pool.done + 1] BY <3>1, <3>2
        <4> HIDE DEF S, t
        <4>3. pool' \in [pc : {"import"}, rows : S, overwrite : BOOLEAN, done : Nat]
          BY <3>3, <4>1, <4>2
        <4> QED BY <4>3 DEF S
      <3> QED BY <3>4 DEF PoolJob
    <2> QED BY <2>1, <2>2
  <1> QED BY <1>1, <1>8, <1>9, AdvisorsStay, CountersAre

LEMMA StopSound == ASSUME AdvisorSettings, AdvInv, Stop PROVE AdvInv'
  <1>1. /\ stops < MaxStops /\ stops' = stops + 1 /\ loop' = Free /\ pool' = Free
        /\ UNCHANGED <<advisors, pupils, acts>>
    BY DEF Stop
  <1>2. stops' \in 0 .. MaxStops BY <1>1, CountersAre DEF AdvisorSettings
  <1> QED BY <1>1, <1>2, AdvisorsStay, CountersAre, FreeIs

LEMMA AdvSteps ==
  ASSUME AdvisorSettings, Guarded, AdvInv, [AdvNext]_advVars PROVE AdvInv'
  <1>1. CASE UNCHANGED advVars
    BY <1>1 DEF advVars, AdvInv, AdvTypeOK, OneActive, Assigning, Active, Class, Cohort
  <1> QED
    BY <1>1, AssignSound, DeactivateSound, DeactivateFailsSound, UpsertSound, UpsertRefusedSound,
       DeleteAdvisorSound, PromoteAdvisorsSound, SyncSound, PromoteSound, EditSound, RegisterSound,
       InsertSound, RemoveSound, ClearSound, ImportSound, ImportRowSound, StopSound
    DEF AdvNext

\* Where the class of a student has one active advisor, the two ways to find it agree.
LEMMA NamedAlike ==
  ASSUME AdvInv, NEW s \in Present
  PROVE  NamedForFace(s) \in {NamedForLeave(s), NoMentor}
  <1>1. CASE pupils[s].mentor # NoMentor BY <1>1 DEF NamedForFace, NamedForLeave
  <1>2. CASE pupils[s].mentor = NoMentor
    <2> DEFINE face  == {a \in Active : Class(a) = Class(pupils[s])}
               leave == {a \in Active : a.batch = pupils[s].batch /\ a.section \in {pupils[s].section}}
    <2>1. CASE face = {} BY <1>2, <2>1 DEF NamedForFace
    <2>2. CASE face # {}
      <3>1. PICK a \in face : TRUE BY <2>2
      <3>2. face \subseteq leave BY DEF Class
      <3>3. \A x, y \in leave : x = y BY DEF AdvInv, OneActive, Cohort
      <3>4. leave = {a} /\ face = {a} BY <3>1, <3>2, <3>3
      <3>5. a.id <= a.id
        <4>1. a \in AdvisorRow BY <3>1 DEF Active, AdvInv, AdvTypeOK
        <4> QED BY <4>1 DEF AdvisorRow
      <3>6. NamedForFace(s) = a.staff BY <1>2, <3>4 DEF NamedForFace
      <3>7. NamedForLeave(s) = (CHOOSE x \in leave : \A b \in leave : b.id <= x.id).staff
        <4> DEFINE of(where) == {x \in Active : x.batch = pupils[s].batch /\ x.section \in where}
        <4>1. of({pupils[s].section}) = leave OBVIOUS
        <4> QED BY <1>2, <3>4, <4>1 DEF NamedForLeave
      <3>8. NamedForLeave(s) = a.staff BY <3>4, <3>5, <3>7
      <3> QED BY <3>6, <3>8
    <2> QED BY <2>1, <2>2
  <1> QED BY <1>1, <1>2

\* However assigning, promoting and removing overlap and stop, a class has one active
\* advisor and nobody advises two, as long as an index or the UPDATE before it holds;
\* who sees a request may review it, and a request about the face names who the leave
\* request names, or nobody.
THEOREM OneAdvisorSafe ==
  ASSUME AdvisorSettings, Guarded PROVE AdvSpec => [](AdvTypeOK /\ OneAdvisor)
  <1>1. AdvInit => AdvInv BY AdvStarts
  <1>2. AdvInv /\ [AdvNext]_advVars => AdvInv' BY AdvSteps
  <1>3. AdvInv => AdvTypeOK /\ OneAdvisor
    <2> SUFFICES ASSUME AdvInv PROVE OneAdvisor BY DEF AdvInv
    <2>1. \A s \in Present, w \in Mentors : SeesRequests(w, s) <=> MayReview(w, s)
      BY DEF SeesRequests, MayReview, Cohort
    <2> QED BY <2>1, NamedAlike DEF AdvInv, OneActive, OneAdvisor
  <1> QED BY <1>1, <1>2, <1>3, PTL DEF AdvSpec
=============================================================================
