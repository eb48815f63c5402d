---------------------------- MODULE KioskProofs ----------------------------
(***************************************************************************)
(* Theorems about the two counts a screen keeps of the students present,   *)
(* and about the face of a member of staff a scan is matched with.         *)
(* Kiosk, for any students, sessions and faces, any number of handlers    *)
(* and any failing statement: the counter of a session is what was logged  *)
(* in it, unless its UPDATE failed; a student on a day off is never        *)
(* marked; nobody is accepted twice in a half unless two scans raced; and  *)
(* the dictionary of faces is the table unless reloads ran beside each     *)
(* other or beside another statement, or lacks faces a SELECT failed to    *)
(* load.  RollSheet, for any students and any number of sheets, requests   *)
(* and lost messages: a closed roll is final and nobody is shown present   *)
(* who is not, but for those a closer in a pool thread overwrote; the      *)
(* counters are those of the roll.  StaffFace, for any jobs and faces: a   *)
(* registered face is replaced at most once per permission; with the jobs  *)
(* that hold the lock of the user the cached profile is the registered     *)
(* face; what a training may take of a face registered beside it.          *)
(***************************************************************************)
EXTENDS Kiosk, RollSheet, StaffFace, SetSums, SequenceTheorems

\* A handler past the check of the session has one, and past the check of the
\* day its student is not off.
Checked(j) == j # AtRest =>
  /\ j.pc \in {"check", "half", "log", "total", "day"} => j.k \in KioskSession
  /\ j.pc \in {"half", "log", "total", "day"} => j.s \notin dayoff

KioskInv ==
  /\ KioskTypeOK
  /\ \A t \in Thread : Checked(job[t])
  /\ TotalIsLogged
  /\ OffNotMarked

KioskFacts == KioskAssumption /\ IsFiniteSet(Student) /\ IsFiniteSet(Thread)

\* The history variables have their types.
Flags == raced \subseteq Student /\ reload \in [mixed : BOOLEAN, failed : BOOLEAN]

PastSteps == {"log", "total", "day"}
LoadSteps == {"purgeday", "purgelog", "evict", "clear", "select", "fill"}

\* A student without a race has one scan past the checks at a time, whose half is
\* not marked yet; an accepted half is marked.
OncePast ==
  \A t, u \in Thread : \A s \in Student \ raced : Past(t, s) /\ Past(u, s) => t = u
NotYet == \A t \in Thread : \A s \in Student \ raced : Past(t, s) => ~ day[s][job[t].h]
MarkedIsDay ==
  \A s \in Student \ raced, h \in Half : marks[s][h] = 0 \/ (marks[s][h] = 1 /\ day[s][h])
OnceInv == OncePast /\ NotYet /\ MarkedIsDay

\* Unless reloads are mixed up there is one at a time.  It selects into an empty
\* dictionary and fills it with the rows of the table; where there is none the
\* dictionary is the table, or lacks faces after a SELECT that failed.
OneLoads == \A t, u \in Thread : Loading(t) /\ Loading(u) => t = u
Follows(j) ==
  /\ j.pc = "select" => cache = Nothing
  /\ j.pc = "fill" =>
       \A s \in Student : /\ j.rows[s] \in {None, profile[s]}
                          /\ cache[s] = IF j.rows[s] = None THEN profile[s] ELSE None
FacesInv ==
  ~ reload.mixed =>
    /\ OneLoads
    /\ \A t \in Thread : Loading(t) => Follows(job[t])
    /\ FacesRegistered

-----------------------------------------------------------------------------
\* A handler takes a step of its own: its entry of job becomes j.
Takes(t, j) == j \in {AtRest} \cup Handler /\ job' = [job EXCEPT ![t] = j]

LEMMA TakesJob ==
  ASSUME KioskTypeOK, NEW t \in Thread, NEW j, Takes(t, j)
  PROVE  /\ job' \in [Thread -> {AtRest} \cup Handler]
         /\ job'[t] = j
         /\ \A u \in Thread \ {t} : job'[u] = job[u]
  BY DEF KioskTypeOK, Takes

LEMMA AtHandler ==
  ASSUME KioskTypeOK, NEW t \in Thread, job[t] # AtRest
  PROVE  job[t] \in Handler
  BY DEF KioskTypeOK

LEMMA GotoTakes ==
  ASSUME KioskTypeOK, NEW t \in Thread, job[t] # AtRest, NEW pc \in Step, Goto(t, pc)
  PROVE  \E j \in Handler : /\ Takes(t, j)
                            /\ j.pc = pc /\ j.s = job[t].s /\ j.k = job[t].k
                            /\ j.h = job[t].h /\ j.rows = job[t].rows
  <1> DEFINE g == job[t]
             j == [job[t] EXCEPT !.pc = pc]
  <1>1. g \in Handler BY AtHandler
  <1>2. /\ j \in Handler
        /\ j.pc = pc /\ j.s = g.s /\ j.k = g.k /\ j.h = g.h /\ j.rows = g.rows
    BY <1>1 DEF Handler
  <1>3. job' = [job EXCEPT ![t] = j] BY DEF Goto, KioskTypeOK
  <1> QED BY <1>2, <1>3 DEF Takes

LEMMA DoneTakes ==
  ASSUME NEW t \in Thread, Done(t)
  PROVE  Takes(t, AtRest)
  BY DEF Done, Takes

LEMMA BeginTakes ==
  ASSUME KioskAssumption, NEW t \in Thread, NEW pc \in Step, NEW s \in Student,
         NEW k \in {None} \cup KioskSession, Begin(t, pc, s, k)
  PROVE  \E j \in Handler : Takes(t, j) /\ j.pc = pc /\ j.s = s /\ j.k = k
  <1> DEFINE j == [pc |-> pc, s |-> s, k |-> k, h |-> "FN", rows |-> Nothing]
  <1>1. Nothing \in Rows BY DEF Nothing, Rows
  <1>2. j \in Handler BY <1>1 DEF Handler, Half
  <1> QED BY <1>2 DEF Begin, Takes

\* The threads about to count an entry of session k.
Counts(j, k) == j # AtRest /\ j.pc = "total" /\ j.k = k

LEMMA CountingNat ==
  ASSUME IsFiniteSet(Thread), NEW k
  PROVE  Counting(k) \in Nat
  <1>1. IsFiniteSet({t \in Thread : At(t, "total") /\ job[t].k = k}) BY FS_Subset
  <1> QED BY <1>1, FS_CardinalityType DEF Counting

LEMMA CountingSame ==
  ASSUME KioskTypeOK, NEW t \in Thread, NEW j, Takes(t, j), NEW k,
         Counts(j, k) <=> Counts(job[t], k)
  PROVE  Counting(k)' = Counting(k)
  <1>1. \A u \in Thread : Counts(job'[u], k) <=> Counts(job[u], k) BY TakesJob
  <1>2. {u \in Thread : At(u, "total")' /\ job'[u].k = k} =
          {u \in Thread : At(u, "total") /\ job[u].k = k}
    BY <1>1 DEF At, Counts
  <1> QED BY <1>2 DEF Counting

LEMMA CountingMore ==
  ASSUME KioskTypeOK, IsFiniteSet(Thread), NEW t \in Thread, NEW j, Takes(t, j), NEW k,
         Counts(j, k), ~ Counts(job[t], k)
  PROVE  Counting(k)' = Counting(k) + 1
  <1> DEFINE C == {u \in Thread : At(u, "total") /\ job[u].k = k}
  <1>1. IsFiniteSet(C) /\ t \notin C BY FS_Subset DEF At, Counts
  <1>2. {u \in Thread : At(u, "total")' /\ job'[u].k = k} = C \cup {t}
    BY TakesJob DEF At, Counts
  <1>3. Cardinality(C \cup {t}) = Cardinality(C) + 1 BY <1>1, FS_AddElement
  <1> QED BY <1>2, <1>3 DEF Counting

LEMMA CountingLess ==
  ASSUME KioskTypeOK, IsFiniteSet(Thread), NEW t \in Thread, NEW j, Takes(t, j), NEW k,
         ~ Counts(j, k), Counts(job[t], k)
  PROVE  Counting(k) = Counting(k)' + 1
  <1> DEFINE C == {u \in Thread : At(u, "total") /\ job[u].k = k}
  <1>1. IsFiniteSet(C) /\ t \in C BY FS_Subset DEF At, Counts
  <1>2. {u \in Thread : At(u, "total")' /\ job'[u].k = k} = C \ {t}
    BY TakesJob DEF At, Counts
  <1>3. Cardinality(C \ {t}) = Cardinality(C) - 1 /\ Cardinality(C) \in Nat
    BY <1>1, FS_RemoveElement, FS_CardinalityType
  <1>4. Counting(k) = Cardinality(C) /\ Counting(k)' = Cardinality(C \ {t})
    BY <1>2 DEF Counting
  <1> HIDE DEF C
  <1> QED BY <1>3, <1>4

\* What is logged in a session, as a sum.
LEMMA LoggedIs ==
  ASSUME KioskFacts, KioskTypeOK, NEW k \in KioskSession
  PROVE  /\ log[k] \in [Student -> Nat]
         /\ Logged(k) = SumOver(log[k], Student)
         /\ Logged(k) \in Nat
         /\ \A s \in Student : log[k][s] <= Logged(k)
  <1>1. log[k] \in [Student -> Nat] BY DEF KioskTypeOK, KioskFacts, KioskAssumption
  <1>2. Logged(k) = SumOver(log[k], Student) BY DEF Logged, SumOver
  <1>3. SumOver(log[k], Student) \in Nat BY <1>1, SumUnfold DEF KioskFacts
  <1>4. \A s \in Student : log[k][s] <= SumOver(log[k], Student)
    BY <1>1, SumEntry DEF KioskFacts
  <1> QED BY <1>1, <1>2, <1>3, <1>4

LEMMA LoggedSum == \A k : Logged(k) = SumOver(log[k], Student)
  BY DEF Logged, SumOver

LEMMA LoggedNext == \A k : Logged(k)' = SumOver(log'[k], Student)
  <1>1. (\A k : Logged(k) = SumOver(log[k], Student))' BY LoggedSum, PTL
  <1> QED BY <1>1

LEMMA LoggedSame ==
  ASSUME log' = log, NEW k
  PROVE  Logged(k)' = Logged(k)
  BY LoggedSum, LoggedNext

-----------------------------------------------------------------------------
\* The handlers after a step are typed and have made their checks.
LEMMA HandlersKeep ==
  ASSUME KioskInv, NEW t \in Thread, NEW j, Takes(t, j), Checked(j), dayoff' = dayoff
  PROVE  /\ job' \in [Thread -> {AtRest} \cup Handler]
         /\ \A u \in Thread : Checked(job[u])'
  <1>1. KioskTypeOK BY DEF KioskInv
  <1>2. \A u \in Thread : Checked(job'[u]) BY <1>1, TakesJob DEF KioskInv
  <1>3. \A u \in Thread : Checked(job[u])' BY <1>2 DEF Checked
  <1> QED BY <1>1, <1>3, TakesJob

\* A step that logs and counts nothing.
LEMMA BooksKeep ==
  ASSUME KioskInv, NEW t \in Thread, NEW j, Takes(t, j),
         UNCHANGED <<total_scans, log, cleared, lost>>,
         ~ (j # AtRest /\ j.pc = "total"), ~ (job[t] # AtRest /\ job[t].pc = "total")
  PROVE  TotalIsLogged'
  <1>1. KioskTypeOK BY DEF KioskInv
  <1>2. \A k \in KioskSession : Counting(k)' = Counting(k) BY <1>1, CountingSame DEF Counts
  <1>3. \A k \in KioskSession : Logged(k)' = Logged(k) BY LoggedSame
  <1> QED BY <1>2, <1>3 DEF KioskInv, TotalIsLogged

\* A step that logs, counts and marks nothing.
LEMMA QuietKeeps ==
  ASSUME KioskInv, NEW t \in Thread, NEW j, Takes(t, j),
         UNCHANGED <<total_scans, log, day, half, dayoff, marks, cleared, lost>>, Flags',
         profile' \in Rows, cache' \in Rows,
         session' \in [KioskSession -> {"none", "open", "ended"}],
         Checked(j), ~ (j # AtRest /\ j.pc = "total"),
         ~ (job[t] # AtRest /\ job[t].pc = "total")
  PROVE  KioskInv'
  <1>1. job' \in [Thread -> {AtRest} \cup Handler] /\ \A u \in Thread : Checked(job[u])'
    BY HandlersKeep
  <1>2. KioskTypeOK' BY <1>1 DEF KioskInv, KioskTypeOK, Flags
  <1>3. TotalIsLogged' BY BooksKeep
  <1>4. OffNotMarked' BY DEF KioskInv, OffNotMarked
  <1> QED BY <1>1, <1>2, <1>3, <1>4 DEF KioskInv

\* A step that leaves the surroundings as they are keeps the flags.
LEMMA FlagsKeep ==
  ASSUME KioskInv, UNCHANGED world
  PROVE  Flags'
  BY DEF KioskInv, KioskTypeOK, Flags, world

LEMMA CheckedIdle == Checked(AtRest)
  BY DEF Checked

\* The steps that begin a handler.
LEMMA BeginKeeps ==
  ASSUME KioskFacts, KioskInv, NEW t \in Thread, job[t] = AtRest, NEW s \in Student,
         NEW k \in {None} \cup KioskSession,
         NEW pc \in {"match", "upsert", "purge", "clearday"}, Begin(t, pc, s, k),
         UNCHANGED cache, UNCHANGED tables, UNCHANGED world
  PROVE  KioskInv'
  <1>1. pc \in Step BY DEF Step
  <1>2. PICK j \in Handler : Takes(t, j) /\ j.pc = pc /\ j.s = s /\ j.k = k
    BY <1>1, BeginTakes DEF KioskFacts
  <1>3. Checked(j) BY <1>2 DEF Checked
  <1>4. profile' \in Rows /\ cache' \in Rows /\ session' \in [KioskSession -> {"none", "open", "ended"}]
    BY DEF KioskInv, KioskTypeOK, tables
  <1> QED BY <1>2, <1>3, <1>4, FlagsKeep, QuietKeeps DEF tables, world

\* The steps that only move on, or fill the tables of faces.
LEMMA MoveKeeps ==
  ASSUME KioskFacts, KioskInv, NEW t \in Thread, job[t] # AtRest, job[t].pc # "total",
         NEW pc \in Step \ {"total"}, Goto(t, pc),
         pc \in {"check", "half", "log", "day"} => job[t].k \in KioskSession,
         pc \in {"half", "log", "day"} => job[t].s \notin dayoff,
         UNCHANGED <<total_scans, log, day, half, dayoff, marks, cleared, lost>>, Flags',
         profile' \in Rows, cache' \in Rows,
         session' \in [KioskSession -> {"none", "open", "ended"}]
  PROVE  KioskInv'
  <1>1. KioskTypeOK BY DEF KioskInv
  <1>2. PICK j \in Handler : Takes(t, j) /\ j.pc = pc /\ j.s = job[t].s /\ j.k = job[t].k
    BY <1>1, GotoTakes
  <1>3. Checked(j) BY <1>2 DEF Checked
  <1> QED BY <1>2, <1>3, QuietKeeps

LEMMA DoneKeeps ==
  ASSUME KioskFacts, KioskInv, NEW t \in Thread, job[t] # AtRest, job[t].pc # "total",
         Done(t), UNCHANGED <<total_scans, log, day, half, dayoff, marks, cleared, lost>>, Flags',
         profile' \in Rows, cache' \in Rows,
         session' \in [KioskSession -> {"none", "open", "ended"}]
  PROVE  KioskInv'
  BY DoneTakes, CheckedIdle, QuietKeeps

-----------------------------------------------------------------------------
LEMMA SessionKeeps ==
  ASSUME KioskFacts, KioskInv, NEW t \in Thread, NEW k \in KioskSession,
         Start(t, k) \/ End(t, k)
  PROVE  KioskInv'
  <1>1. job[t] = AtRest /\ job' = job /\ UNCHANGED <<profile, cache, total_scans, log, day>> /\ UNCHANGED world
    BY DEF Start, End
  <1>2. session' \in [KioskSession -> {"none", "open", "ended"}]
    BY DEF KioskInv, KioskTypeOK, Start, End
  <1>3. Takes(t, AtRest) BY <1>1 DEF Takes, KioskInv, KioskTypeOK
  <1>4. profile' \in Rows /\ cache' \in Rows BY <1>1 DEF KioskInv, KioskTypeOK
  <1> QED BY <1>1, <1>2, <1>3, <1>4, CheckedIdle, FlagsKeep, QuietKeeps DEF world

LEMMA ArriveKeeps ==
  ASSUME KioskFacts, KioskInv, NEW t \in Thread, NEW s \in Student,
         \/ \E k \in KioskSession : Scan(t, k, s)
         \/ QuickScan(t, s) \/ Delete(t, s) \/ ClearAttendance(t, s)
         \/ \E overwrite \in BOOLEAN : Register(t, s, overwrite)
  PROVE  KioskInv'
  <1>1. PICK pc \in {"match", "upsert", "purge", "clearday"}, k \in {None} \cup KioskSession :
          job[t] = AtRest /\ Begin(t, pc, s, k)
    BY DEF Scan, QuickScan, Delete, ClearAttendance, Register
  <1>2. UNCHANGED cache /\ UNCHANGED tables /\ UNCHANGED world
    BY DEF Scan, QuickScan, Delete, ClearAttendance, Register
  <1> QED BY <1>1, <1>2, BeginKeeps

LEMMA MatchKeeps ==
  ASSUME KioskFacts, KioskInv, NEW t \in Thread, Match(t)
  PROVE  KioskInv'
  <1>1. /\ job[t] # AtRest /\ job[t].pc = "match"
        /\ UNCHANGED <<total_scans, log, day, half, dayoff, marks, cleared, lost>> /\ Flags'
        /\ profile' \in Rows /\ cache' \in Rows /\ session' \in [KioskSession -> {"none", "open", "ended"}]
    BY FlagsKeep DEF Match, At, tables, world, KioskInv, KioskTypeOK
  <1>2. job[t] \in Handler BY <1>1, AtHandler DEF KioskInv
  <1>3. CASE Done(t) BY <1>1, <1>3, DoneKeeps
  <1>4. CASE Goto(t, IF job[t].k = None THEN "session" ELSE "check")
    <2>1. CASE job[t].k = None
      <3>1. Goto(t, "session") BY <1>4, <2>1
      <3> QED BY <1>1, <3>1, MoveKeeps DEF Step
    <2>2. CASE job[t].k # None
      <3>1. Goto(t, "check") BY <1>4, <2>2
      <3>2. job[t].k \in KioskSession BY <1>2, <2>2 DEF Handler
      <3> QED BY <1>1, <3>1, <3>2, MoveKeeps DEF Step
    <2> QED BY <2>1, <2>2
  <1> QED BY <1>3, <1>4 DEF Match

\* A handler of a scan gets its session.
LEMMA GetsSession ==
  ASSUME KioskFacts, KioskInv, NEW t \in Thread, NEW k \in KioskSession,
         job[t] # AtRest, job[t].pc # "total",
         job' = [job EXCEPT ![t].k = k, ![t].pc = "check"],
         UNCHANGED <<profile, cache, total_scans, log, day>>, UNCHANGED world,
         session' \in [KioskSession -> {"none", "open", "ended"}]
  PROVE  KioskInv'
  <1> DEFINE j == [[job[t] EXCEPT !.k = k] EXCEPT !.pc = "check"]
  <1>1. job[t] \in Handler BY AtHandler DEF KioskInv
  <1>2. j \in Handler /\ j.pc = "check" /\ j.k = k BY <1>1 DEF Handler, Step
  <1>3. job' = [job EXCEPT ![t] = j] BY DEF KioskInv, KioskTypeOK
  <1>4. profile' \in Rows /\ cache' \in Rows BY DEF KioskInv, KioskTypeOK
  <1>5. Takes(t, j) BY <1>2, <1>3 DEF Takes
  <1>6. Checked(j) BY <1>2 DEF Checked
  <1> HIDE DEF j
  <1> QED BY <1>2, <1>4, <1>5, <1>6, FlagsKeep, QuietKeeps DEF world

LEMMA UseSessionKeeps ==
  ASSUME KioskFacts, KioskInv, NEW t \in Thread, UseSession(t)
  PROVE  KioskInv'
  <1>1. /\ job[t] # AtRest /\ job[t].pc = "session"
        /\ UNCHANGED <<profile, cache, total_scans, log, day>> /\ UNCHANGED world
        /\ session' \in [KioskSession -> {"none", "open", "ended"}]
    BY DEF UseSession, At, tables, KioskInv, KioskTypeOK
  <1>2. CASE \E k \in KioskSession : job' = [job EXCEPT ![t].k = k, ![t].pc = "check"]
    BY <1>1, <1>2, GetsSession
  <1>3. CASE Goto(t, "create")
    <2>1. profile' \in Rows /\ cache' \in Rows BY <1>1 DEF KioskInv, KioskTypeOK
    <2> QED BY <1>1, <1>3, <2>1, FlagsKeep, MoveKeeps DEF Step, world
  <1> QED BY <1>2, <1>3 DEF UseSession

LEMMA CreateSessionKeeps ==
  ASSUME KioskFacts, KioskInv, NEW t \in Thread, CreateSession(t)
  PROVE  KioskInv'
  <1>1. PICK k \in KioskSession : /\ session' = [session EXCEPT ![k] = "open"]
                             /\ job' = [job EXCEPT ![t].k = k, ![t].pc = "check"]
    BY DEF CreateSession
  <1>2. /\ job[t] # AtRest /\ job[t].pc = "create"
        /\ UNCHANGED <<profile, cache, total_scans, log, day>> /\ UNCHANGED world
    BY DEF CreateSession, At
  <1>3. session' \in [KioskSession -> {"none", "open", "ended"}] BY <1>1 DEF KioskInv, KioskTypeOK
  <1> QED BY <1>1, <1>2, <1>3, GetsSession

LEMMA CheckSessionKeeps ==
  ASSUME KioskFacts, KioskInv, NEW t \in Thread, CheckSession(t)
  PROVE  KioskInv'
  <1>1. /\ job[t] # AtRest /\ job[t].pc = "check"
        /\ UNCHANGED <<total_scans, log, day, half, dayoff, marks, cleared, lost>> /\ Flags'
        /\ profile' \in Rows /\ cache' \in Rows /\ session' \in [KioskSession -> {"none", "open", "ended"}]
    BY FlagsKeep DEF CheckSession, At, tables, world, KioskInv, KioskTypeOK
  <1>2. CASE Done(t) BY <1>1, <1>2, DoneKeeps
  <1>3. CASE /\ job[t].s \notin dayoff
             /\ job' = [job EXCEPT ![t].pc = "half", ![t].h = half]
    <2> DEFINE j == [[job[t] EXCEPT !.pc = "half"] EXCEPT !.h = half]
    <2>1. job[t] \in Handler /\ half \in Half BY <1>1, AtHandler DEF KioskInv, KioskTypeOK
    <2>2. j \in Handler /\ j.pc = "half" /\ j.k = job[t].k /\ j.s = job[t].s
      BY <2>1 DEF Handler, Step
    <2>3. job' = [job EXCEPT ![t] = j] BY <1>3 DEF KioskInv, KioskTypeOK
    <2>4. Takes(t, j) BY <2>2, <2>3 DEF Takes
    <2>5. job[t].k \in KioskSession BY <1>1 DEF KioskInv, Checked
    <2>6. Checked(j) BY <1>3, <2>2, <2>5 DEF Checked
    <2> HIDE DEF j
    <2> QED BY <1>1, <2>2, <2>4, <2>6, QuietKeeps
  <1> QED BY <1>2, <1>3 DEF CheckSession

LEMMA CheckHalfKeeps ==
  ASSUME KioskFacts, KioskInv, NEW t \in Thread, CheckHalf(t)
  PROVE  KioskInv'
  <1>1. /\ job[t] # AtRest /\ job[t].pc = "half"
        /\ UNCHANGED <<total_scans, log, day, half, dayoff, marks, cleared, lost>> /\ Flags'
        /\ profile' \in Rows /\ cache' \in Rows /\ session' \in [KioskSession -> {"none", "open", "ended"}]
    <2>1. job[t] # AtRest /\ job[t].pc = "half" BY DEF CheckHalf, At
    <2>2. job[t].s \in Student BY <2>1, AtHandler DEF KioskInv, Handler
    <2>3. Flags' BY <2>2 DEF CheckHalf, KioskInv, KioskTypeOK, Flags
    <2> QED BY <2>1, <2>3 DEF CheckHalf, tables, KioskInv, KioskTypeOK
  <1>2. job[t].k \in KioskSession /\ job[t].s \notin dayoff BY <1>1 DEF KioskInv, Checked
  <1>3. CASE Done(t) BY <1>1, <1>3, DoneKeeps
  <1>4. CASE Goto(t, "log") BY <1>1, <1>2, <1>4, MoveKeeps DEF Step
  <1> QED BY <1>3, <1>4 DEF CheckHalf

LEMMA LogKeeps ==
  ASSUME KioskFacts, KioskInv, NEW t \in Thread, Log(t)
  PROVE  KioskInv'
  <1> DEFINE k0 == job[t].k
             s0 == job[t].s
             w == log[k0]
             n == w[s0] + 1
  <1>1. KioskTypeOK /\ IsFiniteSet(Student) /\ IsFiniteSet(Thread) /\ MaxScans \in Nat
    BY DEF KioskInv, KioskFacts, KioskAssumption
  <1>2. job[t] # AtRest /\ job[t].pc = "log" BY DEF Log, At
  <1>3. s0 \in Student /\ k0 \in KioskSession /\ s0 \notin dayoff
    <2>1. job[t] \in Handler BY <1>1, <1>2, AtHandler
    <2>2. s0 \in Student BY <2>1 DEF Handler
    <2> QED BY <1>2, <2>2 DEF KioskInv, Checked
  <1>4. PICK j \in Handler : Takes(t, j) /\ j.pc = "total" /\ j.s = s0 /\ j.k = k0
    BY <1>1, <1>2, GotoTakes DEF Log, Step
  <1>5. Checked(j) BY <1>3, <1>4 DEF Checked
  <1>6. UNCHANGED <<profile, cache, session, total_scans, day, half, dayoff, marks, cleared, lost, raced, reload>>
    BY DEF Log, world
  <1>7. job' \in [Thread -> {AtRest} \cup Handler] /\ \A u \in Thread : Checked(job[u])'
    BY <1>4, <1>5, <1>6, HandlersKeep
  <1>8. log' = [log EXCEPT ![k0] = [w EXCEPT ![s0] = n]]
    BY DEF Log
  <1>9. w \in [Student -> Nat] /\ Logged(k0) \in Nat /\ w[s0] <= Logged(k0) /\ w[s0] \in Nat
    BY <1>1, <1>3, LoggedIs
  <1>10. n \in Nat /\ n \in 0..MaxScans
    <2>1. Logged(k0) + cleared[k0] < MaxScans BY DEF Log
    <2>2. cleared[k0] \in Nat BY <1>1, <1>3 DEF KioskTypeOK
    <2> QED BY <1>1, <1>9, <2>1, <2>2
  <1>11. w \in [Student -> 0..MaxScans] BY <1>1, <1>3 DEF KioskTypeOK
  <1>12. log' \in [KioskSession -> [Student -> 0..MaxScans]]
    <2>1. [w EXCEPT ![s0] = n] \in [Student -> 0..MaxScans] BY <1>10, <1>11
    <2> QED BY <1>1, <1>8, <2>1 DEF KioskTypeOK
  <1>13. KioskTypeOK' BY <1>1, <1>6, <1>7, <1>12 DEF KioskTypeOK
  <1>14. TotalIsLogged'
    <2>1. ASSUME NEW k \in KioskSession
          PROVE  total_scans[k]' + Counting(k)' + lost[k]' = Logged(k)' + cleared[k]'
      <3>1. total_scans[k] + Counting(k) + lost[k] = Logged(k) + cleared[k] BY DEF KioskInv, TotalIsLogged
      <3>2. total_scans[k]' = total_scans[k] /\ cleared[k]' = cleared[k] /\ lost[k]' = lost[k] BY <1>6
      <3>3. /\ total_scans[k] \in Nat /\ lost[k] \in Nat /\ cleared[k] \in Nat /\ Counting(k) \in Nat /\ Logged(k) \in Nat
        BY <1>1, CountingNat, LoggedIs DEF KioskTypeOK
      <3>4. CASE k = k0
        <4>1. Counting(k)' = Counting(k) + 1
          BY <1>1, <1>2, <1>4, <3>4, CountingMore DEF Counts, KioskFacts, KioskAssumption
        <4>2. log'[k] = [w EXCEPT ![s0] = n] BY <1>1, <1>8, <3>4 DEF KioskTypeOK
        <4>3. Logged(k) = SumOver(w, Student) /\ Logged(k)' = SumOver([w EXCEPT ![s0] = n], Student)
          BY <3>4, <4>2, LoggedSum, LoggedNext
        <4>6. Logged(k)' = Logged(k) + 1
          <5> DEFINE v == [w EXCEPT ![s0] = n]
          <5>1. v \in [Student -> Nat] /\ v[s0] = n /\ \A s \in Student \ {s0} : v[s] = w[s]
            BY <1>3, <1>9, <1>10
          <5>2. Logged(k)' = SumOver(v, Student) /\ IsFiniteSet(Student) /\ n = w[s0] + 1
            BY <1>1, <4>3
          <5> HIDE DEF w, s0, n, v
          <5>3. SumOver(v, Student) \in Nat /\ SumOver(w, Student) \in Nat
                /\ SumOver(v, Student) + w[s0] = SumOver(w, Student) + n
            BY <1>3, <1>9, <1>10, <5>1, <5>2, SumChange
          <5> QED BY <1>9, <4>3, <5>2, <5>3
        <4> QED BY <3>1, <3>2, <3>3, <4>1, <4>6
      <3>5. CASE k # k0
        <4>1. Counting(k)' = Counting(k) BY <1>1, <1>2, <1>4, <3>5, CountingSame DEF Counts
        <4>2. log'[k] = log[k] BY <1>1, <1>8, <3>5 DEF KioskTypeOK
        <4>3. Logged(k)' = Logged(k) BY <4>2, LoggedSum, LoggedNext
        <4> QED BY <3>1, <3>2, <4>1, <4>3
      <3> QED BY <3>4, <3>5
    <2> QED BY <2>1 DEF TotalIsLogged
  <1>15. OffNotMarked' BY <1>6 DEF KioskInv, OffNotMarked
  <1> QED BY <1>7, <1>13, <1>14, <1>15 DEF KioskInv

LEMMA CountKeeps ==
  ASSUME KioskFacts, KioskInv, NEW t \in Thread, CountScan(t)
  PROVE  KioskInv'
  <1> DEFINE k0 == job[t].k
  <1>1. KioskTypeOK /\ IsFiniteSet(Thread) BY DEF KioskInv, KioskFacts
  <1>2. job[t] # AtRest /\ job[t].pc = "total" BY DEF CountScan, At
  <1>3. k0 \in KioskSession /\ job[t].s \notin dayoff BY <1>2 DEF KioskInv, Checked
  <1>4. PICK j \in Handler : Takes(t, j) /\ j.pc = "day" /\ j.s = job[t].s /\ j.k = k0
    BY <1>1, <1>2, GotoTakes DEF CountScan, Step
  <1>5. Checked(j) BY <1>3, <1>4 DEF Checked
  <1>6. UNCHANGED <<profile, cache, session, log, day, half, dayoff, marks, cleared, lost, raced, reload>>
    BY DEF CountScan, world
  <1>7. job' \in [Thread -> {AtRest} \cup Handler] /\ \A u \in Thread : Checked(job[u])'
    BY <1>4, <1>5, <1>6, HandlersKeep
  <1>8. total_scans' = [total_scans EXCEPT ![k0] = total_scans[k0] + 1] BY DEF CountScan
  <1>9. total_scans' \in [KioskSession -> Nat] BY <1>1, <1>3, <1>8 DEF KioskTypeOK
  <1>10. KioskTypeOK' BY <1>1, <1>6, <1>7, <1>9 DEF KioskTypeOK
  <1>11. TotalIsLogged'
    <2>1. ASSUME NEW k \in KioskSession
          PROVE  total_scans[k]' + Counting(k)' + lost[k]' = Logged(k)' + cleared[k]'
      <3>1. total_scans[k] + Counting(k) + lost[k] = Logged(k) + cleared[k] BY DEF KioskInv, TotalIsLogged
      <3>2. cleared[k]' = cleared[k] /\ lost[k]' = lost[k] /\ Logged(k)' = Logged(k) BY <1>6, LoggedSame
      <3>3. total_scans[k] \in Nat /\ Counting(k) \in Nat BY <1>1, CountingNat DEF KioskTypeOK
      <3>4. CASE k = k0
        <4>1. Counting(k) = Counting(k)' + 1
          BY <1>1, <1>2, <1>4, <3>4, CountingLess DEF Counts
        <4>2. total_scans'[k] = total_scans[k] + 1 BY <1>1, <1>8, <3>4 DEF KioskTypeOK
        <4>3. \A a, b, c \in Nat : b = c + 1 => (a + 1) + c = a + b OBVIOUS
        <4>4. Counting(k)' \in Nat
          <5>1. IsFiniteSet({u \in Thread : At(u, "total")' /\ job'[u].k = k}) BY <1>1, FS_Subset
          <5> QED BY <5>1, FS_CardinalityType DEF Counting
        <4>5. (total_scans[k] + 1) + Counting(k)' = total_scans[k] + Counting(k) BY <3>3, <4>1, <4>3, <4>4
        <4> QED BY <3>1, <3>2, <4>2, <4>5
      <3>5. CASE k # k0
        <4>1. Counting(k)' = Counting(k) BY <1>1, <1>2, <1>4, <3>5, CountingSame DEF Counts
        <4>2. total_scans'[k] = total_scans[k] BY <1>1, <1>8, <3>5 DEF KioskTypeOK
        <4> QED BY <3>1, <3>2, <4>1, <4>2
      <3> QED BY <3>4, <3>5
    <2> QED BY <2>1 DEF TotalIsLogged
  <1>12. OffNotMarked' BY <1>6 DEF KioskInv, OffNotMarked
  <1> QED BY <1>7, <1>10, <1>11, <1>12 DEF KioskInv

LEMMA CountFailsKeeps ==
  ASSUME KioskFacts, KioskInv, NEW t \in Thread, CountFails(t)
  PROVE  KioskInv'
  <1> DEFINE k0 == job[t].k
  <1>1. KioskTypeOK /\ IsFiniteSet(Thread) BY DEF KioskInv, KioskFacts
  <1>2. job[t] # AtRest /\ job[t].pc = "total" BY DEF CountFails, Fails, At
  <1>3. k0 \in KioskSession BY <1>2 DEF KioskInv, Checked
  <1>4. Takes(t, AtRest) BY DoneTakes DEF CountFails, Fails
  <1>6. UNCHANGED <<profile, cache, session, total_scans, log, day, half, dayoff, marks, cleared, raced, reload>>
    BY DEF CountFails, tables
  <1>7. job' \in [Thread -> {AtRest} \cup Handler] /\ \A u \in Thread : Checked(job[u])'
    BY <1>4, <1>6, CheckedIdle, HandlersKeep
  <1>8. lost' = [lost EXCEPT ![k0] = lost[k0] + 1] BY DEF CountFails
  <1>9. lost' \in [KioskSession -> Nat] BY <1>1, <1>3, <1>8 DEF KioskTypeOK
  <1>10. KioskTypeOK' BY <1>1, <1>6, <1>7, <1>9 DEF KioskTypeOK
  <1>11. TotalIsLogged'
    <2>1. ASSUME NEW k \in KioskSession
          PROVE  total_scans[k]' + Counting(k)' + lost[k]' = Logged(k)' + cleared[k]'
      <3>1. total_scans[k] + Counting(k) + lost[k] = Logged(k) + cleared[k] BY DEF KioskInv, TotalIsLogged
      <3>2. total_scans[k]' = total_scans[k] /\ cleared[k]' = cleared[k] /\ Logged(k)' = Logged(k)
        BY <1>6, LoggedSame
      <3>3. total_scans[k] \in Nat /\ Counting(k) \in Nat /\ lost[k] \in Nat BY <1>1, CountingNat DEF KioskTypeOK
      <3>4. CASE k = k0
        <4>1. Counting(k) = Counting(k)' + 1
          BY <1>1, <1>2, <1>4, <3>4, CountingLess DEF Counts
        <4>2. lost'[k] = lost[k] + 1 BY <1>1, <1>8, <3>4 DEF KioskTypeOK
        <4>3. \A a, b, c, d \in Nat : b = c + 1 => (a + c) + (d + 1) = (a + b) + d OBVIOUS
        <4>4. Counting(k)' \in Nat
          <5>1. IsFiniteSet({u \in Thread : At(u, "total")' /\ job'[u].k = k}) BY <1>1, FS_Subset
          <5> QED BY <5>1, FS_CardinalityType DEF Counting
        <4>5. (total_scans[k] + Counting(k)') + (lost[k] + 1) = (total_scans[k] + Counting(k)) + lost[k]
          BY <3>3, <4>1, <4>3, <4>4
        <4> QED BY <3>1, <3>2, <4>2, <4>5
      <3>5. CASE k # k0
        <4>1. Counting(k)' = Counting(k) BY <1>1, <1>2, <1>4, <3>5, CountingSame DEF Counts
        <4>2. lost'[k] = lost[k] BY <1>1, <1>8, <3>5 DEF KioskTypeOK
        <4> QED BY <3>1, <3>2, <4>1, <4>2
      <3> QED BY <3>4, <3>5
    <2> QED BY <2>1 DEF TotalIsLogged
  <1>12. OffNotMarked' BY <1>6 DEF KioskInv, OffNotMarked
  <1> QED BY <1>7, <1>10, <1>11, <1>12 DEF KioskInv

LEMMA RaisesKeeps ==
  ASSUME KioskFacts, KioskInv, NEW t \in Thread, Raises(t)
  PROVE  KioskInv'
  <1>1. job[t] # AtRest /\ job[t].pc # "total" /\ Done(t) BY DEF Raises, Fails, At
  <1>2. UNCHANGED <<profile, cache, session, total_scans, log, day, half, dayoff, marks, cleared, lost>> /\ Flags'
    BY FlagsKeep DEF Raises, tables, world
  <1>3. profile' \in Rows /\ cache' \in Rows /\ session' \in [KioskSession -> {"none", "open", "ended"}]
    BY <1>2 DEF KioskInv, KioskTypeOK
  <1> QED BY <1>1, <1>2, <1>3, DoneKeeps

LEMMA MarkDayKeeps ==
  ASSUME KioskFacts, KioskInv, NEW t \in Thread, MarkDay(t)
  PROVE  KioskInv'
  <1> DEFINE s0 == job[t].s
             h0 == job[t].h
             m == IF marks[s0][h0] > 1 THEN marks[s0][h0] ELSE marks[s0][h0] + 1
  <1>1. KioskTypeOK BY DEF KioskInv
  <1>2. job[t] # AtRest /\ job[t].pc = "day" BY DEF MarkDay, At
  <1>3. s0 \in Student /\ h0 \in Half /\ s0 \notin dayoff
    <2>1. job[t] \in Handler BY <1>1, <1>2, AtHandler
    <2>2. s0 \in Student /\ h0 \in Half BY <2>1 DEF Handler
    <2> QED BY <1>2, <2>2 DEF KioskInv, Checked
  <1>4. UNCHANGED <<profile, cache, session, total_scans, log, half, dayoff, cleared, lost, reload>> /\ Takes(t, AtRest)
    BY DoneTakes DEF MarkDay
  <1>11. raced' \subseteq Student BY <1>1, <1>3 DEF MarkDay, KioskTypeOK
  <1>5. job' \in [Thread -> {AtRest} \cup Handler] /\ \A u \in Thread : Checked(job[u])'
    BY <1>4, CheckedIdle, HandlersKeep
  <1>6. TotalIsLogged' BY <1>2, <1>4, BooksKeep
  <1>7. /\ day' \in [Student -> [Half -> BOOLEAN]]
        /\ \A s \in dayoff : day'[s] = day[s]
    <2>1. \/ day' = [day EXCEPT ![s0] = [day[s0] EXCEPT ![h0] = TRUE]]
          \/ day' = day
      BY DEF MarkDay
    <2> HIDE DEF s0, h0
    <2>2. day \in [Student -> [Half -> BOOLEAN]] /\ dayoff \subseteq Student BY <1>1 DEF KioskTypeOK
    <2>3. [day[s0] EXCEPT ![h0] = TRUE] \in [Half -> BOOLEAN] BY <1>3, <2>2
    <2> QED BY <1>3, <2>1, <2>2, <2>3
  <1>8. /\ marks' \in [Student -> [Half -> 0..2]]
        /\ \A s \in dayoff : marks'[s] = marks[s]
    <2>1. marks' = [marks EXCEPT ![s0] = [marks[s0] EXCEPT ![h0] = m]] BY DEF MarkDay
    <2>2. marks \in [Student -> [Half -> 0..2]] /\ dayoff \subseteq Student BY <1>1 DEF KioskTypeOK
    <2>3. marks[s0][h0] \in 0..2 BY <1>3, <2>2
    <2>4. m \in 0..2 BY <2>3
    <2> HIDE DEF s0, h0, m
    <2>5. [marks[s0] EXCEPT ![h0] = m] \in [Half -> 0..2] BY <1>3, <2>2, <2>4
    <2> QED BY <1>3, <2>1, <2>2, <2>5
  <1>9. KioskTypeOK' BY <1>1, <1>4, <1>5, <1>7, <1>8, <1>11 DEF KioskTypeOK
  <1>10. OffNotMarked' BY <1>4, <1>7, <1>8 DEF KioskInv, OffNotMarked
  <1> QED BY <1>5, <1>6, <1>9, <1>10 DEF KioskInv

-----------------------------------------------------------------------------
LEMMA NothingRows == Nothing \in Rows
  BY DEF Nothing, Rows

\* The tables of faces keep their types.
LEMMA FacesKeep ==
  ASSUME KioskFacts, KioskInv, NEW t \in Thread,
         Upsert(t) \/ Clear(t) \/ Select(t) \/ SelectFails(t) \/ Fill(t) \/ PurgeProfile(t) \/ Evict(t)
  PROVE  /\ profile' \in Rows /\ cache' \in Rows
         /\ session' \in [KioskSession -> {"none", "open", "ended"}]
         /\ UNCHANGED <<total_scans, log, day, half, dayoff, marks, cleared, lost>> /\ Flags'
         /\ job[t] # AtRest /\ job[t].pc \notin {"total", "purgeday", "purgelog"}
         /\ job[t] \in Handler
  <1>1. KioskTypeOK BY DEF KioskInv
  <1>2. /\ job[t] # AtRest /\ job[t].pc \notin {"total", "purgeday", "purgelog"}
        /\ UNCHANGED <<session, total_scans, log, day, half, dayoff, marks, cleared, lost, raced>>
    BY DEF Upsert, Clear, Select, SelectFails, Fails, Fill, PurgeProfile, Evict, At, tables
  <1>6. Flags'
    <2>1. \A b \in BOOLEAN : [reload EXCEPT !.mixed = b] \in [mixed : BOOLEAN, failed : BOOLEAN]
      BY <1>1 DEF KioskTypeOK
    <2>2. reload.mixed \in BOOLEAN /\ Alone(t) \in BOOLEAN BY <1>1 DEF KioskTypeOK, Alone
    <2>3. \A b \in BOOLEAN : Reload(b) => reload' \in [mixed : BOOLEAN, failed : BOOLEAN]
      BY <2>1 DEF Reload
    <2>4. (reload.mixed \/ ~ Alone(t)) \in BOOLEAN /\ (~ Alone(t)) \in BOOLEAN BY <2>2
    <2>5. CASE Reload(reload.mixed \/ ~ Alone(t)) \/ Reload(~ Alone(t))
      <3>1. reload' \in [mixed : BOOLEAN, failed : BOOLEAN] BY <2>3, <2>4, <2>5
      <3> QED BY <1>1, <1>2, <3>1 DEF KioskTypeOK, Flags
    <2>6. CASE \E f \in BOOLEAN : reload' = [mixed |-> reload.mixed \/ ~ Alone(t), failed |-> f]
      <3>1. reload' \in [mixed : BOOLEAN, failed : BOOLEAN] BY <2>4, <2>6
      <3> QED BY <1>1, <1>2, <3>1 DEF KioskTypeOK, Flags
    <2> QED BY <2>5, <2>6 DEF Upsert, Clear, Select, SelectFails, Fill, PurgeProfile, Evict
  <1>3. job[t] \in Handler /\ job[t].s \in Student /\ job[t].rows \in Rows
    BY <1>1, <1>2, AtHandler DEF Handler
  <1>4. profile' \in Rows
    <2>1. profile \in Rows BY <1>1 DEF KioskTypeOK
    <2>2. CASE UNCHANGED profile BY <2>1, <2>2
    <2>3. CASE \E v \in {None} \cup 1..Versions : profile' = [profile EXCEPT ![job[t].s] = v]
      BY <1>3, <2>1, <2>3 DEF Rows
    <2> QED BY <2>2, <2>3 DEF Upsert, Clear, Select, SelectFails, Fill, PurgeProfile, Evict, tables
  <1>5. cache' \in Rows
    <2>1. cache \in Rows BY <1>1 DEF KioskTypeOK
    <2>2. CASE UNCHANGED cache BY <2>1, <2>2
    <2>3. CASE cache' = Nothing BY <2>3, NothingRows
    <2>4. CASE \E s \in Student, v \in {None} \cup 1..Versions : cache' = [cache EXCEPT ![s] = v]
      BY <2>1, <2>4 DEF Rows
    <2>5. \A s \in Student : job[t].rows[s] \in {None} \cup 1..Versions BY <1>3 DEF Rows
    <2>6. CASE Fill(t) BY <2>2, <2>4, <2>5, <2>6 DEF Fill
    <2>7. CASE Evict(t) BY <1>3, <2>4, <2>7 DEF Evict
    <2> QED BY <2>2, <2>3, <2>6, <2>7 DEF Upsert, Clear, Select, SelectFails, PurgeProfile
  <1> QED BY <1>1, <1>2, <1>3, <1>4, <1>5, <1>6 DEF KioskTypeOK

LEMMA FaceStepsKeep ==
  ASSUME KioskFacts, KioskInv, NEW t \in Thread,
         Upsert(t) \/ Clear(t) \/ Select(t) \/ SelectFails(t) \/ Fill(t) \/ PurgeProfile(t) \/ Evict(t)
  PROVE  KioskInv'
  <1>1. CASE \E pc \in {"clear", "select", "purgeday"} : Goto(t, pc)
    <2>1. PICK pc \in {"clear", "select", "purgeday"} : Goto(t, pc) BY <1>1
    <2>2. pc \in Step \ {"total"} BY DEF Step
    <2> QED BY <2>1, <2>2, FacesKeep, MoveKeeps
  <1>2. CASE Done(t) BY <1>2, FacesKeep, DoneKeeps
  <1>3. CASE Select(t)
    <2> DEFINE j == [[job[t] EXCEPT !.rows = profile] EXCEPT !.pc = "fill"]
    <2>1. job[t] \in Handler /\ profile \in Rows BY FacesKeep DEF KioskInv, KioskTypeOK
    <2>2. j \in Handler /\ j.pc = "fill" BY <2>1 DEF Handler, Step
    <2>3. job' = [job EXCEPT ![t] = j] BY <1>3 DEF KioskInv, KioskTypeOK, Select
    <2>4. Takes(t, j) BY <2>2, <2>3 DEF Takes
    <2>5. Checked(j) BY <2>2 DEF Checked
    <2> HIDE DEF j
    <2> QED BY <2>2, <2>4, <2>5, FacesKeep, QuietKeeps
  <1>4. CASE Fill(t) /\ \E s \in Student : job' = [job EXCEPT ![t].rows[s] = None]
    <2>1. PICK s \in Student : job' = [job EXCEPT ![t].rows[s] = None] BY <1>4
    <2> DEFINE r == [job[t].rows EXCEPT ![s] = None]
               j == [job[t] EXCEPT !.rows = r]
    <2>2. job[t] \in Handler /\ job[t].pc = "fill" BY <1>4, FacesKeep DEF Fill, At
    <2>3. r \in Rows BY <2>2 DEF Handler, Rows
    <2>4. job' = [job EXCEPT ![t] = j] BY <2>1 DEF KioskInv, KioskTypeOK
    <2> HIDE DEF r
    <2>5. j \in Handler /\ j.pc = "fill" BY <2>2, <2>3 DEF Handler, Step
    <2>6. Takes(t, j) BY <2>4, <2>5 DEF Takes
    <2>7. Checked(j) BY <2>5 DEF Checked
    <2> HIDE DEF j
    <2> QED BY <2>5, <2>6, <2>7, FacesKeep, QuietKeeps
  <1> QED BY <1>1, <1>2, <1>3, <1>4 DEF Upsert, Clear, SelectFails, Fails, Fill, PurgeProfile, Evict

LEMMA PurgeDayKeeps ==
  ASSUME KioskFacts, KioskInv, NEW t \in Thread, PurgeDay(t)
  PROVE  KioskInv'
  <1> DEFINE s0 == job[t].s
  <1>1. KioskTypeOK BY DEF KioskInv
  <1>2. job[t] # AtRest /\ job[t].pc \in {"purgeday", "clearday"} BY DEF PurgeDay, At
  <1>3. s0 \in Student BY <1>1, <1>2, AtHandler DEF Handler
  <1>4. PICK j \in Handler : Takes(t, j) /\ j.pc \in {"purgelog", "clearlog"}
    <2>1. PICK pc \in {"purgelog", "clearlog"} : Goto(t, pc) BY DEF PurgeDay
    <2>2. pc \in Step BY DEF Step
    <2> QED BY <1>1, <1>2, <2>1, <2>2, GotoTakes
  <1>5. Checked(j) BY <1>4 DEF Checked
  <1>6. UNCHANGED <<profile, cache, session, total_scans, log, half, dayoff, cleared, lost, raced, reload>>
    BY DEF PurgeDay
  <1>7. job' \in [Thread -> {AtRest} \cup Handler] /\ \A u \in Thread : Checked(job[u])'
    BY <1>4, <1>5, <1>6, HandlersKeep
  <1>8. TotalIsLogged' BY <1>2, <1>4, <1>6, BooksKeep
  <1>9. \/ /\ day' = [day EXCEPT ![s0] = [h \in Half |-> FALSE]]
           /\ marks' = [marks EXCEPT ![s0] = [h \in Half |-> 0]]
        \/ day' = day /\ marks' = marks
    BY DEF PurgeDay
  <1>10. day' \in [Student -> [Half -> BOOLEAN]] /\ marks' \in [Student -> [Half -> 0..2]]
    <2>1. [h \in Half |-> FALSE] \in [Half -> BOOLEAN] /\ [h \in Half |-> 0] \in [Half -> 0..2]
      OBVIOUS
    <2> HIDE DEF s0
    <2>2. day \in [Student -> [Half -> BOOLEAN]] /\ marks \in [Student -> [Half -> 0..2]]
      BY <1>1 DEF KioskTypeOK
    <2>3. CASE day' = day /\ marks' = marks BY <2>2, <2>3
    <2>4. CASE /\ day' = [day EXCEPT ![s0] = [h \in Half |-> FALSE]]
               /\ marks' = [marks EXCEPT ![s0] = [h \in Half |-> 0]]
      BY <1>3, <2>1, <2>2, <2>4
    <2> QED BY <1>9, <2>3, <2>4
  <1>11. OffNotMarked'
    <2>1. \A s \in dayoff, h \in Half : ~ day'[s][h] /\ marks'[s][h] = 0
      <3> SUFFICES ASSUME NEW s \in dayoff, NEW h \in Half PROVE ~ day'[s][h] /\ marks'[s][h] = 0
        OBVIOUS
      <3>1. s \in Student /\ ~ day[s][h] /\ marks[s][h] = 0
        BY <1>1 DEF KioskTypeOK, KioskInv, OffNotMarked
      <3> HIDE DEF s0
      <3>2. s \in DOMAIN day /\ s \in DOMAIN marks BY <1>1, <3>1 DEF KioskTypeOK
      <3>3. CASE day' = day /\ marks' = marks BY <3>1, <3>3
      <3>4. CASE /\ day' = [day EXCEPT ![s0] = [i \in Half |-> FALSE]]
                 /\ marks' = [marks EXCEPT ![s0] = [i \in Half |-> 0]]
        <4>1. CASE s = s0 BY <3>2, <3>4, <4>1
        <4>2. CASE s # s0 BY <3>1, <3>2, <3>4, <4>2
        <4> QED BY <4>1, <4>2
      <3> QED BY <1>9, <3>3, <3>4
    <2> QED BY <1>6, <2>1 DEF OffNotMarked
  <1>12. KioskTypeOK' BY <1>1, <1>6, <1>7, <1>10 DEF KioskTypeOK
  <1> QED BY <1>7, <1>8, <1>11, <1>12 DEF KioskInv

LEMMA PurgeLogKeeps ==
  ASSUME KioskFacts, KioskInv, NEW t \in Thread, PurgeLog(t)
  PROVE  KioskInv'
  <1> DEFINE s0 == job[t].s
  <1>1. KioskTypeOK /\ IsFiniteSet(Student) /\ MaxScans \in Nat
    BY DEF KioskInv, KioskFacts, KioskAssumption
  <1>2. job[t] # AtRest /\ job[t].pc \in {"purgelog", "clearlog"} BY DEF PurgeLog, At
  <1>3. s0 \in Student BY <1>1, <1>2, AtHandler DEF Handler
  <1>4. PICK j \in {AtRest} \cup Handler : Takes(t, j) /\ (j # AtRest => j.pc = "evict")
    <2>1. CASE Goto(t, "evict") BY <1>1, <1>2, <2>1, GotoTakes DEF Step
    <2>2. CASE Done(t) BY <2>2, DoneTakes
    <2> QED BY <2>1, <2>2 DEF PurgeLog
  <1>5. Checked(j) BY <1>4 DEF Checked
  <1>6. UNCHANGED <<profile, cache, session, total_scans, day, half, dayoff, marks, lost, raced, reload>>
    BY DEF PurgeLog
  <1>7. job' \in [Thread -> {AtRest} \cup Handler] /\ \A u \in Thread : Checked(job[u])'
    BY <1>4, <1>5, <1>6, HandlersKeep
  <1>13. \/ /\ log' = [k \in KioskSession |-> [log[k] EXCEPT ![s0] = 0]]
            /\ cleared' = [k \in KioskSession |-> cleared[k] + log[k][s0]]
         \/ UNCHANGED <<log, cleared>>
    BY DEF PurgeLog
  <1>14. CASE UNCHANGED <<log, cleared>>
    <2>1. KioskTypeOK' BY <1>1, <1>6, <1>7, <1>14 DEF KioskTypeOK
    <2>2. TotalIsLogged' BY <1>2, <1>4, <1>6, <1>14, BooksKeep
    <2>3. OffNotMarked' BY <1>6 DEF KioskInv, OffNotMarked
    <2> QED BY <1>7, <2>1, <2>2, <2>3 DEF KioskInv
  <1> SUFFICES ASSUME log' = [k \in KioskSession |-> [log[k] EXCEPT ![s0] = 0]],
                      cleared' = [k \in KioskSession |-> cleared[k] + log[k][s0]]
               PROVE  KioskInv'
    BY <1>13, <1>14
  <1>8. /\ log' = [k \in KioskSession |-> [log[k] EXCEPT ![s0] = 0]]
        /\ cleared' = [k \in KioskSession |-> cleared[k] + log[k][s0]]
    OBVIOUS
  <1>9. /\ log' \in [KioskSession -> [Student -> 0..MaxScans]]
        /\ cleared' \in [KioskSession -> Nat]
        /\ log \in [KioskSession -> [Student -> 0..MaxScans]] /\ cleared \in [KioskSession -> Nat]
    <2>1. log \in [KioskSession -> [Student -> 0..MaxScans]] /\ cleared \in [KioskSession -> Nat]
      BY <1>1 DEF KioskTypeOK
    <2> HIDE DEF s0
    <2>2. \A k \in KioskSession : [log[k] EXCEPT ![s0] = 0] \in [Student -> 0..MaxScans]
      <3>1. 0 \in 0..MaxScans BY <1>1
      <3> QED BY <2>1, <3>1
    <2>3. \A k \in KioskSession : cleared[k] + log[k][s0] \in Nat BY <1>1, <1>3, <2>1
    <2> QED BY <1>8, <2>1, <2>2, <2>3
  <1>10. KioskTypeOK' BY <1>1, <1>6, <1>7, <1>9 DEF KioskTypeOK
  <1>11. TotalIsLogged'
    <2>1. ASSUME NEW k \in KioskSession
          PROVE  total_scans[k]' + Counting(k)' + lost[k]' = Logged(k)' + cleared[k]'
      <3>1. total_scans[k] + Counting(k) + lost[k] = Logged(k) + cleared[k] BY DEF KioskInv, TotalIsLogged
      <3>2. total_scans[k]' = total_scans[k] /\ Counting(k)' = Counting(k) /\ lost[k]' = lost[k]
        BY <1>1, <1>2, <1>4, <1>6, CountingSame DEF Counts
      <3>3. /\ log[k] \in [Student -> Nat] /\ log'[k] \in [Student -> Nat]
            /\ log'[k][s0] = 0 /\ \A s \in Student \ {s0} : log'[k][s] = log[k][s]
            /\ cleared'[k] = cleared[k] + log[k][s0] /\ cleared[k] \in Nat
            /\ 0 \in Nat /\ log[k][s0] \in Nat
        <4> HIDE DEF s0
        <4>1. log[k] \in [Student -> 0..MaxScans] /\ log'[k] \in [Student -> 0..MaxScans] BY <1>9
        <4>2. log'[k] = [log[k] EXCEPT ![s0] = 0] BY <1>8
        <4> QED BY <1>1, <1>3, <1>8, <1>9, <4>1, <4>2
      <3>4. /\ SumOver(log'[k], Student) \in Nat /\ SumOver(log[k], Student) \in Nat
            /\ SumOver(log'[k], Student) + log[k][s0] = SumOver(log[k], Student) + 0
        <4> HIDE DEF s0
        <4> QED BY <1>1, <1>3, <3>3, SumChange
      <3>5. Logged(k) = SumOver(log[k], Student) /\ Logged(k)' = SumOver(log'[k], Student)
        BY LoggedSum, LoggedNext
      <3> HIDE DEF s0
      <3>6. Logged(k)' + cleared'[k] = Logged(k) + cleared[k] BY <3>3, <3>4, <3>5
      <3> QED BY <3>1, <3>2, <3>6
    <2> QED BY <2>1 DEF TotalIsLogged
  <1>12. OffNotMarked' BY <1>6 DEF KioskInv, OffNotMarked
  <1> QED BY <1>7, <1>10, <1>11, <1>12 DEF KioskInv

LEMMA NoonKeeps ==
  ASSUME KioskFacts, KioskInv, Noon
  PROVE  KioskInv'
  <1>1. KioskTypeOK' BY DEF KioskInv, KioskTypeOK, Noon, tables, Half
  <1>2. \A u \in Thread : Checked(job[u])' BY DEF KioskInv, Noon, Checked
  <1>3. TotalIsLogged'
    <2>1. job' = job /\ log' = log /\ UNCHANGED <<total_scans, cleared, lost>> BY DEF Noon, tables
    <2>2. \A k \in KioskSession : Counting(k)' = Counting(k) BY <2>1 DEF Counting, At
    <2>3. \A k \in KioskSession : Logged(k)' = Logged(k) BY <2>1, LoggedSame
    <2> QED BY <2>1, <2>2, <2>3 DEF KioskInv, TotalIsLogged
  <1>4. OffNotMarked' BY DEF KioskInv, OffNotMarked, Noon, tables
  <1> QED BY <1>1, <1>2, <1>3, <1>4 DEF KioskInv

LEMMA KioskStarts ==
  ASSUME KioskFacts, KioskInit
  PROVE  KioskInv
  <1>1. KioskTypeOK
    BY NothingRows DEF KioskFacts, KioskAssumption, KioskInit, KioskTypeOK, Half
  <1>2. \A u \in Thread : Checked(job[u]) BY CheckedIdle DEF KioskInit
  <1>3. TotalIsLogged
    <2>1. ASSUME NEW k \in KioskSession PROVE total_scans[k] + Counting(k) + lost[k] = Logged(k) + cleared[k]
      <3>1. {t \in Thread : At(t, "total") /\ job[t].k = k} = {} BY DEF KioskInit, At
      <3>2. Counting(k) = 0 BY <3>1, FS_EmptySet DEF Counting
      <3>3. log[k] \in [Student -> Nat] /\ \A s \in Student : log[k][s] = 0 BY DEF KioskInit
      <3>4. Logged(k) = 0 BY <3>3, LoggedSum, SumZero DEF KioskFacts
      <3> QED BY <3>2, <3>4 DEF KioskInit
    <2> QED BY <2>1 DEF TotalIsLogged
  <1>4. OffNotMarked BY DEF OffNotMarked, KioskInit
  <1> QED BY <1>1, <1>2, <1>3, <1>4 DEF KioskInv

LEMMA KioskSteps ==
  ASSUME KioskFacts, KioskInv, [KioskNext]_kioskVars
  PROVE  KioskInv'
  <1>1. CASE Noon BY <1>1, NoonKeeps
  <1>2. CASE UNCHANGED kioskVars
    <2>1. KioskTypeOK' BY <1>2 DEF KioskInv, KioskTypeOK, kioskVars
    <2>2. \A u \in Thread : Checked(job[u])' BY <1>2 DEF KioskInv, Checked, kioskVars
    <2>3. \A k \in KioskSession : Counting(k)' = Counting(k) BY <1>2 DEF Counting, At, kioskVars
    <2>4. \A k \in KioskSession : Logged(k)' = Logged(k) BY <1>2, LoggedSame DEF kioskVars
    <2>5. TotalIsLogged' BY <1>2, <2>3, <2>4 DEF KioskInv, TotalIsLogged, kioskVars
    <2>6. OffNotMarked' BY <1>2 DEF KioskInv, OffNotMarked, kioskVars
    <2> QED BY <2>1, <2>2, <2>5, <2>6 DEF KioskInv
  <1>3. ASSUME NEW t \in Thread,
               \/ \E k \in KioskSession : Start(t, k) \/ End(t, k) \/ \E s \in Student : Scan(t, k, s)
               \/ \E s \in Student :
                    \/ QuickScan(t, s) \/ Delete(t, s) \/ ClearAttendance(t, s)
                    \/ \E overwrite \in BOOLEAN : Register(t, s, overwrite)
        PROVE  KioskInv'
    BY <1>3, SessionKeeps, ArriveKeeps
  <1>4. ASSUME NEW t \in Thread,
               \/ Match(t) \/ UseSession(t) \/ CreateSession(t)
               \/ CheckSession(t) \/ CheckHalf(t) \/ Log(t) \/ CountScan(t) \/ MarkDay(t)
               \/ CountFails(t) \/ Raises(t)
        PROVE  KioskInv'
    BY <1>4, MatchKeeps, UseSessionKeeps, CreateSessionKeeps, CheckSessionKeeps,
       CheckHalfKeeps, LogKeeps, CountKeeps, MarkDayKeeps, CountFailsKeeps, RaisesKeeps
  <1>5. ASSUME NEW t \in Thread,
               \/ Upsert(t) \/ Clear(t) \/ Select(t) \/ SelectFails(t) \/ Fill(t)
               \/ PurgeProfile(t) \/ PurgeDay(t) \/ PurgeLog(t) \/ Evict(t)
        PROVE  KioskInv'
    BY <1>5, FaceStepsKeep, PurgeDayKeeps, PurgeLogKeeps
  <1> QED BY <1>1, <1>2, <1>3, <1>4, <1>5 DEF KioskNext

\* Every variable keeps its type, whatever the threads do.
THEOREM KioskTypes ==
  ASSUME KioskFacts PROVE KioskSpec => []KioskTypeOK
  <1>1. KioskInit => KioskInv BY KioskStarts
  <1>2. KioskInv /\ [KioskNext]_kioskVars => KioskInv' BY KioskSteps
  <1>3. KioskInv => KioskTypeOK BY DEF KioskInv
  <1> QED BY <1>1, <1>2, <1>3, PTL DEF KioskSpec

\* total_scans of a session is the number of entries ever logged in it, less
\* those whose handler has not come to the counter and those whose own UPDATE of
\* it failed, for any number of scans, deletions and clears at once.
THEOREM TotalSafe ==
  ASSUME KioskFacts PROVE KioskSpec => []TotalIsLogged
  <1>1. KioskInit => KioskInv BY KioskStarts
  <1>2. KioskInv /\ [KioskNext]_kioskVars => KioskInv' BY KioskSteps
  <1>3. KioskInv => TotalIsLogged BY DEF KioskInv
  <1> QED BY <1>1, <1>2, <1>3, PTL DEF KioskSpec

\* A student on a holiday or an approved leave is never marked by a kiosk.
THEOREM OffSafe ==
  ASSUME KioskFacts PROVE KioskSpec => []OffNotMarked
  <1>1. KioskInit => KioskInv BY KioskStarts
  <1>2. KioskInv /\ [KioskNext]_kioskVars => KioskInv' BY KioskSteps
  <1>3. KioskInv => OffNotMarked BY DEF KioskInv
  <1> QED BY <1>1, <1>2, <1>3, PTL DEF KioskSpec

-----------------------------------------------------------------------------
\* Of the handlers only that of t takes a step.
Moves(t) == \A u \in Thread \ {t} : job'[u] = job[u]

LEMMA GotoMoves ==
  ASSUME KioskFacts, KioskTypeOK, NEW t \in Thread, job[t] # AtRest, NEW pc \in Step, Goto(t, pc)
  PROVE  /\ Moves(t) /\ job'[t] # AtRest /\ job'[t].pc = pc /\ job'[t].s = job[t].s
         /\ job'[t].h = job[t].h /\ job'[t].rows = job[t].rows
  <1>1. PICK j \in Handler : Takes(t, j) /\ j.pc = pc /\ j.s = job[t].s /\ j.h = job[t].h /\ j.rows = job[t].rows
    BY GotoTakes
  <1>2. j # AtRest BY DEF KioskFacts, KioskAssumption
  <1> QED BY <1>1, <1>2, TakesJob DEF Moves

LEMMA DoneMoves ==
  ASSUME KioskTypeOK, NEW t \in Thread, Done(t)
  PROVE  Moves(t) /\ job'[t] = AtRest
  BY DEF KioskTypeOK, Done, Moves

LEMMA BeginMoves ==
  ASSUME KioskTypeOK, NEW t \in Thread, NEW pc, NEW s, NEW k, Begin(t, pc, s, k)
  PROVE  Moves(t) /\ job'[t].pc = pc
  BY DEF KioskTypeOK, Begin, Moves

\* The steps of a handler outside those past the checks and those of a reload.
Early(t) ==
  \/ \E k \in KioskSession : Start(t, k) \/ End(t, k) \/ \E s \in Student : Scan(t, k, s)
  \/ \E s \in Student :
       \/ QuickScan(t, s) \/ Delete(t, s) \/ ClearAttendance(t, s)
       \/ \E overwrite \in BOOLEAN : Register(t, s, overwrite)
  \/ Match(t) \/ UseSession(t) \/ CreateSession(t) \/ CheckSession(t)

LEMMA EarlyMoves ==
  ASSUME KioskFacts, KioskTypeOK, NEW t \in Thread, Early(t)
  PROVE  /\ Moves(t) /\ UNCHANGED <<profile, cache, day, marks, raced, reload>>
         /\ ~ Loading(t) /\ ~ Loading(t)'
         /\ job'[t] = AtRest \/ job'[t].pc \notin PastSteps
  <1> USE DEF PastSteps
  <1>1. CASE \E k \in KioskSession : Start(t, k) \/ End(t, k)
    BY <1>1 DEF Start, End, world, Moves, Loading
  <1>2. CASE \/ \E k \in KioskSession, s \in Student : Scan(t, k, s)
             \/ \E s \in Student :
                  \/ QuickScan(t, s) \/ Delete(t, s) \/ ClearAttendance(t, s)
                  \/ \E overwrite \in BOOLEAN : Register(t, s, overwrite)
    <2>1. PICK pc \in {"match", "upsert", "purge", "clearday"} :
            \E s, k : job[t] = AtRest /\ Begin(t, pc, s, k)
      BY <1>2 DEF Scan, QuickScan, Delete, ClearAttendance, Register
    <2>2. UNCHANGED <<profile, cache, day, marks, raced, reload>>
      BY <1>2 DEF Scan, QuickScan, Delete, ClearAttendance, Register, tables, world
    <2>3. Moves(t) /\ job'[t].pc = pc BY <2>1, BeginMoves
    <2> QED BY <2>1, <2>2, <2>3 DEF Loading
  <1>3. CASE Match(t) \/ UseSession(t) \/ CreateSession(t) \/ CheckSession(t)
    <2>1. /\ UNCHANGED <<profile, cache, day, marks, raced, reload>>
          /\ job[t] # AtRest /\ job[t].pc \in {"match", "session", "create", "check"}
      BY <1>3 DEF Match, UseSession, CreateSession, CheckSession, At, tables, world
    <2>2. job[t] \in Handler BY <2>1, AtHandler
    <2>3. CASE Done(t) BY <2>1, <2>3, DoneMoves DEF Loading
    <2>4. CASE \E pc \in {"session", "check", "create"} : Goto(t, pc)
      <3>1. PICK pc \in {"session", "check", "create"} : Goto(t, pc) BY <2>4
      <3>2. pc \in Step BY DEF Step
      <3> QED BY <2>1, <3>1, <3>2, GotoMoves DEF Loading
    <2>5. CASE \E k : job' = [job EXCEPT ![t].k = k, ![t].pc = "check"]
      <3>1. PICK k : job' = [job EXCEPT ![t].k = k, ![t].pc = "check"] BY <2>5
      <3> DEFINE j == [[job[t] EXCEPT !.k = k] EXCEPT !.pc = "check"]
      <3>2. job' = [job EXCEPT ![t] = j] /\ j.pc = "check" BY <2>2, <3>1 DEF KioskTypeOK, Handler
      <3> HIDE DEF j
      <3>3. Moves(t) /\ job'[t].pc = "check" BY <3>2 DEF Moves, KioskTypeOK
      <3> QED BY <2>1, <3>3 DEF Loading
    <2>6. CASE job' = [job EXCEPT ![t].pc = "half", ![t].h = half]
      <3> DEFINE j == [[job[t] EXCEPT !.pc = "half"] EXCEPT !.h = half]
      <3>2. job' = [job EXCEPT ![t] = j] /\ j.pc = "half" BY <2>2, <2>6 DEF KioskTypeOK, Handler
      <3> HIDE DEF j
      <3>3. Moves(t) /\ job'[t].pc = "half" BY <3>2 DEF Moves, KioskTypeOK
      <3> QED BY <2>1, <3>3 DEF Loading
    <2>7. CASE Match(t) BY <2>3, <2>4, <2>7 DEF Match
    <2>8. CASE UseSession(t) BY <2>4, <2>5, <2>8 DEF UseSession
    <2>9. CASE CreateSession(t) BY <2>5, <2>9 DEF CreateSession
    <2>10. CASE CheckSession(t) BY <2>3, <2>6, <2>10 DEF CheckSession
    <2> QED BY <1>3, <2>7, <2>8, <2>9, <2>10
  <1> QED BY <1>1, <1>2, <1>3 DEF Early

-----------------------------------------------------------------------------
\* A step that marks nothing and takes nobody past the checks.
LEMMA OnceQuiet ==
  ASSUME OnceInv, NEW t \in Thread, Moves(t), UNCHANGED <<day, marks, raced>>,
         \/ job'[t] = AtRest \/ job'[t].pc \notin PastSteps
         \/ /\ job[t] # AtRest /\ job[t].pc \in PastSteps
            /\ job'[t].s = job[t].s /\ job'[t].h = job[t].h
  PROVE  OnceInv'
  <1>1. \A u \in Thread : \A s : Past(u, s)' => Past(u, s) /\ job'[u].h = job[u].h
    BY DEF Moves, Past, PastSteps
  <1>2. OncePast' BY <1>1 DEF OnceInv, OncePast
  <1>3. NotYet' BY <1>1 DEF OnceInv, NotYet
  <1>4. MarkedIsDay' BY DEF OnceInv, MarkedIsDay
  <1> QED BY <1>2, <1>3, <1>4 DEF OnceInv

LEMMA OnceCheck ==
  ASSUME KioskFacts, KioskTypeOK, OnceInv, NEW t \in Thread, CheckHalf(t)
  PROVE  OnceInv'
  <1>1. job[t] # AtRest /\ job[t].pc = "half" /\ UNCHANGED <<day, marks>>
    BY DEF CheckHalf, At, tables
  <1>2. CASE Done(t) /\ UNCHANGED raced BY <1>1, <1>2, DoneMoves, OnceQuiet
  <1>3. CASE /\ ~ day[job[t].s][job[t].h] /\ Goto(t, "log")
             /\ raced' = raced \cup {s \in {job[t].s} : \E u \in Thread : Past(u, s)}
    <2>1. Moves(t) /\ job'[t].pc = "log" /\ job'[t].s = job[t].s /\ job'[t].h = job[t].h
      BY <1>1, <1>3, GotoMoves DEF Step
    <2>2. \A u \in Thread \ {t} : \A s : Past(u, s)' => Past(u, s) /\ job'[u].h = job[u].h
      BY <2>1 DEF Moves, Past
    <2>3. \A s : Past(t, s)' => s = job[t].s BY <2>1 DEF Past
    <2>4. raced \subseteq raced' BY <1>3
    <2>5. OncePast'
      <3> SUFFICES ASSUME NEW u \in Thread, NEW v \in Thread, NEW s \in Student \ raced',
                          Past(u, s)', Past(v, s)'
                   PROVE  u = v
        BY DEF OncePast
      <3>1. s \in Student \ raced BY <2>4
      <3>2. CASE u # t /\ v # t BY <2>2, <3>1, <3>2 DEF OnceInv, OncePast
      <3>3. CASE u = t \/ v = t
        <4>1. s = job[t].s BY <2>3, <3>3
        <4>2. \A w \in Thread : ~ Past(w, s) BY <1>3, <4>1
        <4> QED BY <2>2, <3>3, <4>2
      <3> QED BY <3>2, <3>3
    <2>6. NotYet'
      <3> SUFFICES ASSUME NEW u \in Thread, NEW s \in Student \ raced', Past(u, s)'
                   PROVE  ~ day'[s][job'[u].h]
        BY DEF NotYet
      <3>1. s \in Student \ raced BY <2>4
      <3>2. CASE u # t BY <1>1, <2>2, <3>1, <3>2 DEF OnceInv, NotYet
      <3>3. CASE u = t BY <1>1, <1>3, <2>1, <2>3, <3>3
      <3> QED BY <3>2, <3>3
    <2>7. MarkedIsDay' BY <1>1, <2>4 DEF OnceInv, MarkedIsDay
    <2> QED BY <2>5, <2>6, <2>7 DEF OnceInv
  <1> QED BY <1>2, <1>3 DEF CheckHalf

LEMMA OnceMark ==
  ASSUME KioskFacts, KioskTypeOK, OnceInv, NEW t \in Thread, MarkDay(t)
  PROVE  OnceInv'
  <1> DEFINE s0 == job[t].s
             h0 == job[t].h
             m == IF marks[s0][h0] > 1 THEN marks[s0][h0] ELSE marks[s0][h0] + 1
  <1>1. job[t] # AtRest /\ job[t].pc = "day" BY DEF MarkDay, At
  <1>2. s0 \in Student /\ h0 \in Half BY <1>1, AtHandler DEF Handler
  <1>3. Moves(t) /\ job'[t] = AtRest BY DoneMoves DEF MarkDay
  <1>4. \A u \in Thread : \A s : Past(u, s)' => u # t /\ Past(u, s) /\ job'[u].h = job[u].h
    BY <1>3 DEF Moves, Past
  <1>5. Past(t, s0) BY <1>1 DEF Past
  <1>6. /\ raced \subseteq raced'
        /\ day' = [day EXCEPT ![s0] = [day[s0] EXCEPT ![h0] = TRUE]] \/ (s0 \in raced' /\ day' = day)
        /\ marks' = [marks EXCEPT ![s0] = [marks[s0] EXCEPT ![h0] = m]]
    BY DEF MarkDay
  <1>7. day \in [Student -> [Half -> BOOLEAN]] /\ marks \in [Student -> [Half -> 0..2]]
    BY DEF KioskTypeOK
  <1>8. OncePast' BY <1>4, <1>6 DEF OnceInv, OncePast
  <1>9. NotYet'
    <2> SUFFICES ASSUME NEW u \in Thread, NEW s \in Student \ raced', Past(u, s)'
                 PROVE  ~ day'[s][job'[u].h]
      BY DEF NotYet
    <2>1. s \in Student \ raced /\ u # t /\ Past(u, s) /\ job'[u].h = job[u].h BY <1>4, <1>6
    <2>2. ~ day[s][job[u].h] BY <2>1 DEF OnceInv, NotYet
    <2>3. s # s0 BY <1>5, <2>1 DEF OnceInv, OncePast
    <2> HIDE DEF s0, h0
    <2>4. day'[s] = day[s] BY <1>6, <1>7, <2>1, <2>3
    <2> QED BY <2>1, <2>2, <2>4
  <1>10. MarkedIsDay'
    <2> SUFFICES ASSUME NEW s \in Student \ raced', NEW h \in Half
                 PROVE  marks'[s][h] = 0 \/ (marks'[s][h] = 1 /\ day'[s][h])
      BY DEF MarkedIsDay
    <2>1. s \in Student \ raced /\ (marks[s][h] = 0 \/ (marks[s][h] = 1 /\ day[s][h]))
      BY <1>6 DEF OnceInv, MarkedIsDay
    <2>2. s = s0 /\ h = h0 => marks[s][h] = 0 /\ ~ day[s][h]
      BY <1>5, <2>1 DEF OnceInv, NotYet
    <2>3. s = s0 => day' = [day EXCEPT ![s0] = [day[s0] EXCEPT ![h0] = TRUE]] BY <1>6
    <2>4. s = s0 /\ h = h0 => m = 1 BY <2>2
    <2> HIDE DEF s0, h0, m
    <2>5. CASE s # s0 BY <1>6, <1>7, <2>1, <2>5
    <2>6. CASE s = s0 /\ h # h0
      <3>1. day'[s][h] = day[s][h] BY <1>2, <1>7, <2>3, <2>6
      <3>2. marks'[s][h] = marks[s][h] BY <1>2, <1>6, <1>7, <2>6
      <3> QED BY <2>1, <3>1, <3>2
    <2>7. CASE s = s0 /\ h = h0
      <3>1. day'[s][h] = TRUE BY <1>2, <1>7, <2>3, <2>7
      <3>2. marks'[s][h] = m BY <1>2, <1>6, <1>7, <2>7
      <3> QED BY <2>4, <2>7, <3>1, <3>2
    <2> QED BY <2>5, <2>6, <2>7
  <1> QED BY <1>8, <1>9, <1>10 DEF OnceInv

LEMMA OncePurge ==
  ASSUME KioskFacts, KioskTypeOK, OnceInv, NEW t \in Thread, PurgeDay(t)
  PROVE  OnceInv'
  <1> DEFINE s0 == job[t].s
  <1>1. job[t] # AtRest /\ UNCHANGED raced BY DEF PurgeDay, At
  <1>2. PICK pc \in {"purgelog", "clearlog"} : Goto(t, pc) BY DEF PurgeDay
  <1>3. pc \in Step BY DEF Step
  <1>4. Moves(t) /\ job'[t].pc = pc BY <1>1, <1>2, <1>3, GotoMoves
  <1>5. CASE UNCHANGED <<day, marks>> BY <1>1, <1>4, <1>5, OnceQuiet DEF PastSteps
  <1>6. CASE /\ day' = [day EXCEPT ![s0] = [h \in Half |-> FALSE]]
             /\ marks' = [marks EXCEPT ![s0] = [h \in Half |-> 0]]
    <2>1. \A u \in Thread : \A s : Past(u, s)' => Past(u, s) /\ job'[u].h = job[u].h
      BY <1>4 DEF Moves, Past
    <2>2. s0 \in Student /\ \A u \in Thread : job[u] # AtRest => job[u].h \in Half
      BY <1>1, AtHandler DEF Handler
    <2>3. OncePast' BY <1>1, <2>1 DEF OnceInv, OncePast
    <2>4. day \in [Student -> [Half -> BOOLEAN]] /\ marks \in [Student -> [Half -> 0..2]]
      BY DEF KioskTypeOK
    <2>5. \A s \in Student, h \in Half : day'[s][h] => day[s][h]
      <3> HIDE DEF s0
      <3> QED BY <1>6, <2>2, <2>4
    <2>6. NotYet'
      <3> SUFFICES ASSUME NEW u \in Thread, NEW s \in Student \ raced', Past(u, s)'
                   PROVE  ~ day'[s][job'[u].h]
        BY DEF NotYet
      <3>1. s \in Student \ raced /\ Past(u, s) /\ job'[u].h = job[u].h BY <1>1, <2>1
      <3>2. ~ day[s][job[u].h] BY <3>1 DEF OnceInv, NotYet
      <3>3. job[u].h \in Half BY <2>2, <3>1 DEF Past
      <3> QED BY <2>5, <3>1, <3>2, <3>3
    <2>7. MarkedIsDay'
      <3> SUFFICES ASSUME NEW s \in Student \ raced', NEW h \in Half
                   PROVE  marks'[s][h] = 0 \/ (marks'[s][h] = 1 /\ day'[s][h])
        BY DEF MarkedIsDay
      <3>1. marks[s][h] = 0 \/ (marks[s][h] = 1 /\ day[s][h]) BY <1>1 DEF OnceInv, MarkedIsDay
      <3> HIDE DEF s0
      <3>2. CASE s = s0 BY <1>6, <2>2, <2>4, <3>2
      <3>3. CASE s # s0 BY <1>6, <2>4, <3>1, <3>3
      <3> QED BY <3>2, <3>3
    <2> QED BY <2>3, <2>6, <2>7 DEF OnceInv
  <1> QED BY <1>5, <1>6 DEF PurgeDay

\* The steps past the checks and of reloads that mark nothing.
LEMMA OnceRest ==
  ASSUME KioskFacts, KioskTypeOK, OnceInv, NEW t \in Thread,
         \/ Log(t) \/ CountScan(t) \/ CountFails(t) \/ Raises(t) \/ PurgeLog(t)
         \/ Upsert(t) \/ Clear(t) \/ Select(t) \/ SelectFails(t) \/ Fill(t) \/ PurgeProfile(t) \/ Evict(t)
  PROVE  OnceInv'
  <1> USE DEF PastSteps
  <1>1. job[t] # AtRest /\ UNCHANGED <<day, marks, raced>>
    BY DEF Log, CountScan, CountFails, Raises, Fails, PurgeLog, Upsert, Clear, Select, SelectFails,
           Fill, PurgeProfile, Evict, At, tables, world
  <1>2. job[t] \in Handler BY <1>1, AtHandler
  <1>3. CASE Done(t) BY <1>1, <1>3, DoneMoves, OnceQuiet
  <1>4. CASE \E pc \in {"total", "day"} : job[t].pc \in PastSteps /\ Goto(t, pc)
    <2>1. PICK pc \in {"total", "day"} : job[t].pc \in PastSteps /\ Goto(t, pc) BY <1>4
    <2>2. pc \in Step BY DEF Step
    <2> QED BY <1>1, <2>1, <2>2, GotoMoves, OnceQuiet
  <1>5. CASE \E pc \in {"purgeday", "evict", "clear", "select"} : Goto(t, pc)
    <2>1. PICK pc \in {"purgeday", "evict", "clear", "select"} : Goto(t, pc) BY <1>5
    <2>2. pc \in Step BY DEF Step
    <2> QED BY <1>1, <2>1, <2>2, GotoMoves, OnceQuiet
  <1>6. CASE Select(t)
    <2> DEFINE j == [[job[t] EXCEPT !.rows = profile] EXCEPT !.pc = "fill"]
    <2>1. job' = [job EXCEPT ![t] = j] /\ j.pc = "fill" BY <1>2, <1>6 DEF Select, KioskTypeOK, Handler
    <2> HIDE DEF j
    <2>2. Moves(t) /\ job'[t].pc = "fill" BY <2>1 DEF Moves, KioskTypeOK
    <2> QED BY <1>1, <2>2, OnceQuiet
  <1>7. CASE Fill(t) /\ \E s \in Student : job' = [job EXCEPT ![t].rows[s] = None]
    <2>1. PICK s \in Student : job' = [job EXCEPT ![t].rows[s] = None] BY <1>7
    <2> DEFINE j == [job[t] EXCEPT !.rows = [job[t].rows EXCEPT ![s] = None]]
    <2>2. job[t].pc = "fill" BY <1>7 DEF Fill, At
    <2>3. job' = [job EXCEPT ![t] = j] /\ j.pc = "fill" BY <1>2, <2>1, <2>2 DEF KioskTypeOK, Handler
    <2> HIDE DEF j
    <2>4. Moves(t) /\ job'[t].pc = "fill" BY <2>3 DEF Moves, KioskTypeOK
    <2> QED BY <1>1, <2>4, OnceQuiet
  <1>8. CASE Log(t) \/ CountScan(t) BY <1>4, <1>8 DEF Log, CountScan, At
  <1>9. CASE CountFails(t) \/ Raises(t) \/ SelectFails(t) BY <1>3, <1>9 DEF CountFails, Raises, SelectFails, Fails
  <1>10. CASE PurgeLog(t) BY <1>3, <1>5, <1>10 DEF PurgeLog
  <1>11. CASE Upsert(t) \/ Clear(t) \/ PurgeProfile(t) \/ Evict(t)
    BY <1>5, <1>11 DEF Upsert, Clear, PurgeProfile, Evict
  <1>12. CASE Fill(t) BY <1>3, <1>7, <1>12 DEF Fill
  <1> QED BY <1>6, <1>8, <1>9, <1>10, <1>11, <1>12

LEMMA OnceStep ==
  ASSUME KioskFacts, KioskTypeOK, OnceInv, [KioskNext]_kioskVars
  PROVE  OnceInv'
  <1>1. CASE UNCHANGED <<day, marks, raced, job>>
    BY <1>1 DEF OnceInv, OncePast, NotYet, MarkedIsDay, Past
  <1>2. ASSUME NEW t \in Thread, Early(t) PROVE OnceInv'
    BY <1>2, EarlyMoves, OnceQuiet
  <1>3. ASSUME NEW t \in Thread,
               \/ CheckHalf(t) \/ Log(t) \/ CountScan(t) \/ MarkDay(t) \/ CountFails(t) \/ Raises(t)
               \/ Upsert(t) \/ Clear(t) \/ Select(t) \/ SelectFails(t) \/ Fill(t)
               \/ PurgeProfile(t) \/ PurgeDay(t) \/ PurgeLog(t) \/ Evict(t)
        PROVE  OnceInv'
    BY <1>3, OnceCheck, OnceMark, OncePurge, OnceRest
  <1>4. CASE UNCHANGED kioskVars BY <1>1, <1>4 DEF kioskVars
  <1>5. CASE Noon BY <1>1, <1>5 DEF Noon, tables
  <1> QED BY <1>2, <1>3, <1>4, <1>5 DEF KioskNext, Early

-----------------------------------------------------------------------------
\* A step that leaves faces, dictionary and reloads alone.
LEMMA FacesQuiet ==
  ASSUME FacesInv, NEW t \in Thread, Moves(t), UNCHANGED <<profile, cache, reload>>,
         Loading(t)' <=> Loading(t), job'[t] = AtRest \/ job'[t].pc \notin {"select", "fill"}
  PROVE  FacesInv'
  <1> SUFFICES ASSUME ~ reload.mixed
               PROVE  /\ OneLoads'
                      /\ \A u \in Thread : Loading(u)' => Follows(job[u])'
                      /\ FacesRegistered'
    BY DEF FacesInv, Follows
  <1>1. \A u \in Thread : Loading(u)' <=> Loading(u) BY DEF Moves, Loading
  <1>2. OneLoads' BY <1>1 DEF FacesInv, OneLoads
  <1>3. FacesRegistered' BY <1>1 DEF FacesInv, FacesRegistered
  <1>4. ASSUME NEW u \in Thread, Loading(u)' PROVE Follows(job[u])'
    <2>1. CASE u = t BY <1>4, <2>1 DEF Loading, Follows
    <2>2. CASE u # t
      <3>1. Follows(job[u]) /\ job'[u] = job[u] BY <1>1, <1>4, <2>2 DEF FacesInv, Moves
      <3> QED BY <3>1 DEF Follows
    <2> QED BY <2>1, <2>2
  <1> QED BY <1>2, <1>3, <1>4

\* A step of a reload: if it is alone, its own part is all that counts.
LEMMA FacesAlone ==
  ASSUME NEW t \in Thread, Moves(t),
         ~ reload'.mixed =>
           /\ Alone(t)
           /\ Loading(t)' => Follows(job[t])'
           /\ ~ Loading(t)' =>
                \A s \in Student : cache'[s] = profile'[s] \/ (cache'[s] = None /\ reload'.failed)
  PROVE  FacesInv'
  <1> SUFFICES ASSUME ~ reload'.mixed
               PROVE  /\ OneLoads'
                      /\ \A u \in Thread : Loading(u)' => Follows(job[u])'
                      /\ FacesRegistered'
    BY DEF FacesInv, Follows
  <1>1. \A u \in Thread \ {t} : ~ Loading(u)' BY DEF Moves, Loading, Alone
  <1> QED BY <1>1 DEF OneLoads, FacesRegistered

LEMMA FacesReload ==
  ASSUME KioskFacts, KioskTypeOK, FacesInv, NEW t \in Thread,
         Upsert(t) \/ Clear(t) \/ PurgeProfile(t) \/ Evict(t)
  PROVE  FacesInv'
  <1>1. job[t] # AtRest BY DEF Upsert, Clear, PurgeProfile, Evict, At
  <1>2. PICK pc \in {"clear", "select", "purgeday"} : Goto(t, pc) /\ (pc = "select" => cache' = Nothing)
    BY DEF Upsert, Clear, PurgeProfile, Evict
  <1>3. pc \in Step BY DEF Step
  <1>4. Moves(t) /\ job'[t] # AtRest /\ job'[t].pc = pc BY <1>1, <1>2, <1>3, GotoMoves
  <1>5. Loading(t)' BY <1>4 DEF Loading
  <1>6. ~ reload'.mixed => Alone(t)
    BY DEF Upsert, Clear, PurgeProfile, Evict, Reload, KioskTypeOK
  <1>7. Follows(job[t])' BY <1>2, <1>4 DEF Follows, Nothing
  <1> QED BY <1>4, <1>5, <1>6, <1>7, FacesAlone

LEMMA FacesSelect ==
  ASSUME KioskFacts, KioskTypeOK, FacesInv, NEW t \in Thread, Select(t) \/ SelectFails(t)
  PROVE  FacesInv'
  <1>1. job[t] # AtRest /\ job[t].pc = "select" /\ UNCHANGED <<profile, cache>>
    BY DEF Select, SelectFails, Fails, At, tables
  <1>2. job[t] \in Handler /\ Loading(t) BY <1>1, AtHandler DEF Loading
  <1>3. ~ reload'.mixed => ~ reload.mixed /\ Alone(t)
    <2> DEFINE b == reload.mixed \/ ~ Alone(t)
    <2>1. PICK f : reload' = [mixed |-> b, failed |-> f] BY DEF Select, SelectFails
    <2>2. b \in BOOLEAN /\ (~ b => ~ reload.mixed /\ Alone(t)) OBVIOUS
    <2> HIDE DEF b
    <2>3. reload'.mixed = b BY <2>1
    <2> QED BY <2>2, <2>3
  <1>4. ~ reload'.mixed => cache = Nothing
    BY <1>1, <1>2, <1>3 DEF FacesInv, Follows
  <1>5. CASE Select(t)
    <2> DEFINE j == [[job[t] EXCEPT !.rows = profile] EXCEPT !.pc = "fill"]
    <2>1. job' = [job EXCEPT ![t] = j] /\ j.pc = "fill" /\ j.rows = profile
      BY <1>2, <1>5 DEF Select, KioskTypeOK, Handler
    <2>2. j \in Handler BY <1>2 DEF KioskTypeOK, Handler, Step
    <2> HIDE DEF j
    <2>3. Moves(t) /\ job'[t] = j /\ j # AtRest
      BY <2>1, <2>2 DEF Moves, KioskTypeOK, KioskFacts, KioskAssumption
    <2>4. Loading(t)' BY <2>1, <2>3 DEF Loading
    <2>5. ~ reload'.mixed => Follows(job[t])' BY <1>1, <1>4, <2>1, <2>3 DEF Follows, Nothing
    <2> QED BY <1>3, <2>3, <2>4, <2>5, FacesAlone
  <1>6. CASE SelectFails(t)
    <2>1. Moves(t) /\ job'[t] = AtRest /\ reload'.failed
      BY <1>6, DoneMoves DEF SelectFails, Fails
    <2>2. ~ Loading(t)' BY <2>1 DEF Loading
    <2>3. ~ reload'.mixed => \A s \in Student : cache'[s] = None BY <1>1, <1>4 DEF Nothing
    <2> QED BY <1>3, <2>1, <2>2, <2>3, FacesAlone
  <1> QED BY <1>5, <1>6

LEMMA FacesFill ==
  ASSUME KioskFacts, KioskTypeOK, FacesInv, NEW t \in Thread, Fill(t)
  PROVE  FacesInv'
  <1> DEFINE r == job[t].rows
  <1>1. job[t] # AtRest /\ job[t].pc = "fill" /\ UNCHANGED profile BY DEF Fill, At, tables
  <1>2. job[t] \in Handler /\ Loading(t) /\ r \in Rows BY <1>1, AtHandler DEF Loading, Handler
  <1>3. ~ reload'.mixed => ~ reload.mixed /\ Alone(t) BY DEF Fill, Reload, KioskTypeOK
  <1>4. ~ reload'.mixed =>
          \A s \in Student : r[s] \in {None, profile[s]} /\ cache[s] = IF r[s] = None THEN profile[s] ELSE None
    BY <1>1, <1>2, <1>3 DEF FacesInv, Follows
  <1>5. CASE (\A s \in Student : r[s] = None) /\ Done(t) /\ UNCHANGED cache
    <2>1. Moves(t) /\ job'[t] = AtRest BY <1>5, DoneMoves
    <2>2. ~ Loading(t)' BY <2>1 DEF Loading
    <2>3. ~ reload'.mixed => \A s \in Student : cache'[s] = profile'[s] BY <1>1, <1>4, <1>5
    <2> QED BY <1>3, <2>1, <2>2, <2>3, FacesAlone
  <1>6. CASE \E s \in Student : /\ r[s] # None /\ cache' = [cache EXCEPT ![s] = r[s]]
                                /\ job' = [job EXCEPT ![t].rows[s] = None]
    <2>1. PICK s \in Student : /\ r[s] # None /\ cache' = [cache EXCEPT ![s] = r[s]]
                               /\ job' = [job EXCEPT ![t].rows[s] = None]
      BY <1>6
    <2> DEFINE q == [r EXCEPT ![s] = None]
               j == [job[t] EXCEPT !.rows = q]
    <2>2. q \in Rows BY <1>2 DEF Rows
    <2>3. job' = [job EXCEPT ![t] = j] BY <2>1 DEF KioskTypeOK
    <2>4. \A x \in Student : q[x] = IF x = s THEN None ELSE r[x] BY <1>2 DEF Rows
    <2> HIDE DEF q
    <2>5. j \in Handler /\ j.pc = "fill" /\ j.rows = q BY <1>1, <1>2, <2>2 DEF Handler
    <2> HIDE DEF j
    <2>6. Moves(t) /\ job'[t] = j /\ j # AtRest
      BY <2>3, <2>5 DEF Moves, KioskTypeOK, KioskFacts, KioskAssumption
    <2>7. Loading(t)' BY <2>5, <2>6 DEF Loading
    <2>8. \A x \in Student : cache'[x] = IF x = s THEN r[s] ELSE cache[x]
      BY <2>1 DEF KioskTypeOK, Rows
    <2>9. ASSUME ~ reload'.mixed PROVE Follows(job[t])'
      <3>1. ASSUME NEW x \in Student
            PROVE  /\ q[x] \in {None, profile[x]}
                   /\ cache'[x] = IF q[x] = None THEN profile[x] ELSE None
        <4> HIDE DEF r
        <4>1. r[x] \in {None, profile[x]} /\ cache[x] = IF r[x] = None THEN profile[x] ELSE None
          BY <1>4, <2>9
        <4>2. CASE x = s BY <2>1, <2>4, <2>8, <4>1, <4>2
        <4>3. CASE x # s BY <2>4, <2>8, <4>1, <4>3
        <4> QED BY <4>2, <4>3
      <3> QED BY <1>1, <2>5, <2>6, <3>1 DEF Follows
    <2> QED BY <1>3, <2>6, <2>7, <2>9, FacesAlone
  <1> QED BY <1>5, <1>6 DEF Fill

\* The steps of scans and deletions that touch no face.
LEMMA FacesRest ==
  ASSUME KioskFacts, KioskTypeOK, FacesInv, NEW t \in Thread,
         \/ CheckHalf(t) \/ Log(t) \/ CountScan(t) \/ MarkDay(t) \/ CountFails(t) \/ Raises(t)
         \/ PurgeDay(t) \/ PurgeLog(t)
  PROVE  FacesInv'
  <1>1. job[t] # AtRest /\ UNCHANGED <<profile, cache, reload>>
    BY DEF CheckHalf, Log, CountScan, MarkDay, CountFails, Raises, Fails, PurgeDay, PurgeLog, At, tables, world
  <1>2. CASE Done(t) /\ ~ Loading(t) BY <1>1, <1>2, DoneMoves, FacesQuiet DEF Loading
  <1>3. CASE \E pc \in {"log", "total", "day", "clearlog"} : Goto(t, pc) /\ ~ Loading(t)
    <2>1. PICK pc \in {"log", "total", "day", "clearlog"} : Goto(t, pc) /\ ~ Loading(t) BY <1>3
    <2>2. pc \in Step BY DEF Step
    <2>3. Moves(t) /\ job'[t].pc = pc BY <1>1, <2>1, <2>2, GotoMoves
    <2>4. ~ Loading(t)' BY <2>3 DEF Loading
    <2> QED BY <1>1, <2>1, <2>3, <2>4, FacesQuiet
  <1>4. CASE \E pc \in {"purgelog", "evict"} : Goto(t, pc) /\ Loading(t)
    <2>1. PICK pc \in {"purgelog", "evict"} : Goto(t, pc) /\ Loading(t) BY <1>4
    <2>2. pc \in Step BY DEF Step
    <2>3. Moves(t) /\ job'[t] # AtRest /\ job'[t].pc = pc BY <1>1, <2>1, <2>2, GotoMoves
    <2>4. Loading(t)' BY <2>3 DEF Loading
    <2> QED BY <1>1, <2>1, <2>3, <2>4, FacesQuiet
  <1>5. CASE CheckHalf(t) \/ Log(t) \/ CountScan(t) \/ MarkDay(t) \/ CountFails(t)
    BY <1>2, <1>3, <1>5 DEF CheckHalf, Log, CountScan, MarkDay, CountFails, Fails, At, Loading
  <1>6. CASE Raises(t) BY <1>2, <1>6 DEF Raises, Fails, At, Loading
  <1>7. CASE PurgeDay(t) BY <1>3, <1>4, <1>7 DEF PurgeDay, At, Loading
  <1>8. CASE PurgeLog(t) BY <1>2, <1>4, <1>8 DEF PurgeLog, At, Loading
  <1> QED BY <1>5, <1>6, <1>7, <1>8

LEMMA FacesStep ==
  ASSUME KioskFacts, KioskTypeOK, FacesInv, [KioskNext]_kioskVars
  PROVE  FacesInv'
  <1>1. CASE UNCHANGED <<profile, cache, reload, job>>
    BY <1>1 DEF FacesInv, OneLoads, Follows, FacesRegistered, Loading
  <1>2. ASSUME NEW t \in Thread, Early(t) PROVE FacesInv'
    <2>1. /\ Moves(t) /\ UNCHANGED <<profile, cache, reload>> /\ ~ Loading(t) /\ ~ Loading(t)'
      BY <1>2, EarlyMoves
    <2>2. job'[t] = AtRest \/ job'[t].pc \notin {"select", "fill"} BY <2>1 DEF Loading
    <2> QED BY <2>1, <2>2, FacesQuiet
  <1>3. ASSUME NEW t \in Thread,
               \/ CheckHalf(t) \/ Log(t) \/ CountScan(t) \/ MarkDay(t) \/ CountFails(t) \/ Raises(t)
               \/ Upsert(t) \/ Clear(t) \/ Select(t) \/ SelectFails(t) \/ Fill(t)
               \/ PurgeProfile(t) \/ PurgeDay(t) \/ PurgeLog(t) \/ Evict(t)
        PROVE  FacesInv'
    BY <1>3, FacesReload, FacesSelect, FacesFill, FacesRest
  <1>4. CASE UNCHANGED kioskVars BY <1>1, <1>4 DEF kioskVars
  <1>5. CASE Noon BY <1>1, <1>5 DEF Noon, tables
  <1> QED BY <1>2, <1>3, <1>4, <1>5 DEF KioskNext, Early

-----------------------------------------------------------------------------
KioskWhole == KioskInv /\ OnceInv /\ FacesInv

LEMMA WholeStarts == ASSUME KioskFacts, KioskInit PROVE KioskWhole
  <1>1. \A t \in Thread : job[t] = AtRest BY DEF KioskInit
  <1>2. OnceInv BY <1>1 DEF KioskInit, OnceInv, OncePast, NotYet, MarkedIsDay, Past
  <1>3. FacesInv BY <1>1 DEF KioskInit, FacesInv, OneLoads, FacesRegistered, Loading
  <1> QED BY <1>2, <1>3, KioskStarts DEF KioskWhole

LEMMA WholeSteps == ASSUME KioskFacts, KioskWhole, [KioskNext]_kioskVars PROVE KioskWhole'
  <1>1. KioskTypeOK BY DEF KioskWhole, KioskInv
  <1> QED BY <1>1, KioskSteps, OnceStep, FacesStep DEF KioskWhole

LEMMA WholeAlways == ASSUME KioskFacts PROVE KioskSpec => []KioskWhole
  <1>1. KioskInit => KioskWhole BY WholeStarts
  <1>2. KioskWhole /\ [KioskNext]_kioskVars => KioskWhole' BY WholeSteps
  <1> QED BY <1>1, <1>2, PTL DEF KioskSpec

LEMMA WholeGives ==
  ASSUME KioskFacts, KioskWhole PROVE OnceUnlessRaced /\ FacesRegistered
  <1>1. OnceUnlessRaced BY DEF KioskWhole, OnceInv, MarkedIsDay, OnceUnlessRaced
  <1>2. FacesRegistered BY DEF KioskWhole, FacesInv, FacesRegistered
  <1> QED BY <1>1, <1>2

\* With any number of handlers and failing statements nobody is accepted twice in
\* a half, but for a student two scans of whom were past the checks at once or
\* whose day was not written.
THEOREM OnceSafe ==
  ASSUME KioskFacts PROVE KioskSpec => []OnceUnlessRaced
  <1>1. KioskWhole => OnceUnlessRaced BY WholeGives
  <1> QED BY <1>1, WholeAlways, PTL

\* With any number of handlers and failing statements the kiosk recognises the
\* faces of the table once no reload is left, unless reloads were mixed up; after
\* a SELECT that failed it may lack faces, and it never recognises a deleted or a
\* replaced one.
THEOREM CacheSafe ==
  ASSUME KioskFacts PROVE KioskSpec => []FacesRegistered
  <1>1. KioskWhole => FacesRegistered BY WholeGives
  <1> QED BY <1>1, WholeAlways, PTL

\* The kiosk's books, with any number of handlers and failing statements.
THEOREM BooksSafe == ASSUME KioskFacts PROVE KioskSpec => []KioskBooks
  <1>1. KioskWhole => KioskBooks
    BY WholeGives DEF KioskWhole, KioskInv, KioskBooks
  <1> QED BY <1>1, WholeAlways, PTL

-----------------------------------------------------------------------------
\* RollSheet: the types of what the server, the stream and the sheets hold.
SeenMarks == [OnRoll -> Marks] \cup {NoRoll}
Phases == {"idle", "sent", "meta", "rows"}
Events == {"student_checked_in", "session_closed"}

LoadRec == [phase : Phases, sid : 0 .. MaxSessions, status : Statuses, roll : SeenMarks]
ShownRec == [sid : Session, status : Statuses \cup {"unknown"}, roll : SeenMarks,
             pending : 0 .. Cardinality(OnRoll), excused : 0 .. Cardinality(OnRoll)]
Message == [event : Events, who : OnRoll \cup {Nobody}]
Task == [event : Events, sid : Session, who : OnRoll \cup {Nobody},
         begun : BOOLEAN, to : SUBSET Sheet]

LoopTypes ==
    /\ loop \in [job : {"idle", "checkin", "close"}, sid : 0 .. MaxSessions,
                 who : OnRoll \cup Sheet \cup {Nobody}]
    /\ loop.job # "idle" => loop.sid \in Session
    /\ loop.job = "checkin" => loop.who \in OnRoll
    /\ loop.job = "close" => loop.who \in Sheet \cup {Nobody}

ServerTypes ==
    /\ status \in [Session -> Statuses]
    /\ register \in [Session -> [OnRoll -> {"none", "Present", "Absent"}]]
    /\ LoopTypes
    /\ thread \in [at : {"idle", "found", "rows"}, sid : 0 .. MaxSessions, left : SUBSET OnRoll]
    /\ thread # NoThread => thread.sid \in Session
    /\ \A x \in thread.left : Excuse[x] = "none"
    /\ overwritten \subseteq Session \X OnRoll

StreamTypes ==
    /\ tasks \in Seq(Task)
    /\ \A k \in 1 .. Len(tasks) : tasks[k].event = "student_checked_in" => tasks[k].who \in OnRoll
    /\ conns \subseteq Sheet
    /\ sock \in [Sheet -> {"asked", "open", "gone"}]
    /\ inbox \in [Sheet -> Seq(Message)]
    /\ \A c \in Sheet : \A n \in 1 .. Len(inbox[c]) :
          inbox[c][n].event = "student_checked_in" => inbox[c][n].who \in OnRoll

ClientTypes ==
    /\ mounted \subseteq Sheet
    /\ active \in [Sheet -> Session]
    /\ shown \in [Sheet -> ShownRec]
    /\ load \in [Sheet -> [1 .. Loads -> LoadRec]]
    /\ \A c \in Sheet, i \in 1 .. Loads :
          /\ load[c][i].phase # "idle" => load[c][i].sid \in Session
          /\ load[c][i].phase = "rows" => load[c][i].roll \in [OnRoll -> Marks]
    /\ overrides \in 0 .. MaxOverrides

SheetTypes == ServerTypes /\ StreamTypes /\ ClientTypes

LEMMA CountBound ==
    ASSUME IsFiniteSet(OnRoll), NEW roll, NEW words
    PROVE  Count(roll, words) \in 0 .. Cardinality(OnRoll)
  <1> DEFINE S == {x \in OnRoll : roll[x] \in words}
  <1>1. IsFiniteSet(S) /\ Cardinality(S) <= Cardinality(OnRoll) BY FS_Subset
  <1>2. Cardinality(S) \in Nat /\ Cardinality(OnRoll) \in Nat BY <1>1, FS_CardinalityType
  <1> QED BY <1>1, <1>2 DEF Count

LEMMA NoLoadTypes ==
    ASSUME SheetAssumption, NEW s \in Session
    PROVE  /\ NoRoll \in SeenMarks
           /\ NoLoad \in LoadRec
           /\ [NoLoad EXCEPT !.phase = "sent", !.sid = s] \in LoadRec
           /\ [NoLoad EXCEPT !.phase = "sent", !.sid = s].phase = "sent"
           /\ [NoLoad EXCEPT !.phase = "sent", !.sid = s].sid = s
           /\ [NoLoad EXCEPT !.phase = "sent", !.sid = s].status = "none"
  <1>1. NoRoll \in SeenMarks BY DEF SeenMarks
  <1>2. {0, s} \subseteq 0 .. MaxSessions BY DEF SheetAssumption, Session
  <1>3. NoLoad \in LoadRec BY <1>1, <1>2 DEF NoLoad, LoadRec, Phases, Statuses
  <1>4. NoLoad \in [phase : Phases, sid : 0 .. MaxSessions, status : Statuses, roll : SeenMarks]
        /\ NoLoad.status = "none" /\ "sent" \in Phases
    BY <1>3 DEF LoadRec, NoLoad, Phases
  <1>5. [NoLoad EXCEPT !.phase = "sent", !.sid = s] \in [phase : Phases, sid : 0 .. MaxSessions, status : Statuses, roll : SeenMarks]
    BY <1>2, <1>4
  <1>6. /\ [NoLoad EXCEPT !.phase = "sent", !.sid = s].phase = "sent"
        /\ [NoLoad EXCEPT !.phase = "sent", !.sid = s].sid = s
        /\ [NoLoad EXCEPT !.phase = "sent", !.sid = s].status = "none"
    BY <1>4
  <1> QED BY <1>1, <1>3, <1>5, <1>6 DEF LoadRec

\* A request for the roll takes a place that was idle.
LEMMA RequestedIs ==
    ASSUME SheetAssumption, SheetTypes, NEW c \in Sheet, FreeLoads(c) # {}
    PROVE  \E i \in 1 .. Loads :
             /\ load[c][i].phase = "idle"
             /\ Requested(c) = [load EXCEPT ![c][i] = [NoLoad EXCEPT !.phase = "sent", !.sid = active[c]]]
  BY DEF FreeLoads, Requested

LEMMA SheetTypesInit == ASSUME SheetAssumption, SheetInit PROVE SheetTypes
  <1>1. Opened \in Session BY DEF SheetAssumption, Opened, Session
  <1>2. ServerTypes
    BY <1>1 DEF SheetInit, ServerTypes, LoopTypes, Idle, NoThread, Statuses, SheetAssumption, Session
  <1>3. StreamTypes BY DEF SheetInit, StreamTypes
  <1>4. Blank \in ShownRec
    <2>1. Cardinality(OnRoll) \in Nat BY FS_CardinalityType DEF SheetAssumption
    <2>2. NoRoll \in SeenMarks BY DEF SeenMarks
    <2>3. 0 \in 0 .. Cardinality(OnRoll) BY <2>1
    <2> QED BY <1>1, <2>2, <2>3 DEF Blank, ShownRec
  <1>5. \A i \in 1 .. Loads :
           IF i = 1 THEN [NoLoad EXCEPT !.phase = "sent", !.sid = Opened] \in LoadRec ELSE NoLoad \in LoadRec
    BY <1>1, NoLoadTypes
  <1>6. ClientTypes
    <2>1. load \in [Sheet -> [1 .. Loads -> LoadRec]] BY <1>5 DEF SheetInit
    <2>2. \A c \in Sheet, i \in 1 .. Loads : load[c][i] = IF i = 1 THEN [NoLoad EXCEPT !.phase = "sent", !.sid = Opened] ELSE NoLoad
      BY DEF SheetInit
    <2>3. NoLoad.phase = "idle" BY DEF NoLoad
    <2>4. \A c \in Sheet, i \in 1 .. Loads :
          /\ load[c][i].phase # "idle" => load[c][i].sid \in Session
          /\ load[c][i].phase = "rows" => load[c][i].roll \in [OnRoll -> Marks]
      <3> TAKE c \in Sheet, i \in 1 .. Loads
      <3>1. [NoLoad EXCEPT !.phase = "sent", !.sid = Opened].phase = "sent"
            /\ [NoLoad EXCEPT !.phase = "sent", !.sid = Opened].sid = Opened BY <1>1, NoLoadTypes
      <3>2. load[c][i] = IF i = 1 THEN [NoLoad EXCEPT !.phase = "sent", !.sid = Opened] ELSE NoLoad BY <2>2
      <3>3. CASE i = 1 BY <3>1, <3>2, <3>3, <1>1
      <3>4. CASE i # 1 BY <3>2, <3>4, <2>3
      <3> QED BY <3>3, <3>4
    <2> QED BY <1>1, <1>4, <2>1, <2>4 DEF SheetInit, ClientTypes, SheetAssumption
  <1> QED BY <1>2, <1>3, <1>6 DEF SheetTypes

LEMMA WithAbsentTypes ==
    ASSUME SheetTypes, NEW s \in Session, NEW X
    PROVE  /\ WithAbsent(s, X) \in [Session -> [OnRoll -> {"none", "Present", "Absent"}]]
           /\ \A r \in Session, x \in OnRoll :
                WithAbsent(s, X)[r][x] = IF r = s /\ x \in X THEN "Absent" ELSE register[r][x]
  BY DEF SheetTypes, ServerTypes, WithAbsent

\* A broadcast is started, goes on, or ends.
LEMMA RemovedFrom ==
    ASSUME NEW S, NEW s \in Seq(S), NEW k \in 1 .. Len(s)
    PROVE  \A n \in 1 .. Len(RemoveAt(s, k)) : \E m \in 1 .. Len(s) : RemoveAt(s, k)[n] = s[m]
  <1> TAKE n \in 1 .. Len(RemoveAt(s, k))
  <1>1. RemoveAt(s, k)[n] = IF n < k THEN s[n] ELSE s[n + 1] BY RemovedAt
  <1>2. n \in 1 .. Len(s) /\ n + 1 \in 1 .. Len(s) BY RemovedAt
  <1> QED BY <1>1, <1>2

\* One of the requests is for the roll of a session.
Asked(c) == \E i \in 1 .. Loads :
    /\ load[c][i].phase = "idle"
    /\ \E s \in Session : load' = [load EXCEPT ![c][i] = [NoLoad EXCEPT !.phase = "sent", !.sid = s]]

LEMMA AskedTypes ==
    ASSUME SheetAssumption, SheetTypes, NEW c \in Sheet, Asked(c)
    PROVE  /\ load' \in [Sheet -> [1 .. Loads -> LoadRec]]
           /\ \A e \in Sheet, i \in 1 .. Loads :
                \/ load'[e][i] = load[e][i]
                \/ load'[e][i].phase = "sent" /\ load'[e][i].sid \in Session
  <1>1. PICK i \in 1 .. Loads, s \in Session :
          load' = [load EXCEPT ![c][i] = [NoLoad EXCEPT !.phase = "sent", !.sid = s]]
    BY DEF Asked
  <1> DEFINE new == [NoLoad EXCEPT !.phase = "sent", !.sid = s]
  <1>2. new \in LoadRec /\ new.phase = "sent" /\ new.sid = s BY NoLoadTypes
  <1> HIDE DEF new
  <1>3. load' = [load EXCEPT ![c][i] = new] BY <1>1 DEF new
  <1>4. load \in [Sheet -> [1 .. Loads -> LoadRec]] BY DEF SheetTypes, ClientTypes
  <1> QED BY <1>2, <1>3, <1>4

-----------------------------------------------------------------------------
LEMMA ServerTypesStep ==
    ASSUME SheetAssumption, SheetTypes, SheetNext
    PROVE  ServerTypes'
  <1> USE DEF SheetTypes, ServerTypes, LoopTypes
  <1>0. /\ {"checkin_open", "checkin_closed", "checkout_open", "closed"} \subseteq Statuses
        /\ Session \subseteq 0 .. MaxSessions /\ 0 \in 0 .. MaxSessions
    BY DEF Statuses, Session, SheetAssumption
  <1>1. ASSUME NEW s \in Session, NEW x \in OnRoll, Admit(s, x) PROVE ServerTypes'
    BY <1>0, <1>1 DEF Admit
  <1>2. ASSUME NEW s \in Session, NEW who \in Sheet \cup {Nobody}, CloseRows(s, who) PROVE ServerTypes'
    <2>1. PICK X \in SUBSET Absentees(s) : register' = WithAbsent(s, X) BY <1>2 DEF CloseRows
    <2>2. register' \in [Session -> [OnRoll -> {"none", "Present", "Absent"}]] BY <2>1, WithAbsentTypes
    <2> QED BY <1>0, <1>2, <2>2 DEF CloseRows
  <1>3. CASE (\E s \in Session : ThreadFinds(s)) \/ ThreadReads \/ (\E x \in OnRoll : ThreadMarks(x))
    <2>1. ASSUME NEW s \in Session, ThreadFinds(s) PROVE ServerTypes'
      BY <1>0, <2>1 DEF ThreadFinds, NoThread
    <2>2. CASE ThreadReads
      <3>1. /\ thread # NoThread /\ Absentees(thread.sid) \in SUBSET OnRoll
            /\ \A x \in Absentees(thread.sid) : Excuse[x] = "none"
        BY <2>2 DEF ThreadReads, NoThread, Absentees
      <3> QED BY <1>0, <2>2, <3>1 DEF ThreadReads
    <2>3. ASSUME NEW x \in OnRoll, ThreadMarks(x) PROVE ServerTypes'
      <3>1. thread # NoThread /\ thread.sid \in Session BY <2>3 DEF ThreadMarks, NoThread
      <3>2. /\ register' \in [Session -> [OnRoll -> {"none", "Present", "Absent"}]]
            /\ overwritten' \subseteq Session \X OnRoll
        BY <2>3, <3>1, WithAbsentTypes DEF ThreadMarks
      <3>3. thread' = [thread EXCEPT !.left = @ \ {x}] /\ UNCHANGED <<status, loop>> BY <2>3 DEF ThreadMarks
      <3> QED BY <1>0, <3>1, <3>2, <3>3
    <2> QED BY <1>3, <2>1, <2>2, <2>3
  <1>4. ASSUME NEW s \in Session, CloseCheckin(s) \/ StartCheckout(s) PROVE ServerTypes'
    BY <1>0, <1>4 DEF CloseCheckin, StartCheckout
  <1>5. CASE Mark BY <1>0, <1>5 DEF Mark, Idle
  <1>6. CASE CloseStatus BY <1>0, <1>6 DEF CloseStatus, Idle
  <1>7. CASE ThreadStatus BY <1>0, <1>7 DEF ThreadStatus, NoThread
  <1>8. ASSUME NEW c \in Sheet, StartRecording(c) PROVE ServerTypes'
    BY <1>0, <1>8 DEF StartRecording
  <1>9. ASSUME NEW c \in Sheet, NEW x \in OnRoll, NEW mark \in {"Present", "Absent"}, Override(c, x, mark)
        PROVE ServerTypes'
    <2>1. active[c] \in Session BY DEF ClientTypes
    <2> QED BY <1>9, <2>1 DEF Override
  <1>10. ASSUME UNCHANGED server PROVE ServerTypes' BY <1>10 DEF server
  <1>11. ASSUME NEW c \in Sheet,
                \/ Connect(c) \/ Drop(c) \/ Disconnect(c) \/ ReceiveCheckin(c) \/ ReceiveClosed(c)
                \/ Poll(c) \/ Dispose(c)
                \/ \E i \in 1 .. Loads : LoadMeta(c, i) \/ LoadRows(c, i) \/ Answer(c, i) \/ LoadLost(c, i)
         PROVE ServerTypes'
    BY <1>10, <1>11 DEF Connect, Drop, Disconnect, ReceiveCheckin, ReceiveClosed, Poll, Dispose,
       LoadMeta, LoadRows, Answer, LoadLost
  <1>12. ASSUME NEW k \in 1 .. Len(tasks), BeginTask(k) \/ \E c \in Sheet : Send(k, c) PROVE ServerTypes'
    BY <1>10, <1>12 DEF BeginTask, Send
  <1> HIDE DEF SheetTypes, ServerTypes, LoopTypes
  <1> QED BY <1>1, <1>2, <1>3, <1>4, <1>5, <1>6, <1>7, <1>8, <1>9, <1>11, <1>12 DEF SheetNext

LEMMA BroadcastTypes ==
    ASSUME SheetTypes, NEW e \in Events, NEW s \in Session, NEW x \in OnRoll \cup {Nobody},
           e = "student_checked_in" => x \in OnRoll
    PROVE  /\ Broadcast(e, s, x) \in Seq(Task)
           /\ \A k \in 1 .. Len(Broadcast(e, s, x)) :
                Broadcast(e, s, x)[k].event = "student_checked_in" => Broadcast(e, s, x)[k].who \in OnRoll
           /\ Len(Broadcast(e, s, x)) = Len(tasks) + 1
           /\ \A k \in 1 .. Len(tasks) : Broadcast(e, s, x)[k] = tasks[k]
           /\ Broadcast(e, s, x)[Len(tasks) + 1] =
                [event |-> e, sid |-> s, who |-> x, begun |-> FALSE, to |-> {}]
  <1> DEFINE new == [event |-> e, sid |-> s, who |-> x, begun |-> FALSE, to |-> {}]
  <1>1. new \in Task /\ new.event = e /\ new.who = x BY DEF Task
  <1> HIDE DEF new
  <1>2. tasks \in Seq(Task) /\ Len(tasks) \in Nat BY LenProperties DEF SheetTypes, StreamTypes
  <1>3. Broadcast(e, s, x) = Append(tasks, new) BY DEF Broadcast, new
  <1>4. /\ Append(tasks, new) \in Seq(Task) /\ Len(Append(tasks, new)) = Len(tasks) + 1
        /\ \A k \in 1 .. Len(tasks) : Append(tasks, new)[k] = tasks[k]
        /\ Append(tasks, new)[Len(tasks) + 1] = new
    BY <1>1, <1>2, AppendProperties
  <1>5. \A k \in 1 .. Len(tasks) + 1 : k \in 1 .. Len(tasks) \/ k = Len(tasks) + 1 BY <1>2
  <1>6. \A k \in 1 .. Len(tasks) : tasks[k].event = "student_checked_in" => tasks[k].who \in OnRoll
    BY DEF SheetTypes, StreamTypes
  <1>7. \A k \in 1 .. Len(tasks) + 1 : Append(tasks, new)[k].event = "student_checked_in" => Append(tasks, new)[k].who \in OnRoll
    BY <1>1, <1>4, <1>5, <1>6
  <1> QED BY <1>3, <1>4, <1>7 DEF new

\* Where a broadcast begins or reaches a sheet: the tasks that are left were
\* there, with the same event, and wait for sheets only if Opened is theirs.
LEMMA TasksAfter ==
    ASSUME SheetTypes, NEW k \in 1 .. Len(tasks), BeginTask(k) \/ \E c \in Sheet : Send(k, c)
    PROVE  /\ tasks' \in Seq(Task)
           /\ \A n \in 1 .. Len(tasks') : \E m \in 1 .. Len(tasks) :
                /\ tasks'[n].event = tasks[m].event
                /\ tasks'[n].sid = tasks[m].sid
                /\ tasks'[n].who = tasks[m].who
                /\ tasks'[n].to # {} => tasks[m].to # {} \/ tasks[m].sid = Opened
  <1>1. tasks \in Seq(Task) /\ conns \subseteq Sheet BY DEF SheetTypes, StreamTypes
  <1>2. CASE tasks' = RemoveAt(tasks, k)
    <2>1. RemoveAt(tasks, k) \in Seq(Task) BY <1>1, RemovedAt
    <2>2. \A n \in 1 .. Len(RemoveAt(tasks, k)) : \E m \in 1 .. Len(tasks) : RemoveAt(tasks, k)[n] = tasks[m]
      BY <1>1, RemovedFrom
    <2> QED BY <1>2, <2>1, <2>2
  <1>3. ASSUME NEW b \in BOOLEAN, NEW T \in SUBSET Sheet,
               T # {} => tasks[k].to # {} \/ tasks[k].sid = Opened,
               tasks' = [tasks EXCEPT ![k].begun = b, ![k].to = T]
        PROVE  /\ tasks' \in Seq(Task)
               /\ \A n \in 1 .. Len(tasks') : \E m \in 1 .. Len(tasks) :
                    /\ tasks'[n].event = tasks[m].event
                    /\ tasks'[n].sid = tasks[m].sid
                    /\ tasks'[n].who = tasks[m].who
                    /\ tasks'[n].to # {} => tasks[m].to # {} \/ tasks[m].sid = Opened
    <2>1. tasks[k] \in Task BY <1>1, ElementOfSeq
    <2> DEFINE new == [tasks[k] EXCEPT !.begun = b, !.to = T]
    <2>2. /\ new \in Task /\ new.event = tasks[k].event /\ new.sid = tasks[k].sid
          /\ new.who = tasks[k].who /\ new.to = T
      BY <2>1 DEF Task
    <2>3. tasks' = [tasks EXCEPT ![k] = new] BY <1>3
    <2> HIDE DEF new
    <2>4. tasks' \in Seq(Task) /\ Len(tasks') = Len(tasks)
          /\ \A n \in 1 .. Len(tasks) : tasks'[n] = IF n = k THEN new ELSE tasks[n]
      BY <1>1, <2>2, <2>3, ExceptSeq
    <2> QED BY <1>3, <2>2, <2>4
  <1>4. CASE BeginTask(k)
    <2> DEFINE to == IF tasks[k].sid = Opened THEN conns ELSE {}
    <2>1. tasks' = RemoveAt(tasks, k) \/ tasks' = [tasks EXCEPT ![k].begun = TRUE, ![k].to = to]
      BY <1>4 DEF BeginTask
    <2>2. to \in SUBSET Sheet /\ (to # {} => tasks[k].sid = Opened) BY <1>1
    <2> HIDE DEF to
    <2> QED BY <1>2, <1>3, <2>1, <2>2
  <1>5. ASSUME NEW c \in Sheet, Send(k, c)
        PROVE  /\ tasks' \in Seq(Task)
               /\ \A n \in 1 .. Len(tasks') : \E m \in 1 .. Len(tasks) :
                    /\ tasks'[n].event = tasks[m].event
                    /\ tasks'[n].sid = tasks[m].sid
                    /\ tasks'[n].who = tasks[m].who
                    /\ tasks'[n].to # {} => tasks[m].to # {} \/ tasks[m].sid = Opened
    <2>1. tasks[k] \in Task BY <1>1, ElementOfSeq
    <2> DEFINE to == tasks[k].to \ {c}
    <2>2. tasks' = RemoveAt(tasks, k) \/ tasks' = [tasks EXCEPT ![k].to = to]
      BY <1>5 DEF Send
    <2>3. to \in SUBSET Sheet /\ tasks[k].to # {} /\ tasks[k].begun \in BOOLEAN BY <1>5, <2>1 DEF Send, Task
    <2>4. [tasks EXCEPT ![k].to = to] = [tasks EXCEPT ![k].begun = tasks[k].begun, ![k].to = to]
      <3>1. [tasks[k] EXCEPT !.to = to] = [tasks[k] EXCEPT !.begun = tasks[k].begun, !.to = to]
        BY <2>1 DEF Task
      <3> QED BY <3>1
    <2> HIDE DEF to
    <2> QED BY <1>2, <1>3, <2>2, <2>3, <2>4
  <1> QED BY <1>4, <1>5

LEMMA StreamTypesStep ==
    ASSUME SheetAssumption, SheetTypes, SheetNext
    PROVE  StreamTypes'
  <1>0. StreamTypes /\ LoopTypes BY DEF SheetTypes, ServerTypes
  <1>1. ASSUME UNCHANGED stream PROVE StreamTypes' BY <1>0, <1>1 DEF StreamTypes, stream
  <1>2. ASSUME UNCHANGED <<conns, sock, inbox>>, NEW e \in Events, NEW s \in Session,
               NEW x \in OnRoll \cup {Nobody}, e = "student_checked_in" => x \in OnRoll,
               tasks' = Broadcast(e, s, x)
        PROVE StreamTypes'
    <2>1. /\ tasks' \in Seq(Task)
          /\ \A k \in 1 .. Len(tasks') : tasks'[k].event = "student_checked_in" => tasks'[k].who \in OnRoll
      BY <1>2, BroadcastTypes
    <2> QED BY <1>0, <1>2, <2>1 DEF StreamTypes
  <1>3. CASE Mark
    <2>1. loop.sid \in Session /\ loop.who \in OnRoll BY <1>0, <1>3 DEF LoopTypes, Mark
    <2> QED BY <1>2, <1>3, <2>1 DEF Mark, Events
  <1>4. CASE CloseStatus
    <2>1. loop.sid \in Session BY <1>0, <1>4 DEF LoopTypes, CloseStatus
    <2> QED BY <1>2, <1>4, <2>1 DEF CloseStatus, Events
  <1>5. ASSUME NEW c \in Sheet, Connect(c) \/ Disconnect(c) PROVE StreamTypes'
    BY <1>0, <1>5 DEF StreamTypes, Connect, Disconnect
  <1>6. ASSUME NEW c \in Sheet, Drop(c) \/ Dispose(c) PROVE StreamTypes'
    <2>1. /\ UNCHANGED <<tasks, conns>> /\ sock' = [sock EXCEPT ![c] = "gone"]
          /\ inbox' = [inbox EXCEPT ![c] = <<>>]
      BY <1>6 DEF Drop, Dispose
    <2>2. <<>> \in Seq(Message) /\ Len(<<>>) = 0 OBVIOUS
    <2>3. inbox' \in [Sheet -> Seq(Message)] BY <1>0, <2>1, <2>2 DEF StreamTypes
    <2>4. \A e \in Sheet : \A n \in 1 .. Len(inbox'[e]) :
            inbox'[e][n].event = "student_checked_in" => inbox'[e][n].who \in OnRoll
      BY <1>0, <2>1, <2>2 DEF StreamTypes
    <2> QED BY <1>0, <2>1, <2>3, <2>4 DEF StreamTypes
  <1>7. ASSUME NEW c \in Sheet, ReceiveCheckin(c) \/ ReceiveClosed(c) PROVE StreamTypes'
    <2>1. /\ UNCHANGED <<tasks, conns, sock>> /\ inbox[c] # <<>>
          /\ inbox' = [inbox EXCEPT ![c] = Tail(@)]
      BY <1>7 DEF ReceiveCheckin, ReceiveClosed
    <2>2. inbox[c] \in Seq(Message) BY <1>0 DEF StreamTypes
    <2>3. /\ Tail(inbox[c]) \in Seq(Message) /\ Len(Tail(inbox[c])) = Len(inbox[c]) - 1
          /\ \A n \in 1 .. Len(Tail(inbox[c])) : Tail(inbox[c])[n] = inbox[c][n + 1] /\ n + 1 \in 1 .. Len(inbox[c])
      BY <2>1, <2>2, HeadTailProperties
    <2>4. inbox' \in [Sheet -> Seq(Message)] BY <1>0, <2>1, <2>3 DEF StreamTypes
    <2>5. \A e \in Sheet : \A n \in 1 .. Len(inbox'[e]) :
            inbox'[e][n].event = "student_checked_in" => inbox'[e][n].who \in OnRoll
      BY <1>0, <2>1, <2>3 DEF StreamTypes
    <2> QED BY <1>0, <2>1, <2>4, <2>5 DEF StreamTypes
  <1>8. ASSUME NEW k \in 1 .. Len(tasks), BeginTask(k) \/ \E c \in Sheet : Send(k, c) PROVE StreamTypes'
    <2>1. /\ tasks' \in Seq(Task)
          /\ \A n \in 1 .. Len(tasks') : tasks'[n].event = "student_checked_in" => tasks'[n].who \in OnRoll
      BY <1>0, <1>8, TasksAfter DEF StreamTypes
    <2>2. CASE BeginTask(k) BY <1>0, <2>1, <2>2 DEF StreamTypes, BeginTask
    <2>3. ASSUME NEW c \in Sheet, Send(k, c) PROVE StreamTypes'
      <3> DEFINE new == [event |-> tasks[k].event, who |-> tasks[k].who]
      <3>1. tasks[k] \in Task /\ (tasks[k].event = "student_checked_in" => tasks[k].who \in OnRoll)
        BY <1>0, ElementOfSeq DEF StreamTypes
      <3>2. new \in Message /\ new.event = tasks[k].event /\ new.who = tasks[k].who BY <3>1 DEF Task, Message
      <3>3. CASE sock[c] # "open" BY <1>0, <2>1, <2>3, <3>3 DEF StreamTypes, Send
      <3>4. CASE sock[c] = "open"
        <4>1. UNCHANGED <<conns, sock>> /\ inbox' = [inbox EXCEPT ![c] = Append(@, new)] BY <2>3, <3>4 DEF Send
        <4> HIDE DEF new
        <4>2. inbox[c] \in Seq(Message) BY <1>0 DEF StreamTypes
        <4>3. /\ Append(inbox[c], new) \in Seq(Message) /\ Len(Append(inbox[c], new)) = Len(inbox[c]) + 1
              /\ \A n \in 1 .. Len(inbox[c]) : Append(inbox[c], new)[n] = inbox[c][n]
              /\ Append(inbox[c], new)[Len(inbox[c]) + 1] = new
          BY <3>2, <4>2, AppendProperties
        <4>4. \A n \in 1 .. Len(inbox[c]) + 1 : n \in 1 .. Len(inbox[c]) \/ n = Len(inbox[c]) + 1
          BY <4>2, LenProperties
        <4>5. inbox' \in [Sheet -> Seq(Message)] BY <1>0, <4>1, <4>3 DEF StreamTypes
        <4>6. \A e \in Sheet : \A n \in 1 .. Len(inbox'[e]) :
                inbox'[e][n].event = "student_checked_in" => inbox'[e][n].who \in OnRoll
          BY <1>0, <3>1, <3>2, <4>1, <4>3, <4>4 DEF StreamTypes
        <4> QED BY <1>0, <2>1, <4>1, <4>5, <4>6 DEF StreamTypes
      <3> QED BY <3>3, <3>4
    <2> QED BY <1>8, <2>2, <2>3
  <1>9. ASSUME NEW s \in Session,
               \/ \E x \in OnRoll : Admit(s, x)
               \/ \E who \in Sheet \cup {Nobody} : CloseRows(s, who)
               \/ ThreadFinds(s) \/ CloseCheckin(s) \/ StartCheckout(s)
        PROVE StreamTypes'
    BY <1>1, <1>9 DEF Admit, CloseRows, ThreadFinds, CloseCheckin, StartCheckout
  <1>10. CASE ThreadReads \/ (\E x \in OnRoll : ThreadMarks(x)) \/ ThreadStatus
    BY <1>1, <1>10 DEF ThreadReads, ThreadMarks, ThreadStatus
  <1>11. ASSUME NEW c \in Sheet,
                \/ Poll(c) \/ StartRecording(c)
                \/ \E i \in 1 .. Loads : LoadMeta(c, i) \/ LoadRows(c, i) \/ Answer(c, i) \/ LoadLost(c, i)
                \/ \E x \in OnRoll, mark \in {"Present", "Absent"} : Override(c, x, mark)
         PROVE StreamTypes'
    BY <1>1, <1>11 DEF Poll, StartRecording, LoadMeta, LoadRows, Answer, LoadLost, Override
  <1> QED BY <1>3, <1>4, <1>5, <1>6, <1>7, <1>8, <1>9, <1>10, <1>11 DEF SheetNext

-----------------------------------------------------------------------------
LEMMA ListedMark ==
    ASSUME SheetAssumption, SheetTypes, NEW s \in Session, NEW st, NEW x \in OnRoll
    PROVE  Listed(s, st, x) \in Marks
  <1>1. register[s][x] \in {"none", "Present", "Absent"} BY DEF SheetTypes, ServerTypes
  <1>2. Excuse[x] \in {"none", "On-Duty", "Leave"} BY DEF SheetAssumption
  <1> QED BY <1>1, <1>2 DEF Listed, Marks

\* The sheet asks for the roll: one idle request is sent for some session.
LEMMA Asking ==
    ASSUME SheetAssumption, SheetTypes, NEW c \in Sheet,
           \/ FreeLoads(c) # {} /\ load' = Requested(c)
           \/ StartRecording(c)
    PROVE  Asked(c)
  <1>1. active[c] \in Session BY DEF SheetTypes, ClientTypes
  <1>2. CASE FreeLoads(c) # {} /\ load' = Requested(c)
    <2>1. PICK i \in 1 .. Loads :
            /\ load[c][i].phase = "idle"
            /\ Requested(c) = [load EXCEPT ![c][i] = [NoLoad EXCEPT !.phase = "sent", !.sid = active[c]]]
      BY <1>2, RequestedIs
    <2>2. load' = [load EXCEPT ![c][i] = [NoLoad EXCEPT !.phase = "sent", !.sid = active[c]]] BY <1>2, <2>1
    <2> QED BY <1>1, <2>1, <2>2 DEF Asked
  <1>3. CASE StartRecording(c)
    <2>1. FreeLoads(c) # {}
          /\ \E s \in Session : load' = [load EXCEPT ![c][CHOOSE i \in FreeLoads(c) : TRUE] =
                         [NoLoad EXCEPT !.phase = "sent", !.sid = s]]
      BY <1>3 DEF StartRecording
    <2>2. PICK i \in FreeLoads(c) : i = CHOOSE j \in FreeLoads(c) : TRUE BY <2>1
    <2> QED BY <2>1, <2>2 DEF Asked, FreeLoads
  <1> QED BY <1>2, <1>3

\* What a sheet shows is what it showed, the answer to a request, or that with
\* somebody checked in.
LEMMA ShownAfter ==
    ASSUME SheetAssumption, SheetTypes, NEW c \in Sheet, ReceiveCheckin(c)
    PROVE  LET x == Head(inbox[c]).who IN
           /\ x \in OnRoll
           /\ UNCHANGED <<load, active, mounted, register, overwritten>>
           /\ \/ shown' = shown
              \/ /\ shown[c].roll[x] \in Marks
                 /\ shown' = [shown EXCEPT ![c] = Recounted([shown[c] EXCEPT !.roll[x] = "Present"])]
  <1> DEFINE x == Head(inbox[c]).who
  <1>1. inbox[c] \in Seq(Message) /\ inbox[c] # <<>> BY DEF SheetTypes, StreamTypes, ReceiveCheckin
  <1>2. Head(inbox[c]) = inbox[c][1] /\ 1 \in 1 .. Len(inbox[c]) BY <1>1, HeadTailProperties, EmptySeq, LenProperties
  <1>3. x \in OnRoll BY <1>2 DEF ReceiveCheckin, SheetTypes, StreamTypes
  <1>4. shown[c].roll[x] \in Marks \cup {"unlisted"}
    <2>1. shown[c].roll \in SeenMarks BY DEF SheetTypes, ClientTypes, ShownRec
    <2>2. shown[c].roll \in [OnRoll -> Marks \cup {"unlisted"}] BY <2>1 DEF SeenMarks, NoRoll
    <2> QED BY <1>3, <2>2
  <1> QED BY <1>3, <1>4 DEF ReceiveCheckin, server

LEMMA RecountedIs ==
    ASSUME SheetAssumption, NEW sh \in ShownRec, NEW x \in OnRoll, sh.roll \in [OnRoll -> Marks]
    PROVE  LET new == Recounted([sh EXCEPT !.roll[x] = "Present"]) IN
           /\ new \in ShownRec
           /\ new.sid = sh.sid /\ new.status = sh.status
           /\ new.roll = [sh.roll EXCEPT ![x] = "Present"]
           /\ new.pending = Count(new.roll, {"Pending", "Leave"})
           /\ new.excused = Count(new.roll, {"On-Duty"})
  <1> DEFINE roll == [sh.roll EXCEPT ![x] = "Present"]
             mid == [sh EXCEPT !.roll = roll]
             p == Count(roll, {"Pending", "Leave"})
             e == Count(roll, {"On-Duty"})
  <1>1. roll \in [OnRoll -> Marks] BY DEF Marks
  <1>2. p \in 0 .. Cardinality(OnRoll) /\ e \in 0 .. Cardinality(OnRoll)
    BY CountBound DEF SheetAssumption
  <1>3. [sh EXCEPT !.roll[x] = "Present"] = mid OBVIOUS
  <1> HIDE DEF roll
  <1>4. mid \in ShownRec /\ mid.roll = roll /\ mid.sid = sh.sid /\ mid.status = sh.status
    BY <1>1 DEF ShownRec, SeenMarks
  <1> HIDE DEF mid
  <1>5. Recounted(mid) = [mid EXCEPT !.pending = p, !.excused = e] BY <1>4 DEF Recounted
  <1> HIDE DEF p, e
  <1>6. [mid EXCEPT !.pending = p, !.excused = e] \in ShownRec BY <1>2, <1>4 DEF ShownRec
  <1>7. /\ [mid EXCEPT !.pending = p, !.excused = e].roll = roll
        /\ [mid EXCEPT !.pending = p, !.excused = e].sid = sh.sid
        /\ [mid EXCEPT !.pending = p, !.excused = e].status = sh.status
        /\ [mid EXCEPT !.pending = p, !.excused = e].pending = p
        /\ [mid EXCEPT !.pending = p, !.excused = e].excused = e
    BY <1>4 DEF ShownRec
  <1> QED BY <1>3, <1>5, <1>6, <1>7 DEF roll, p, e

\* The steps of one request.
LEMMA LoadAfter ==
    ASSUME SheetAssumption, SheetTypes, NEW c \in Sheet, NEW i \in 1 .. Loads,
           LoadMeta(c, i) \/ LoadRows(c, i) \/ Answer(c, i) \/ LoadLost(c, i)
    PROVE  /\ load[c][i].phase # "idle" /\ load[c][i].sid \in Session
           /\ load' \in [Sheet -> [1 .. Loads -> LoadRec]]
           /\ \A e \in Sheet, j \in 1 .. Loads : (e # c \/ j # i) => load'[e][j] = load[e][j]
           /\ LoadMeta(c, i) => /\ load'[c][i].phase = "meta" /\ load'[c][i].sid = load[c][i].sid
                                /\ load'[c][i].status = status[load[c][i].sid]
                                /\ load'[c][i].roll = load[c][i].roll
           /\ LoadRows(c, i) => /\ load'[c][i].phase = "rows" /\ load'[c][i].sid = load[c][i].sid
                                /\ load'[c][i].status = load[c][i].status
                                /\ load'[c][i].roll \in [OnRoll -> Marks]
                                /\ load'[c][i].roll = [x \in OnRoll |-> Listed(load[c][i].sid, load[c][i].status, x)]
           /\ Answer(c, i) \/ LoadLost(c, i) => load'[c][i] = NoLoad
  <1>1. /\ load \in [Sheet -> [1 .. Loads -> LoadRec]] /\ status \in [Session -> Statuses]
        /\ load[c][i].phase # "idle" => load[c][i].sid \in Session
    BY DEF SheetTypes, ServerTypes, ClientTypes
  <1>2. load[c][i].phase # "idle" BY DEF LoadMeta, LoadRows, Answer, LoadLost
  <1> DEFINE old == load[c][i]
  <1>3. old \in LoadRec /\ old.sid \in Session BY <1>1, <1>2
  <1>4. ASSUME NEW new \in LoadRec, load' = [load EXCEPT ![c][i] = new]
        PROVE  /\ load' \in [Sheet -> [1 .. Loads -> LoadRec]] /\ load'[c][i] = new
               /\ \A e \in Sheet, j \in 1 .. Loads : (e # c \/ j # i) => load'[e][j] = load[e][j]
    BY <1>1, <1>4
  <1>5. ASSUME LoadMeta(c, i)
        PROVE  \E new \in LoadRec : /\ load' = [load EXCEPT ![c][i] = new] /\ new.phase = "meta" /\ new.sid = old.sid
                                    /\ new.status = status[old.sid] /\ new.roll = old.roll
    <2> DEFINE st == status[old.sid]
    <2>1. st \in Statuses BY <1>1, <1>3
    <2>2. load' = [load EXCEPT ![c][i] = [old EXCEPT !.phase = "meta", !.status = st]] BY <1>1, <1>5 DEF LoadMeta
    <2> HIDE DEF st, old
    <2>3. [old EXCEPT !.phase = "meta", !.status = st] \in LoadRec BY <1>3, <2>1 DEF LoadRec, Phases
    <2>4. /\ [old EXCEPT !.phase = "meta", !.status = st].phase = "meta"
          /\ [old EXCEPT !.phase = "meta", !.status = st].status = st
          /\ [old EXCEPT !.phase = "meta", !.status = st].sid = old.sid
          /\ [old EXCEPT !.phase = "meta", !.status = st].roll = old.roll
      BY <1>3 DEF LoadRec
    <2> QED BY <2>2, <2>3, <2>4 DEF st
  <1>6. ASSUME LoadRows(c, i)
        PROVE  \E new \in LoadRec : /\ load' = [load EXCEPT ![c][i] = new] /\ new.phase = "rows" /\ new.sid = old.sid
                                    /\ new.status = old.status /\ new.roll \in [OnRoll -> Marks]
                                    /\ new.roll = [x \in OnRoll |-> Listed(old.sid, old.status, x)]
    <2> DEFINE roll == [x \in OnRoll |-> Listed(old.sid, old.status, x)]
    <2>1. roll \in [OnRoll -> Marks] BY <1>3, ListedMark
    <2>2. load' = [load EXCEPT ![c][i] = [old EXCEPT !.phase = "rows", !.roll = roll]] BY <1>1, <1>6 DEF LoadRows
    <2> HIDE DEF roll, old
    <2>3. [old EXCEPT !.phase = "rows", !.roll = roll] \in LoadRec BY <1>3, <2>1 DEF LoadRec, Phases, SeenMarks
    <2>4. /\ [old EXCEPT !.phase = "rows", !.roll = roll].phase = "rows"
          /\ [old EXCEPT !.phase = "rows", !.roll = roll].status = old.status
          /\ [old EXCEPT !.phase = "rows", !.roll = roll].sid = old.sid
          /\ [old EXCEPT !.phase = "rows", !.roll = roll].roll = roll
      BY <1>3 DEF LoadRec
    <2>5. roll = [x \in OnRoll |-> Listed(old.sid, old.status, x)] BY DEF roll
    <2> QED BY <2>1, <2>2, <2>3, <2>4, <2>5
  <1>7. NoLoad \in LoadRec BY <1>3, NoLoadTypes
  <1>8. ASSUME Answer(c, i) \/ LoadLost(c, i) PROVE load' = [load EXCEPT ![c][i] = NoLoad]
    BY <1>8 DEF Answer, LoadLost
  <1>9. ASSUME LoadMeta(c, i) PROVE load[c][i].phase = "sent" BY <1>9 DEF LoadMeta
  <1>10. ASSUME LoadRows(c, i) PROVE load[c][i].phase = "meta" BY <1>10 DEF LoadRows
  <1>11. ASSUME Answer(c, i) \/ LoadLost(c, i) PROVE load[c][i].phase = "rows" BY <1>11 DEF Answer, LoadLost
  <1>12. CASE LoadMeta(c, i) BY <1>2, <1>3, <1>4, <1>5, <1>9, <1>10, <1>11, <1>12
  <1>13. CASE LoadRows(c, i) BY <1>2, <1>3, <1>4, <1>6, <1>9, <1>10, <1>11, <1>13
  <1>14. CASE Answer(c, i) \/ LoadLost(c, i) BY <1>2, <1>3, <1>4, <1>7, <1>8, <1>9, <1>10, <1>11, <1>14
  <1> QED BY <1>12, <1>13, <1>14

\* The answer to a request, on a sheet that is on screen.
LEMMA AnswerIs ==
    ASSUME SheetAssumption, SheetTypes, NEW c \in Sheet, NEW i \in 1 .. Loads, Answer(c, i)
    PROVE  \/ shown' = shown
           \/ \E new \in ShownRec :
                /\ shown' = [shown EXCEPT ![c] = new]
                /\ new.sid = load[c][i].sid /\ new.status = load[c][i].status /\ new.roll = load[c][i].roll
                /\ new.roll \in [OnRoll -> Marks]
                /\ new.pending = Count(new.roll, {"Pending"})
                /\ new.excused = Count(new.roll, {"On-Duty", "Leave"})
  <1> DEFINE new == [sid |-> load[c][i].sid, status |-> load[c][i].status,
                     roll |-> load[c][i].roll,
                     pending |-> Count(load[c][i].roll, {"Pending"}),
                     excused |-> Count(load[c][i].roll, {"On-Duty", "Leave"})]
  <1>1. /\ load[c][i] \in LoadRec /\ load[c][i].sid \in Session /\ load[c][i].roll \in [OnRoll -> Marks]
    BY DEF SheetTypes, ClientTypes, Answer
  <1>2. new \in ShownRec
    <2>1. \A words : Count(load[c][i].roll, words) \in 0 .. Cardinality(OnRoll)
      BY CountBound DEF SheetAssumption
    <2> QED BY <1>1, <2>1 DEF ShownRec, LoadRec
  <1>3. shown' = shown \/ shown' = [shown EXCEPT ![c] = new] BY DEF Answer
  <1> QED BY <1>1, <1>2, <1>3

LEMMA ClientTypesStep ==
    ASSUME SheetAssumption, SheetTypes, SheetNext
    PROVE  ClientTypes'
  <1>0. ClientTypes BY DEF SheetTypes
  <1>1. ASSUME UNCHANGED <<client, overrides>> PROVE ClientTypes' BY <1>0, <1>1 DEF ClientTypes, client
  <1>2. ASSUME NEW c \in Sheet, Asked(c), UNCHANGED <<mounted, shown>>,
               active' \in [Sheet -> Session], overrides' \in 0 .. MaxOverrides
        PROVE ClientTypes'
    <2>1. /\ load' \in [Sheet -> [1 .. Loads -> LoadRec]]
          /\ \A e \in Sheet, i \in 1 .. Loads :
                \/ load'[e][i] = load[e][i]
                \/ load'[e][i].phase = "sent" /\ load'[e][i].sid \in Session
      BY <1>2, AskedTypes
    <2>2. \A e \in Sheet, i \in 1 .. Loads :
            /\ load'[e][i].phase # "idle" => load'[e][i].sid \in Session
            /\ load'[e][i].phase = "rows" => load'[e][i].roll \in [OnRoll -> Marks]
      BY <1>0, <2>1 DEF ClientTypes
    <2> QED BY <1>0, <1>2, <2>1, <2>2 DEF ClientTypes
  <1>3. ASSUME NEW c \in Sheet, Poll(c) \/ ReceiveClosed(c) PROVE ClientTypes'
    BY <1>0, <1>2, <1>3, Asking DEF Poll, ReceiveClosed, ClientTypes
  <1>4. CASE CloseStatus
    <2>1. CASE loop.who = Nobody BY <1>1, <1>4, <2>1 DEF CloseStatus, client
    <2>2. CASE loop.who # Nobody
      <3>1. loop.who \in Sheet BY <1>4, <2>2 DEF CloseStatus, SheetTypes, ServerTypes, LoopTypes
      <3>2. Asked(loop.who) BY <1>4, <2>2, <3>1, Asking DEF CloseStatus
      <3> QED BY <1>0, <1>2, <1>4, <3>1, <3>2 DEF CloseStatus, ClientTypes
    <2> QED BY <2>1, <2>2
  <1>5. ASSUME NEW c \in Sheet, StartRecording(c) PROVE ClientTypes'
    <2>1. Asked(c) BY <1>5, Asking
    <2>2. active' \in [Sheet -> Session] BY <1>0, <1>5 DEF StartRecording, ClientTypes
    <2> QED BY <1>0, <1>2, <1>5, <2>1, <2>2 DEF StartRecording, ClientTypes
  <1>6. ASSUME NEW c \in Sheet, NEW x \in OnRoll, NEW mark \in {"Present", "Absent"}, Override(c, x, mark)
        PROVE ClientTypes'
    <2>1. Asked(c) BY <1>6, Asking DEF Override
    <2>2. overrides' \in 0 .. MaxOverrides BY <1>0, <1>6 DEF Override, ClientTypes, SheetAssumption
    <2> QED BY <1>0, <1>2, <1>6, <2>1, <2>2 DEF Override, ClientTypes
  <1>7. ASSUME NEW c \in Sheet, ReceiveCheckin(c) PROVE ClientTypes'
    <2>1. shown' \in [Sheet -> ShownRec]
      <3> DEFINE x == Head(inbox[c]).who
                 new == Recounted([shown[c] EXCEPT !.roll[x] = "Present"])
      <3>1. x \in OnRoll /\ (shown' = shown \/ (shown[c].roll[x] \in Marks /\ shown' = [shown EXCEPT ![c] = new]))
        BY <1>7, ShownAfter
      <3>2. shown \in [Sheet -> ShownRec] BY <1>0 DEF ClientTypes
      <3>3. shown[c] \in ShownRec /\ shown[c].roll \in SeenMarks BY <3>2 DEF ShownRec
      <3> HIDE DEF x
      <3>4. shown[c].roll[x] \in Marks => shown[c].roll \in [OnRoll -> Marks]
        BY <3>1, <3>3 DEF SeenMarks, NoRoll, Marks
      <3>5. shown[c].roll[x] \in Marks => new \in ShownRec BY <3>1, <3>3, <3>4, RecountedIs
      <3> HIDE DEF new
      <3> QED BY <3>1, <3>2, <3>5
    <2> QED BY <1>0, <1>7, <2>1 DEF ReceiveCheckin, ClientTypes
  <1>8. ASSUME NEW c \in Sheet, NEW i \in 1 .. Loads,
               LoadMeta(c, i) \/ LoadRows(c, i) \/ Answer(c, i) \/ LoadLost(c, i)
        PROVE ClientTypes'
    <2>1. load' \in [Sheet -> [1 .. Loads -> LoadRec]] BY <1>8, LoadAfter
    <2>2. NoLoad.phase = "idle" BY DEF NoLoad
    <2>3. \A e \in Sheet, j \in 1 .. Loads :
            /\ load'[e][j].phase # "idle" => load'[e][j].sid \in Session
            /\ load'[e][j].phase = "rows" => load'[e][j].roll \in [OnRoll -> Marks]
      <3> TAKE e \in Sheet, j \in 1 .. Loads
      <3>1. CASE e # c \/ j # i
        <4>1. load'[e][j] = load[e][j] BY <1>8, <3>1, LoadAfter
        <4> QED BY <1>0, <4>1 DEF ClientTypes
      <3>2. CASE e = c /\ j = i BY <1>8, <2>2, <3>2, LoadAfter
      <3> QED BY <3>1, <3>2
    <2>4. shown' \in [Sheet -> ShownRec]
      <3>1. shown \in [Sheet -> ShownRec] BY <1>0 DEF ClientTypes
      <3>2. CASE Answer(c, i) BY <3>1, <3>2, AnswerIs
      <3>3. CASE ~ Answer(c, i) BY <1>8, <3>1, <3>3 DEF LoadMeta, LoadRows, LoadLost
      <3> QED BY <3>2, <3>3
    <2>5. UNCHANGED <<mounted, active, overrides>> BY <1>8 DEF LoadMeta, LoadRows, Answer, LoadLost
    <2> QED BY <1>0, <2>1, <2>3, <2>4, <2>5 DEF ClientTypes
  <1>9. ASSUME NEW c \in Sheet, Dispose(c) PROVE ClientTypes'
    BY <1>0, <1>9 DEF Dispose, ClientTypes
  <1>10. ASSUME NEW s \in Session,
               \/ \E x \in OnRoll : Admit(s, x)
               \/ \E who \in Sheet \cup {Nobody} : CloseRows(s, who)
               \/ ThreadFinds(s) \/ CloseCheckin(s) \/ StartCheckout(s)
        PROVE ClientTypes'
    BY <1>1, <1>10 DEF Admit, CloseRows, ThreadFinds, CloseCheckin, StartCheckout
  <1>11. CASE Mark \/ ThreadReads \/ (\E x \in OnRoll : ThreadMarks(x)) \/ ThreadStatus
    BY <1>1, <1>11 DEF Mark, ThreadReads, ThreadMarks, ThreadStatus
  <1>12. ASSUME NEW c \in Sheet, Connect(c) \/ Drop(c) \/ Disconnect(c) PROVE ClientTypes'
    BY <1>1, <1>12 DEF Connect, Drop, Disconnect
  <1>13. ASSUME NEW k \in 1 .. Len(tasks), BeginTask(k) \/ \E c \in Sheet : Send(k, c) PROVE ClientTypes'
    BY <1>1, <1>13 DEF BeginTask, Send
  <1> QED BY <1>3, <1>4, <1>5, <1>6, <1>7, <1>8, <1>9, <1>10, <1>11, <1>12, <1>13 DEF SheetNext

LEMMA SheetTypesNext ==
    ASSUME SheetAssumption, SheetTypes, [SheetNext]_sheetVars
    PROVE  SheetTypes'
  <1>1. CASE SheetNext BY <1>1, ServerTypesStep, StreamTypesStep, ClientTypesStep DEF SheetTypes
  <1>2. CASE UNCHANGED sheetVars
    BY <1>2 DEF sheetVars, SheetTypes, ServerTypes, LoopTypes, StreamTypes, ClientTypes
  <1> QED BY <1>1, <1>2

LEMMA TypesGiven == ASSUME SheetTypes PROVE SheetTypeOK
  <1>1. \A k \in 1 .. Len(tasks) : tasks[k].to \subseteq Sheet
    <2>1. tasks \in Seq(Task) BY DEF SheetTypes, StreamTypes
    <2>2. \A k \in 1 .. Len(tasks) : tasks[k] \in Task BY <2>1, ElementOfSeq
    <2> QED BY <2>2 DEF Task
  <1>2. \A c \in Sheet :
          /\ shown[c].roll \in [OnRoll -> Marks] \cup {NoRoll}
          /\ {shown[c].pending, shown[c].excused} \subseteq 0 .. Cardinality(OnRoll)
    BY DEF SheetTypes, ClientTypes, ShownRec, SeenMarks
  <1> QED BY <1>1, <1>2 DEF SheetTypes, ServerTypes, StreamTypes, ClientTypes, LoopTypes, SheetTypeOK

\* Sessions, sheets, messages and requests keep their types, with every feature.
THEOREM SheetTypesSafe == ASSUME SheetAssumption PROVE SheetSpec => []SheetTypes
  <1>1. SheetInit => SheetTypes BY SheetTypesInit
  <1>2. SheetTypes /\ [SheetNext]_sheetVars => SheetTypes' BY SheetTypesNext
  <1> QED BY <1>1, <1>2, PTL DEF SheetSpec

-----------------------------------------------------------------------------
\* Without leave no roll says Leave, and the counters are those of the roll.
NoLeave == \A x \in OnRoll : Excuse[x] # "Leave"
PlainRolls ==
    /\ \A c \in Sheet, i \in 1 .. Loads, x \in OnRoll :
          load[c][i].phase = "rows" => load[c][i].roll[x] # "Leave"
    /\ \A c \in Sheet, x \in OnRoll : shown[c].roll[x] # "Leave"
CountersInv == PlainRolls /\ CountersAgree

LEMMA PlainCounts ==
    ASSUME NEW roll, \A x \in OnRoll : roll[x] # "Leave"
    PROVE  /\ Count(roll, {"Pending", "Leave"}) = Count(roll, {"Pending"})
           /\ Count(roll, {"On-Duty", "Leave"}) = Count(roll, {"On-Duty"})
  <1>1. {x \in OnRoll : roll[x] \in {"Pending", "Leave"}} = {x \in OnRoll : roll[x] \in {"Pending"}} OBVIOUS
  <1>2. {x \in OnRoll : roll[x] \in {"On-Duty", "Leave"}} = {x \in OnRoll : roll[x] \in {"On-Duty"}} OBVIOUS
  <1> QED BY <1>1, <1>2 DEF Count

LEMMA CountersStep ==
    ASSUME SheetAssumption, NoLeave, SheetTypes, CountersInv, SheetNext
    PROVE  CountersInv'
  <1>0. ClientTypes BY DEF SheetTypes
  <1>1. ASSUME UNCHANGED <<load, shown>> PROVE CountersInv'
    BY <1>1 DEF CountersInv, PlainRolls, CountersAgree
  <1>2. ASSUME NEW c \in Sheet, Asked(c), UNCHANGED shown PROVE CountersInv'
    <2>1. \A e \in Sheet, i \in 1 .. Loads : load'[e][i] = load[e][i] \/ load'[e][i].phase = "sent"
      BY <1>2, AskedTypes
    <2>2. \A e \in Sheet, i \in 1 .. Loads, x \in OnRoll :
            load'[e][i].phase = "rows" => load'[e][i].roll[x] # "Leave"
      BY <2>1 DEF CountersInv, PlainRolls
    <2> QED BY <1>2, <2>2 DEF CountersInv, PlainRolls, CountersAgree
  <1>3. ASSUME NEW c \in Sheet, NEW new \in ShownRec, UNCHANGED load,
               shown' = [shown EXCEPT ![c] = new],
               \A x \in OnRoll : new.roll[x] # "Leave",
               new.pending = Count(new.roll, {"Pending"}),
               new.excused = Count(new.roll, {"On-Duty", "Leave"})
        PROVE CountersInv'
    <2>1. \A e \in Sheet : shown'[e] = IF e = c THEN new ELSE shown[e]
      BY <1>0, <1>3 DEF ClientTypes
    <2>2. PlainRolls' BY <1>3, <2>1 DEF CountersInv, PlainRolls
    <2>3. CountersAgree' BY <1>3, <2>1 DEF CountersInv, CountersAgree
    <2> QED BY <2>2, <2>3 DEF CountersInv
  <1>4. ASSUME NEW c \in Sheet, Poll(c) \/ ReceiveClosed(c) \/ StartRecording(c) PROVE CountersInv'
    <2>1. Asked(c) BY <1>4, Asking DEF Poll, ReceiveClosed
    <2>2. UNCHANGED shown BY <1>4 DEF Poll, ReceiveClosed, StartRecording
    <2> QED BY <1>2, <2>1, <2>2
  <1>5. CASE CloseStatus
    <2>1. CASE loop.who = Nobody BY <1>1, <1>5, <2>1 DEF CloseStatus
    <2>2. CASE loop.who # Nobody
      <3>1. loop.who \in Sheet BY <1>5, <2>2 DEF CloseStatus, SheetTypes, ServerTypes, LoopTypes
      <3>2. Asked(loop.who) BY <1>5, <2>2, <3>1, Asking DEF CloseStatus
      <3> QED BY <1>2, <1>5, <3>1, <3>2 DEF CloseStatus
    <2> QED BY <2>1, <2>2
  <1>6. ASSUME NEW c \in Sheet, NEW x \in OnRoll, NEW mark \in {"Present", "Absent"}, Override(c, x, mark)
        PROVE CountersInv'
    BY <1>2, <1>6, Asking DEF Override
  <1>7. ASSUME NEW c \in Sheet, ReceiveCheckin(c) PROVE CountersInv'
    <2> DEFINE x == Head(inbox[c]).who
               new == Recounted([shown[c] EXCEPT !.roll[x] = "Present"])
    <2>1. /\ x \in OnRoll /\ UNCHANGED load
          /\ shown' = shown \/ (shown[c].roll[x] \in Marks /\ shown' = [shown EXCEPT ![c] = new])
      BY <1>7, ShownAfter
    <2>2. shown[c] \in ShownRec /\ shown[c].roll \in SeenMarks BY <1>0 DEF ClientTypes, ShownRec
    <2>3. \A y \in OnRoll : shown[c].roll[y] # "Leave" BY DEF CountersInv, PlainRolls
    <2> HIDE DEF x
    <2>4. CASE shown' = shown BY <1>1, <2>1, <2>4
    <2>5. CASE shown[c].roll[x] \in Marks /\ shown' = [shown EXCEPT ![c] = new]
      <3>1. shown[c].roll \in [OnRoll -> Marks] BY <2>1, <2>2, <2>5 DEF SeenMarks, NoRoll, Marks
      <3>2. /\ new \in ShownRec
            /\ new.roll = [shown[c].roll EXCEPT ![x] = "Present"]
            /\ new.pending = Count(new.roll, {"Pending", "Leave"})
            /\ new.excused = Count(new.roll, {"On-Duty"})
        BY <2>1, <2>2, <3>1, RecountedIs
      <3> HIDE DEF new
      <3>3. \A y \in OnRoll : new.roll[y] # "Leave" BY <2>1, <2>3, <3>1, <3>2
      <3>4. /\ new.pending = Count(new.roll, {"Pending"})
            /\ new.excused = Count(new.roll, {"On-Duty", "Leave"})
        BY <3>2, <3>3, PlainCounts
      <3> QED BY <1>3, <2>1, <2>5, <3>2, <3>3, <3>4
    <2> QED BY <2>1, <2>4, <2>5
  <1>8. ASSUME NEW c \in Sheet, NEW i \in 1 .. Loads,
               LoadMeta(c, i) \/ LoadRows(c, i) \/ Answer(c, i) \/ LoadLost(c, i)
        PROVE CountersInv'
    <2>1. \A s \in Session, x \in OnRoll, st \in Statuses : Listed(s, st, x) # "Leave"
      <3> TAKE s \in Session, x \in OnRoll, st \in Statuses
      <3>1. register[s][x] \in {"none", "Present", "Absent"} BY DEF SheetTypes, ServerTypes
      <3>2. Excuse[x] # "Leave" BY DEF NoLeave
      <3> QED BY <3>1, <3>2 DEF Listed
    <2>2. load[c][i] \in LoadRec /\ load[c][i].status \in Statuses BY <1>0 DEF ClientTypes, LoadRec
    <2>3. NoLoad.phase = "idle" BY DEF NoLoad
    <2>4. \A e \in Sheet, j \in 1 .. Loads, x \in OnRoll :
            load'[e][j].phase = "rows" => load'[e][j].roll[x] # "Leave"
      <3> TAKE e \in Sheet, j \in 1 .. Loads, x \in OnRoll
      <3>1. CASE e # c \/ j # i
        <4>1. load'[e][j] = load[e][j] BY <1>8, <3>1, LoadAfter
        <4> QED BY <4>1 DEF CountersInv, PlainRolls
      <3>2. CASE e = c /\ j = i /\ LoadRows(c, i)
        <4>1. /\ load'[c][i].roll = [y \in OnRoll |-> Listed(load[c][i].sid, load[c][i].status, y)]
              /\ load[c][i].sid \in Session
          BY <1>8, <3>2, LoadAfter
        <4>2. load'[c][i].roll[x] = Listed(load[c][i].sid, load[c][i].status, x) BY <4>1
        <4> QED BY <2>1, <2>2, <3>2, <4>1, <4>2
      <3>3. CASE e = c /\ j = i /\ ~ LoadRows(c, i)
        <4>1. load'[c][i].phase = "meta" \/ load'[c][i] = NoLoad BY <1>8, <3>3, LoadAfter
        <4> QED BY <2>3, <3>3, <4>1
      <3> QED BY <3>1, <3>2, <3>3
    <2>5. CASE shown' = shown BY <2>4, <2>5 DEF CountersInv, PlainRolls, CountersAgree
    <2>6. CASE shown' # shown
      <3>1. Answer(c, i) BY <1>8, <2>6 DEF LoadMeta, LoadRows, LoadLost
      <3>2. PICK new \in ShownRec :
                /\ shown' = [shown EXCEPT ![c] = new]
                /\ new.roll = load[c][i].roll
                /\ new.pending = Count(new.roll, {"Pending"})
                /\ new.excused = Count(new.roll, {"On-Duty", "Leave"})
        BY <2>6, <3>1, AnswerIs
      <3>3. \A x \in OnRoll : new.roll[x] # "Leave" BY <3>1, <3>2 DEF CountersInv, PlainRolls, Answer
      <3>4. \A e \in Sheet : shown'[e] = IF e = c THEN new ELSE shown[e]
        BY <1>0, <3>2 DEF ClientTypes
      <3>5. PlainRolls' BY <2>4, <3>3, <3>4 DEF CountersInv, PlainRolls
      <3>6. CountersAgree' BY <3>2, <3>4 DEF CountersInv, CountersAgree
      <3> QED BY <3>5, <3>6 DEF CountersInv
    <2> QED BY <2>5, <2>6
  <1>9. ASSUME NEW s \in Session,
               \/ \E x \in OnRoll : Admit(s, x)
               \/ \E who \in Sheet \cup {Nobody} : CloseRows(s, who)
               \/ ThreadFinds(s) \/ CloseCheckin(s) \/ StartCheckout(s)
        PROVE CountersInv'
    BY <1>1, <1>9 DEF Admit, CloseRows, ThreadFinds, CloseCheckin, StartCheckout, client
  <1>10. CASE Mark \/ ThreadReads \/ (\E x \in OnRoll : ThreadMarks(x)) \/ ThreadStatus
    BY <1>1, <1>10 DEF Mark, ThreadReads, ThreadMarks, ThreadStatus, client
  <1>11. ASSUME NEW c \in Sheet, Connect(c) \/ Drop(c) \/ Disconnect(c) \/ Dispose(c) PROVE CountersInv'
    BY <1>1, <1>11 DEF Connect, Drop, Disconnect, Dispose, client
  <1>12. ASSUME NEW k \in 1 .. Len(tasks), BeginTask(k) \/ \E c \in Sheet : Send(k, c) PROVE CountersInv'
    BY <1>1, <1>12 DEF BeginTask, Send, client
  <1> QED BY <1>4, <1>5, <1>6, <1>7, <1>8, <1>9, <1>10, <1>11, <1>12 DEF SheetNext

LEMMA CountersInit == ASSUME SheetAssumption, SheetInit PROVE CountersInv
  <1>1. \A c \in Sheet : shown[c].roll = NoRoll BY DEF SheetInit, Blank
  <1>2. NoLoad.phase = "idle" /\ Opened \in Session BY DEF NoLoad, Opened, Session, SheetAssumption
  <1>3. \A c \in Sheet, i \in 1 .. Loads : load[c][i].phase # "rows"
    <2> TAKE c \in Sheet, i \in 1 .. Loads
    <2>1. load[c][i] = IF i = 1 THEN [NoLoad EXCEPT !.phase = "sent", !.sid = Opened] ELSE NoLoad
      BY DEF SheetInit
    <2>2. [NoLoad EXCEPT !.phase = "sent", !.sid = Opened].phase = "sent" BY <1>2, NoLoadTypes
    <2>3. CASE i = 1 BY <2>1, <2>2, <2>3
    <2>4. CASE i # 1 BY <1>2, <2>1, <2>4
    <2> QED BY <2>3, <2>4
  <1>4. \A x \in OnRoll : NoRoll[x] = "unlisted" BY DEF NoRoll
  <1> QED BY <1>1, <1>3, <1>4 DEF CountersInv, PlainRolls, CountersAgree

\* Without students on leave the counters are those of the roll on screen
\* (_recalculateRollCounts and get_session_roll), corrections and resumed
\* recordings included.
THEOREM CountersSafe == ASSUME SheetAssumption, NoLeave PROVE SheetSpec => []CountersAgree
  <1>1. SheetInit => SheetTypes /\ CountersInv BY SheetTypesInit, CountersInit
  <1>2. SheetTypes /\ CountersInv /\ [SheetNext]_sheetVars => SheetTypes' /\ CountersInv'
    <2> SUFFICES ASSUME SheetTypes, CountersInv, [SheetNext]_sheetVars PROVE SheetTypes' /\ CountersInv' OBVIOUS
    <2>1. SheetTypes' BY SheetTypesNext
    <2>2. CASE SheetNext BY <2>1, <2>2, CountersStep
    <2>3. CASE UNCHANGED sheetVars BY <2>1, <2>3 DEF sheetVars, CountersInv, PlainRolls, CountersAgree
    <2> QED BY <2>1, <2>2, <2>3
  <1>3. CountersInv => CountersAgree BY DEF CountersInv
  <1> QED BY <1>1, <1>2, <1>3, PTL DEF SheetSpec

-----------------------------------------------------------------------------
\* Nobody corrects a status by hand or resumes recording.
Undisturbed == MaxOverrides = 0 /\ "restart" \notin SheetFeatures

\* The sheets ask for, show and hear of Opened only.
OnlyOpened ==
    \A c \in Sheet :
        /\ active[c] = Opened /\ shown[c].sid = Opened
        /\ \A i \in 1 .. Loads : load[c][i].phase # "idle" => load[c][i].sid = Opened

\* Somebody is Present, or was until a closer in a pool thread wrote what it had
\* read before.
Was(rows, over, s, x) == rows[s][x] = "Present" \/ <<s, x>> \in over

\* Whoever is announced is Present, or was.
Heard ==
    /\ \A k \in 1 .. Len(tasks) :
          /\ tasks[k].event = "student_checked_in" => Was(register, overwritten, tasks[k].sid, tasks[k].who)
          /\ tasks[k].to # {} => tasks[k].sid = Opened
    /\ \A c \in Sheet : \A n \in 1 .. Len(inbox[c]) :
          inbox[c][n].event = "student_checked_in" => Was(register, overwritten, Opened, inbox[c][n].who)

\* So is whoever an answer under way, or the screen, says Present of.
Seen ==
    /\ \A c \in Sheet, i \in 1 .. Loads, x \in OnRoll :
          load[c][i].phase = "rows" /\ load[c][i].roll[x] = "Present" =>
              Was(register, overwritten, load[c][i].sid, x)
    /\ \A c \in Sheet, x \in OnRoll :
          shown[c].roll[x] = "Present" => Was(register, overwritten, shown[c].sid, x)

\* An answer that says closed lists what the register says, but for late
\* check-ins and rows a closer in a pool thread overwrote.
RowSays(mark, x) == IF mark # "none" THEN mark ELSE IF Excuse[x] # "none" THEN Excuse[x] ELSE "Absent"
Settled(s, rows, over, roll) ==
    \A x \in OnRoll : roll[x] = RowSays(rows[s][x], x) \/ Was(rows, over, s, x)
AnswersFinal ==
    /\ \A c \in Sheet, i \in 1 .. Loads : load[c][i].status = "closed" /\ load[c][i].phase = "rows" =>
          Settled(load[c][i].sid, register, overwritten, load[c][i].roll)
    /\ \A c \in Sheet : shown[c].status = "closed" =>
          Settled(shown[c].sid, register, overwritten, shown[c].roll)

RollInv == OnlyOpened /\ Heard /\ Seen /\ AnswersFinal

LEMMA NoOverride ==
    ASSUME SheetAssumption, Undisturbed, SheetTypes, NEW c \in Sheet
    PROVE  /\ ~ StartRecording(c)
           /\ \A x \in OnRoll, mark \in {"Present", "Absent"} : ~ Override(c, x, mark)
  <1>1. overrides \in 0 .. MaxOverrides /\ MaxOverrides = 0 BY DEF Undisturbed, SheetTypes, ClientTypes
  <1>2. ~ (overrides < MaxOverrides) BY <1>1
  <1>3. ~ StartRecording(c) BY DEF Undisturbed, StartRecording
  <1>4. \A x \in OnRoll, mark \in {"Present", "Absent"} : ~ Override(c, x, mark) BY <1>2 DEF Override
  <1> QED BY <1>3, <1>4

\* A row becomes Present, or Absent if it was not Present or is overwritten.
LEMMA RegisterStep ==
    ASSUME SheetAssumption, Undisturbed, SheetTypes, SheetNext
    PROVE  /\ \A s \in Session, x \in OnRoll :
                \/ register'[s][x] = register[s][x]
                \/ register'[s][x] = "Present"
                \/ /\ Excuse[x] = "none" /\ register'[s][x] = "Absent"
                   /\ register[s][x] # "Present" \/ <<s, x>> \in overwritten'
           /\ overwritten \subseteq overwritten'
  <1> DEFINE Kept == \A s \in Session, x \in OnRoll :
                \/ register'[s][x] = register[s][x]
                \/ register'[s][x] = "Present"
                \/ /\ Excuse[x] = "none" /\ register'[s][x] = "Absent"
                   /\ register[s][x] # "Present" \/ <<s, x>> \in overwritten'
             Stay == overwritten \subseteq overwritten'
  <1> SUFFICES Kept /\ Stay OBVIOUS
  <1>0. ServerTypes BY DEF SheetTypes
  <1>1. ASSUME UNCHANGED <<register, overwritten>> PROVE Kept /\ Stay BY <1>1
  <1>2. CASE Mark
    <2>1. loop.sid \in Session /\ loop.who \in OnRoll BY <1>0, <1>2 DEF Mark, ServerTypes, LoopTypes
    <2> QED BY <1>0, <1>2, <2>1 DEF Mark, ServerTypes
  <1>3. ASSUME NEW s \in Session, NEW who \in Sheet \cup {Nobody}, CloseRows(s, who)
        PROVE Kept /\ Stay
    <2>1. PICK X \in SUBSET Absentees(s) : register' = WithAbsent(s, X) BY <1>3 DEF CloseRows
    <2>2. \A x \in X : register[s][x] # "Present" /\ Excuse[x] = "none" BY <2>1 DEF Absentees
    <2>3. \A r \in Session, x \in OnRoll :
            register'[r][x] = IF r = s /\ x \in X THEN "Absent" ELSE register[r][x]
      BY <2>1, WithAbsentTypes
    <2> QED BY <1>3, <2>2, <2>3 DEF CloseRows
  <1>4. ASSUME NEW y \in OnRoll, ThreadMarks(y) PROVE Kept /\ Stay
    <2>1. thread.sid \in Session /\ Excuse[y] = "none" BY <1>0, <1>4 DEF ThreadMarks, ServerTypes, NoThread
    <2>2. CASE UNCHANGED <<register, overwritten>> BY <1>1, <2>2
    <2>3. CASE register' = WithAbsent(thread.sid, {y})
               /\ overwritten' = IF register[thread.sid][y] = "Present"
                                 THEN overwritten \cup {<<thread.sid, y>>} ELSE overwritten
      <3>1. \A r \in Session, x \in OnRoll :
              register'[r][x] = IF r = thread.sid /\ x = y THEN "Absent" ELSE register[r][x]
        BY <2>1, <2>3, WithAbsentTypes
      <3> QED BY <2>1, <2>3, <3>1
    <2> QED BY <1>4, <2>2, <2>3 DEF ThreadMarks
  <1>5. CASE CloseStatus \/ ThreadReads \/ ThreadStatus BY <1>1, <1>5 DEF CloseStatus, ThreadReads, ThreadStatus
  <1>6. ASSUME NEW s \in Session, ThreadFinds(s) \/ CloseCheckin(s) \/ StartCheckout(s) PROVE Kept /\ Stay
    BY <1>1, <1>6 DEF ThreadFinds, CloseCheckin, StartCheckout
  <1>7. ASSUME NEW s \in Session, NEW x \in OnRoll, Admit(s, x) PROVE Kept /\ Stay
    BY <1>1, <1>7 DEF Admit
  <1>8. ASSUME NEW c \in Sheet,
                \/ Connect(c) \/ Drop(c) \/ Disconnect(c) \/ ReceiveCheckin(c) \/ ReceiveClosed(c)
                \/ Poll(c) \/ Dispose(c)
                \/ \E i \in 1 .. Loads : LoadMeta(c, i) \/ LoadRows(c, i) \/ Answer(c, i) \/ LoadLost(c, i)
         PROVE Kept /\ Stay
    BY <1>1, <1>8 DEF Connect, Drop, Disconnect, ReceiveCheckin, ReceiveClosed, Poll, Dispose,
       LoadMeta, LoadRows, Answer, LoadLost, server
  <1>9. ASSUME NEW k \in 1 .. Len(tasks), BeginTask(k) \/ \E c \in Sheet : Send(k, c) PROVE Kept /\ Stay
    BY <1>1, <1>9 DEF BeginTask, Send, server
  <1> HIDE DEF Kept, Stay
  <1>10. \A c \in Sheet : ~ StartRecording(c) /\ \A x \in OnRoll, mark \in {"Present", "Absent"} : ~ Override(c, x, mark)
    BY NoOverride
  <1>11. CASE \E s \in Session :
                  \/ \E x \in OnRoll : Admit(s, x)
                  \/ \E who \in Sheet \cup {Nobody} : CloseRows(s, who)
                  \/ ThreadFinds(s) \/ CloseCheckin(s) \/ StartCheckout(s)
    BY <1>3, <1>6, <1>7, <1>11
  <1>12. CASE \E c \in Sheet :
          \/ Connect(c) \/ Drop(c) \/ Disconnect(c)
          \/ ReceiveCheckin(c) \/ ReceiveClosed(c) \/ Poll(c)
          \/ \E i \in 1 .. Loads :
                LoadMeta(c, i) \/ LoadRows(c, i) \/ Answer(c, i) \/ LoadLost(c, i)
          \/ StartRecording(c) \/ Dispose(c)
          \/ \E x \in OnRoll, mark \in {"Present", "Absent"} : Override(c, x, mark)
    BY <1>8, <1>10, <1>12
  <1> QED BY <1>2, <1>4, <1>5, <1>9, <1>11, <1>12 DEF SheetNext

\* Who is Present stays so, or was.
LEMMA WasStays ==
    ASSUME SheetAssumption, Undisturbed, SheetTypes, SheetNext, NEW s \in Session, NEW x \in OnRoll,
           Was(register, overwritten, s, x)
    PROVE  Was(register', overwritten', s, x)
  BY RegisterStep DEF Was

\* A request for the roll asks for the session the sheet shows.
LEMMA AskedActive ==
    ASSUME SheetAssumption, SheetTypes, NEW c \in Sheet, FreeLoads(c) # {}, load' = Requested(c)
    PROVE  \A e \in Sheet, i \in 1 .. Loads :
             \/ load'[e][i] = load[e][i]
             \/ /\ load'[e][i].phase = "sent" /\ load'[e][i].sid = active[c]
                /\ load'[e][i].status = "none"
  <1>1. PICK i \in 1 .. Loads :
          Requested(c) = [load EXCEPT ![c][i] = [NoLoad EXCEPT !.phase = "sent", !.sid = active[c]]]
    BY RequestedIs
  <1> DEFINE new == [NoLoad EXCEPT !.phase = "sent", !.sid = active[c]]
  <1>2. active[c] \in Session BY DEF SheetTypes, ClientTypes
  <1>3. new.phase = "sent" /\ new.sid = active[c] /\ new.status = "none" BY <1>2, NoLoadTypes
  <1> HIDE DEF new
  <1>4. load' = [load EXCEPT ![c][i] = new] BY <1>1 DEF new
  <1>5. load \in [Sheet -> [1 .. Loads -> LoadRec]] BY DEF SheetTypes, ClientTypes
  <1> QED BY <1>3, <1>4, <1>5

\* The steps that change what requests and screens hold.
Asks(c) == FreeLoads(c) # {} /\ load' = Requested(c) /\ UNCHANGED <<active, shown>>
LEMMA ClientSteps ==
    ASSUME SheetAssumption, Undisturbed, SheetTypes, SheetNext
    PROVE  \/ UNCHANGED <<active, shown, load>>
           \/ \E c \in Sheet : Asks(c)
           \/ \E c \in Sheet : ReceiveCheckin(c)
           \/ \E c \in Sheet, i \in 1 .. Loads : LoadMeta(c, i) \/ LoadRows(c, i) \/ Answer(c, i) \/ LoadLost(c, i)
  <1> DEFINE Goal == \/ UNCHANGED <<active, shown, load>>
                     \/ \E c \in Sheet : Asks(c)
                     \/ \E c \in Sheet : ReceiveCheckin(c)
                     \/ \E c \in Sheet, i \in 1 .. Loads : LoadMeta(c, i) \/ LoadRows(c, i) \/ Answer(c, i) \/ LoadLost(c, i)
  <1> SUFFICES Goal OBVIOUS
  <1>1. CASE CloseStatus
    <2>1. loop.who # Nobody => loop.who \in Sheet BY <1>1 DEF CloseStatus, SheetTypes, ServerTypes, LoopTypes
    <2> QED BY <1>1, <2>1 DEF CloseStatus, Asks
  <1>2. ASSUME NEW c \in Sheet,
                \/ Connect(c) \/ Drop(c) \/ Disconnect(c) \/ ReceiveCheckin(c) \/ ReceiveClosed(c)
                \/ Poll(c) \/ Dispose(c)
                \/ \E i \in 1 .. Loads : LoadMeta(c, i) \/ LoadRows(c, i) \/ Answer(c, i) \/ LoadLost(c, i)
         PROVE Goal
    BY <1>2 DEF Connect, Drop, Disconnect, ReceiveClosed, Poll, Dispose, Asks, client
  <1>3. ASSUME NEW s \in Session,
               \/ \E x \in OnRoll : Admit(s, x)
               \/ \E who \in Sheet \cup {Nobody} : CloseRows(s, who)
               \/ ThreadFinds(s) \/ CloseCheckin(s) \/ StartCheckout(s)
        PROVE Goal
    BY <1>3 DEF Admit, CloseRows, ThreadFinds, CloseCheckin, StartCheckout, client
  <1>4. CASE Mark \/ ThreadReads \/ (\E x \in OnRoll : ThreadMarks(x)) \/ ThreadStatus
    BY <1>4 DEF Mark, ThreadReads, ThreadMarks, ThreadStatus, client
  <1>5. ASSUME NEW k \in 1 .. Len(tasks), BeginTask(k) \/ \E c \in Sheet : Send(k, c) PROVE Goal
    BY <1>5 DEF BeginTask, Send, client
  <1> HIDE DEF Goal
  <1>6. \A c \in Sheet : ~ StartRecording(c) /\ \A x \in OnRoll, mark \in {"Present", "Absent"} : ~ Override(c, x, mark)
    BY NoOverride
  <1>7. CASE \E s \in Session :
                  \/ \E x \in OnRoll : Admit(s, x)
                  \/ \E who \in Sheet \cup {Nobody} : CloseRows(s, who)
                  \/ ThreadFinds(s) \/ CloseCheckin(s) \/ StartCheckout(s)
    BY <1>3, <1>7
  <1>8. CASE \E c \in Sheet :
          \/ Connect(c) \/ Drop(c) \/ Disconnect(c)
          \/ ReceiveCheckin(c) \/ ReceiveClosed(c) \/ Poll(c)
          \/ \E i \in 1 .. Loads :
                LoadMeta(c, i) \/ LoadRows(c, i) \/ Answer(c, i) \/ LoadLost(c, i)
          \/ StartRecording(c) \/ Dispose(c)
          \/ \E x \in OnRoll, mark \in {"Present", "Absent"} : Override(c, x, mark)
    BY <1>2, <1>6, <1>8
  <1> QED BY <1>1, <1>4, <1>5, <1>7, <1>8 DEF SheetNext

LEMMA OnlyOpenedStep ==
    ASSUME SheetAssumption, Undisturbed, SheetTypes, OnlyOpened, SheetNext
    PROVE  OnlyOpened'
  <1>0. ClientTypes BY DEF SheetTypes
  <1>1. CASE UNCHANGED <<active, shown, load>> BY <1>1 DEF OnlyOpened
  <1>2. ASSUME NEW c \in Sheet, Asks(c) PROVE OnlyOpened'
    <2>1. \A e \in Sheet, i \in 1 .. Loads :
             load'[e][i] = load[e][i] \/ load'[e][i].sid = active[c]
      BY <1>2, AskedActive DEF Asks
    <2> QED BY <1>2, <2>1 DEF OnlyOpened, Asks
  <1>3. ASSUME NEW c \in Sheet, ReceiveCheckin(c) PROVE OnlyOpened'
    <2> DEFINE x == Head(inbox[c]).who
               new == Recounted([shown[c] EXCEPT !.roll[x] = "Present"])
    <2>1. /\ x \in OnRoll /\ UNCHANGED <<load, active>>
          /\ shown' = shown \/ (shown[c].roll[x] \in Marks /\ shown' = [shown EXCEPT ![c] = new])
      BY <1>3, ShownAfter
    <2>2. shown[c] \in ShownRec /\ shown[c].roll \in SeenMarks BY <1>0 DEF ClientTypes, ShownRec
    <2> HIDE DEF x
    <2>3. shown[c].roll[x] \in Marks => shown[c].roll \in [OnRoll -> Marks]
      BY <2>1, <2>2 DEF SeenMarks, NoRoll, Marks
    <2>4. shown[c].roll[x] \in Marks => new.sid = shown[c].sid BY <2>1, <2>2, <2>3, RecountedIs
    <2> HIDE DEF new
    <2>5. \A e \in Sheet : shown'[e].sid = shown[e].sid BY <1>0, <2>1, <2>4 DEF ClientTypes
    <2> QED BY <2>1, <2>5 DEF OnlyOpened
  <1>4. ASSUME NEW c \in Sheet, NEW i \in 1 .. Loads,
               LoadMeta(c, i) \/ LoadRows(c, i) \/ Answer(c, i) \/ LoadLost(c, i)
        PROVE OnlyOpened'
    <2>1. NoLoad.phase = "idle" BY DEF NoLoad
    <2>2. load[c][i].phase # "idle" BY <1>4, LoadAfter
    <2>3. load[c][i].sid = Opened BY <2>2 DEF OnlyOpened
    <2>4. load'[c][i].phase # "idle" => load'[c][i].sid = load[c][i].sid BY <1>4, <2>1, LoadAfter
    <2>5. \A e \in Sheet, j \in 1 .. Loads : load'[e][j].phase # "idle" => load'[e][j].sid = Opened
      <3> TAKE e \in Sheet, j \in 1 .. Loads
      <3>1. CASE e # c \/ j # i
        <4>1. load'[e][j] = load[e][j] BY <1>4, <3>1, LoadAfter
        <4> QED BY <4>1 DEF OnlyOpened
      <3>2. CASE e = c /\ j = i BY <2>3, <2>4, <3>2
      <3> QED BY <3>1, <3>2
    <2>6. \A e \in Sheet : shown'[e].sid = Opened
      <3>1. CASE shown' = shown BY <3>1 DEF OnlyOpened
      <3>2. CASE shown' # shown
        <4>1. Answer(c, i) BY <1>4, <3>2 DEF LoadMeta, LoadRows, LoadLost
        <4>2. PICK new \in ShownRec : shown' = [shown EXCEPT ![c] = new] /\ new.sid = load[c][i].sid
          BY <3>2, <4>1, AnswerIs
        <4> QED BY <1>0, <2>3, <4>2 DEF OnlyOpened, ClientTypes
      <3> QED BY <3>1, <3>2
    <2>7. UNCHANGED active BY <1>4 DEF LoadMeta, LoadRows, Answer, LoadLost
    <2> QED BY <2>5, <2>6, <2>7 DEF OnlyOpened
  <1> QED BY <1>1, <1>2, <1>3, <1>4, ClientSteps

LEMMA HeardStep ==
    ASSUME SheetAssumption, Undisturbed, SheetTypes, Heard, SheetNext
    PROVE  Heard'
  <1>0. /\ StreamTypes /\ ServerTypes
        /\ \A k \in 1 .. Len(tasks) : tasks[k] \in Task
        /\ \A c \in Sheet : \A n \in 1 .. Len(inbox[c]) : inbox[c][n] \in Message
    BY ElementOfSeq DEF SheetTypes, StreamTypes
  <1>1. Opened \in Session BY DEF Opened, Session, SheetAssumption
  <1>2. \A s \in Session, x \in OnRoll : Was(register, overwritten, s, x) => Was(register', overwritten', s, x)
    BY WasStays
  <1>3. \A k \in 1 .. Len(tasks) : tasks[k].event = "student_checked_in" =>
           Was(register', overwritten', tasks[k].sid, tasks[k].who)
    BY <1>0, <1>2 DEF Heard, StreamTypes, Task
  <1>4. \A c \in Sheet : \A n \in 1 .. Len(inbox[c]) :
           inbox[c][n].event = "student_checked_in" => Was(register', overwritten', Opened, inbox[c][n].who)
    BY <1>0, <1>1, <1>2 DEF Heard, StreamTypes
  <1>5. CASE UNCHANGED <<tasks, inbox>> BY <1>3, <1>4, <1>5 DEF Heard
  <1>6. ASSUME UNCHANGED inbox, NEW e \in Events, NEW s \in Session,
               NEW x \in OnRoll \cup {Nobody}, e = "student_checked_in" => x \in OnRoll /\ Was(register', overwritten', s, x),
               tasks' = Broadcast(e, s, x)
        PROVE Heard'
    <2>1. /\ Len(tasks') = Len(tasks) + 1
          /\ \A k \in 1 .. Len(tasks) : tasks'[k] = tasks[k]
          /\ tasks'[Len(tasks) + 1] = [event |-> e, sid |-> s, who |-> x, begun |-> FALSE, to |-> {}]
      BY <1>6, BroadcastTypes
    <2>2. Len(tasks) \in Nat BY <1>0, LenProperties DEF StreamTypes
    <2>3. \A k \in 1 .. Len(tasks) + 1 : k \in 1 .. Len(tasks) \/ k = Len(tasks) + 1 BY <2>2
    <2>4. \A k \in 1 .. Len(tasks') :
            /\ tasks'[k].event = "student_checked_in" => Was(register', overwritten', tasks'[k].sid, tasks'[k].who)
            /\ tasks'[k].to # {} => tasks'[k].sid = Opened
      <3> TAKE k \in 1 .. Len(tasks')
      <3>1. CASE k \in 1 .. Len(tasks) BY <1>3, <2>1, <3>1 DEF Heard
      <3>2. CASE k = Len(tasks) + 1 BY <1>6, <2>1, <3>2
      <3> QED BY <2>1, <2>3, <3>1, <3>2
    <2> QED BY <1>4, <1>6, <2>4 DEF Heard
  <1>7. CASE Mark
    <2>1. loop.sid \in Session /\ loop.who \in OnRoll BY <1>0, <1>7 DEF Mark, ServerTypes, LoopTypes
    <2>2. Was(register', overwritten', loop.sid, loop.who) BY <1>0, <1>7, <2>1 DEF Mark, ServerTypes, Was
    <2> QED BY <1>6, <1>7, <2>1, <2>2 DEF Mark, Events
  <1>8. CASE CloseStatus
    <2>1. loop.sid \in Session BY <1>0, <1>8 DEF CloseStatus, ServerTypes, LoopTypes
    <2> QED BY <1>6, <1>8, <2>1 DEF CloseStatus, Events
  <1>9. ASSUME NEW c \in Sheet, Drop(c) \/ Dispose(c) PROVE Heard'
    <2>1. UNCHANGED tasks /\ inbox' = [inbox EXCEPT ![c] = <<>>] BY <1>9 DEF Drop, Dispose
    <2>2. inbox \in [Sheet -> Seq(Message)] /\ Len(<<>>) = 0 BY <1>0 DEF StreamTypes
    <2>3. \A e \in Sheet : inbox'[e] = IF e = c THEN <<>> ELSE inbox[e] BY <2>1, <2>2
    <2>4. \A e \in Sheet : \A n \in 1 .. Len(inbox'[e]) : inbox'[e] = inbox[e] BY <2>2, <2>3
    <2>5. \A e \in Sheet : \A n \in 1 .. Len(inbox'[e]) :
            inbox'[e][n].event = "student_checked_in" => Was(register', overwritten', Opened, inbox'[e][n].who)
      BY <1>4, <2>4
    <2> QED BY <1>3, <2>1, <2>5 DEF Heard
  <1>10. ASSUME NEW c \in Sheet, ReceiveCheckin(c) \/ ReceiveClosed(c) PROVE Heard'
    <2>1. UNCHANGED tasks /\ inbox[c] # <<>> /\ inbox' = [inbox EXCEPT ![c] = Tail(@)]
      BY <1>10 DEF ReceiveCheckin, ReceiveClosed
    <2>2. inbox \in [Sheet -> Seq(Message)] BY <1>0 DEF StreamTypes
    <2>3. \A n \in 1 .. Len(Tail(inbox[c])) : Tail(inbox[c])[n] = inbox[c][n + 1] /\ n + 1 \in 1 .. Len(inbox[c])
      BY <2>1, <2>2, HeadTailProperties
    <2>4. \A e \in Sheet : inbox'[e] = IF e = c THEN Tail(inbox[c]) ELSE inbox[e] BY <2>1, <2>2
    <2>5. \A e \in Sheet : \A n \in 1 .. Len(inbox'[e]) :
            inbox'[e][n].event = "student_checked_in" => Was(register', overwritten', Opened, inbox'[e][n].who)
      <3> TAKE e \in Sheet
      <3>1. CASE e = c
        <4> TAKE n \in 1 .. Len(inbox'[e])
        <4>1. inbox'[e][n] = inbox[c][n + 1] /\ n + 1 \in 1 .. Len(inbox[c]) BY <2>3, <2>4, <3>1
        <4> QED BY <1>4, <4>1
      <3>2. CASE e # c BY <1>4, <2>4, <3>2
      <3> QED BY <3>1, <3>2
    <2> QED BY <1>3, <2>1, <2>5 DEF Heard
  <1>11. ASSUME NEW k \in 1 .. Len(tasks), BeginTask(k) \/ \E c \in Sheet : Send(k, c) PROVE Heard'
    <2>1. \A n \in 1 .. Len(tasks') :
            /\ tasks'[n].event = "student_checked_in" => Was(register', overwritten', tasks'[n].sid, tasks'[n].who)
            /\ tasks'[n].to # {} => tasks'[n].sid = Opened
      <3> TAKE n \in 1 .. Len(tasks')
      <3>1. PICK m \in 1 .. Len(tasks) :
                /\ tasks'[n].event = tasks[m].event
                /\ tasks'[n].sid = tasks[m].sid
                /\ tasks'[n].who = tasks[m].who
                /\ tasks'[n].to # {} => tasks[m].to # {} \/ tasks[m].sid = Opened
        BY <1>11, TasksAfter
      <3> QED BY <1>3, <3>1 DEF Heard
    <2>2. CASE UNCHANGED inbox BY <1>4, <2>1, <2>2 DEF Heard
    <2>3. ASSUME NEW c \in Sheet, Send(k, c), sock[c] = "open" PROVE Heard'
      <3> DEFINE new == [event |-> tasks[k].event, who |-> tasks[k].who]
      <3>1. tasks[k].to # {} /\ tasks[k].sid = Opened BY <2>3 DEF Send, Heard
      <3>2. new \in Message /\ (new.event = "student_checked_in" => Was(register', overwritten', Opened, new.who))
        BY <1>0, <1>3, <3>1 DEF Task, Message
      <3>3. inbox' = [inbox EXCEPT ![c] = Append(@, new)] BY <2>3 DEF Send
      <3> HIDE DEF new
      <3>4. inbox \in [Sheet -> Seq(Message)] BY <1>0 DEF StreamTypes
      <3>5. /\ Len(Append(inbox[c], new)) = Len(inbox[c]) + 1
            /\ \A n \in 1 .. Len(inbox[c]) : Append(inbox[c], new)[n] = inbox[c][n]
            /\ Append(inbox[c], new)[Len(inbox[c]) + 1] = new
        BY <3>2, <3>4, AppendProperties
      <3>6. \A n \in 1 .. Len(inbox[c]) + 1 : n \in 1 .. Len(inbox[c]) \/ n = Len(inbox[c]) + 1
        BY <3>4, LenProperties
      <3>7. \A n \in 1 .. Len(Append(inbox[c], new)) :
              Append(inbox[c], new)[n].event = "student_checked_in" => Was(register', overwritten', Opened, Append(inbox[c], new)[n].who)
        BY <1>4, <3>2, <3>5, <3>6
      <3>8. \A e \in Sheet : inbox'[e] = IF e = c THEN Append(inbox[c], new) ELSE inbox[e] BY <3>3, <3>4
      <3>9. \A e \in Sheet : \A n \in 1 .. Len(inbox'[e]) :
              inbox'[e][n].event = "student_checked_in" => Was(register', overwritten', Opened, inbox'[e][n].who)
        <4> TAKE e \in Sheet
        <4>1. CASE e = c BY <3>7, <3>8, <4>1
        <4>2. CASE e # c BY <1>4, <3>8, <4>2
        <4> QED BY <4>1, <4>2
      <3> QED BY <2>1, <3>9 DEF Heard
    <2> QED BY <1>11, <2>2, <2>3 DEF BeginTask, Send
  <1>12. ASSUME NEW s \in Session,
               \/ \E x \in OnRoll : Admit(s, x)
               \/ \E who \in Sheet \cup {Nobody} : CloseRows(s, who)
               \/ ThreadFinds(s) \/ CloseCheckin(s) \/ StartCheckout(s)
        PROVE Heard'
    BY <1>5, <1>12 DEF Admit, CloseRows, ThreadFinds, CloseCheckin, StartCheckout, stream
  <1>13. CASE ThreadReads \/ (\E x \in OnRoll : ThreadMarks(x)) \/ ThreadStatus
    BY <1>5, <1>13 DEF ThreadReads, ThreadMarks, ThreadStatus, stream
  <1>14. ASSUME NEW c \in Sheet,
                \/ Connect(c) \/ Disconnect(c) \/ Poll(c) \/ StartRecording(c)
                \/ \E i \in 1 .. Loads : LoadMeta(c, i) \/ LoadRows(c, i) \/ Answer(c, i) \/ LoadLost(c, i)
                \/ \E x \in OnRoll, mark \in {"Present", "Absent"} : Override(c, x, mark)
         PROVE Heard'
    BY <1>5, <1>14 DEF Connect, Disconnect, Poll, StartRecording, LoadMeta, LoadRows, Answer, LoadLost, Override, stream
  <1> QED BY <1>7, <1>8, <1>9, <1>10, <1>11, <1>12, <1>13, <1>14 DEF SheetNext

\* What a check-in that arrives changes on the screen.
LEMMA CheckinShown ==
    ASSUME SheetAssumption, SheetTypes, NEW c \in Sheet, ReceiveCheckin(c)
    PROVE  \E x \in OnRoll :
             /\ x = inbox[c][1].who /\ inbox[c][1].event = "student_checked_in" /\ 1 \in 1 .. Len(inbox[c])
             /\ UNCHANGED <<load, active, register, overwritten>>
             /\ \A e \in Sheet :
                  /\ shown'[e].sid = shown[e].sid /\ shown'[e].status = shown[e].status
                  /\ \A y \in OnRoll : \/ shown'[e].roll[y] = shown[e].roll[y]
                                       \/ e = c /\ y = x /\ shown'[e].roll[y] = "Present"
  <1> DEFINE x == Head(inbox[c]).who
             new == Recounted([shown[c] EXCEPT !.roll[x] = "Present"])
  <1>1. /\ x \in OnRoll /\ UNCHANGED <<load, active, register, overwritten>>
        /\ shown' = shown \/ (shown[c].roll[x] \in Marks /\ shown' = [shown EXCEPT ![c] = new])
    BY ShownAfter
  <1>2. inbox[c] \in Seq(Message) /\ inbox[c] # <<>> BY DEF SheetTypes, StreamTypes, ReceiveCheckin
  <1>3. Head(inbox[c]) = inbox[c][1] /\ 1 \in 1 .. Len(inbox[c]) BY <1>2, HeadTailProperties, EmptySeq, LenProperties
  <1>4. x = inbox[c][1].who /\ inbox[c][1].event = "student_checked_in" BY <1>3 DEF ReceiveCheckin
  <1>5. shown \in [Sheet -> ShownRec] /\ shown[c] \in ShownRec /\ shown[c].roll \in SeenMarks
    BY DEF SheetTypes, ClientTypes, ShownRec
  <1> HIDE DEF x
  <1>6. CASE shown' = shown BY <1>1, <1>3, <1>4, <1>6
  <1>7. CASE shown[c].roll[x] \in Marks /\ shown' = [shown EXCEPT ![c] = new]
    <2>1. shown[c].roll \in [OnRoll -> Marks] BY <1>1, <1>5, <1>7 DEF SeenMarks, NoRoll, Marks
    <2>2. /\ new.sid = shown[c].sid /\ new.status = shown[c].status
          /\ new.roll = [shown[c].roll EXCEPT ![x] = "Present"]
      BY <1>1, <1>5, <2>1, RecountedIs
    <2> HIDE DEF new
    <2>3. \A e \in Sheet : shown'[e] = IF e = c THEN new ELSE shown[e] BY <1>5, <1>7
    <2>4. \A y \in OnRoll : new.roll[y] = shown[c].roll[y] \/ (y = x /\ new.roll[y] = "Present")
      BY <1>1, <2>1, <2>2
    <2>5. \A e \in Sheet :
            /\ shown'[e].sid = shown[e].sid /\ shown'[e].status = shown[e].status
            /\ \A y \in OnRoll : \/ shown'[e].roll[y] = shown[e].roll[y]
                                 \/ e = c /\ y = x /\ shown'[e].roll[y] = "Present"
      BY <2>2, <2>3, <2>4
    <2> QED BY <1>1, <1>3, <1>4, <2>5
  <1> QED BY <1>1, <1>6, <1>7

LEMMA SeenStep ==
    ASSUME SheetAssumption, Undisturbed, SheetTypes, OnlyOpened, Heard, Seen, SheetNext
    PROVE  Seen'
  <1>0. ClientTypes /\ ServerTypes BY DEF SheetTypes
  <1>1. Opened \in Session BY DEF Opened, Session, SheetAssumption
  <1>2. \A s \in Session, x \in OnRoll : Was(register, overwritten, s, x) => Was(register', overwritten', s, x)
    BY WasStays
  <1>3. \A c \in Sheet : shown[c].sid \in Session /\ active[c] \in Session BY <1>1 DEF OnlyOpened
  <1>4. \A c \in Sheet, i \in 1 .. Loads : load[c][i].phase # "idle" => load[c][i].sid \in Session
    BY <1>0 DEF ClientTypes
  <1>5. \A c \in Sheet, i \in 1 .. Loads, x \in OnRoll :
          load[c][i].phase = "rows" /\ load[c][i].roll[x] = "Present" => Was(register', overwritten', load[c][i].sid, x)
    BY <1>2, <1>4 DEF Seen
  <1>6. \A c \in Sheet, x \in OnRoll : shown[c].roll[x] = "Present" => Was(register', overwritten', shown[c].sid, x)
    BY <1>2, <1>3 DEF Seen
  <1>7. CASE UNCHANGED <<active, shown, load>> BY <1>5, <1>6, <1>7 DEF Seen
  <1>8. ASSUME NEW c \in Sheet, Asks(c) PROVE Seen'
    <2>1. \A e \in Sheet, i \in 1 .. Loads : load'[e][i] = load[e][i] \/ load'[e][i].phase = "sent"
      BY <1>8, AskedActive DEF Asks
    <2>2. \A e \in Sheet, i \in 1 .. Loads, x \in OnRoll :
          load'[e][i].phase = "rows" /\ load'[e][i].roll[x] = "Present" => Was(register', overwritten', load'[e][i].sid, x)
      BY <1>5, <2>1
    <2> QED BY <1>6, <1>8, <2>2 DEF Seen, Asks
  <1>9. ASSUME NEW c \in Sheet, ReceiveCheckin(c) PROVE Seen'
    <2>1. PICK x \in OnRoll :
             /\ x = inbox[c][1].who /\ inbox[c][1].event = "student_checked_in" /\ 1 \in 1 .. Len(inbox[c])
             /\ UNCHANGED <<load, active, register, overwritten>>
             /\ \A e \in Sheet :
                  /\ shown'[e].sid = shown[e].sid /\ shown'[e].status = shown[e].status
                  /\ \A y \in OnRoll : \/ shown'[e].roll[y] = shown[e].roll[y]
                                       \/ e = c /\ y = x /\ shown'[e].roll[y] = "Present"
      BY <1>9, CheckinShown
    <2>2. Was(register, overwritten, shown[c].sid, x) BY <2>1 DEF Heard, OnlyOpened
    <2>3. \A e \in Sheet, y \in OnRoll : shown'[e].roll[y] = "Present" => Was(register', overwritten', shown'[e].sid, y)
      BY <1>6, <2>1, <2>2
    <2> QED BY <1>5, <2>1, <2>3 DEF Seen
  <1>10. ASSUME NEW c \in Sheet, NEW i \in 1 .. Loads,
               LoadMeta(c, i) \/ LoadRows(c, i) \/ Answer(c, i) \/ LoadLost(c, i)
        PROVE Seen'
    <2>1. NoLoad.phase = "idle" BY DEF NoLoad
    <2>2. \A e \in Sheet, j \in 1 .. Loads, x \in OnRoll :
            load'[e][j].phase = "rows" /\ load'[e][j].roll[x] = "Present" => Was(register', overwritten', load'[e][j].sid, x)
      <3> TAKE e \in Sheet, j \in 1 .. Loads, x \in OnRoll
      <3>1. CASE e # c \/ j # i
        <4>1. load'[e][j] = load[e][j] BY <1>10, <3>1, LoadAfter
        <4> QED BY <1>5, <4>1
      <3>2. CASE e = c /\ j = i /\ LoadRows(c, i)
        <4>1. /\ load'[c][i].roll = [y \in OnRoll |-> Listed(load[c][i].sid, load[c][i].status, y)]
              /\ load'[c][i].sid = load[c][i].sid /\ load[c][i].sid \in Session
          BY <1>10, <3>2, LoadAfter
        <4>2. load'[c][i].roll[x] = Listed(load[c][i].sid, load[c][i].status, x) BY <4>1
        <4>3. Excuse[x] \in {"none", "On-Duty", "Leave"} BY DEF SheetAssumption
        <4>4. Listed(load[c][i].sid, load[c][i].status, x) = "Present" => Was(register, overwritten, load[c][i].sid, x)
          BY <4>3 DEF Listed, Was
        <4> QED BY <1>2, <3>2, <4>1, <4>2, <4>4
      <3>3. CASE e = c /\ j = i /\ ~ LoadRows(c, i)
        <4>1. load'[c][i].phase = "meta" \/ load'[c][i] = NoLoad BY <1>10, <3>3, LoadAfter
        <4> QED BY <2>1, <3>3, <4>1
      <3> QED BY <3>1, <3>2, <3>3
    <2>3. CASE shown' = shown BY <1>6, <2>2, <2>3 DEF Seen
    <2>4. CASE shown' # shown
      <3>1. Answer(c, i) BY <1>10, <2>4 DEF LoadMeta, LoadRows, LoadLost
      <3>2. PICK new \in ShownRec :
                /\ shown' = [shown EXCEPT ![c] = new]
                /\ new.sid = load[c][i].sid /\ new.roll = load[c][i].roll
        BY <2>4, <3>1, AnswerIs
      <3>3. load[c][i].phase = "rows" BY <3>1 DEF Answer
      <3>4. \A e \in Sheet : shown'[e] = IF e = c THEN new ELSE shown[e] BY <1>0, <3>2 DEF ClientTypes
      <3>5. \A e \in Sheet, x \in OnRoll : shown'[e].roll[x] = "Present" => Was(register', overwritten', shown'[e].sid, x)
        <4> TAKE e \in Sheet, x \in OnRoll
        <4>1. CASE e = c BY <1>5, <3>2, <3>3, <3>4, <4>1
        <4>2. CASE e # c BY <1>6, <3>4, <4>2
        <4> QED BY <4>1, <4>2
      <3> QED BY <2>2, <3>5 DEF Seen
    <2> QED BY <2>3, <2>4
  <1> QED BY <1>7, <1>8, <1>9, <1>10, ClientSteps

LEMMA ListedIs ==
    ASSUME SheetAssumption, NEW s, NEW x \in OnRoll
    PROVE  Listed(s, "closed", x) = RowSays(register[s][x], x)
  <1>1. Excuse[x] \in {"none", "On-Duty", "Leave"} BY DEF SheetAssumption
  <1>2. CASE register[s][x] # "none" BY <1>2 DEF Listed, RowSays
  <1>3. CASE register[s][x] = "none" /\ Excuse[x] # "none" BY <1>3 DEF Listed, RowSays
  <1>4. CASE register[s][x] = "none" /\ Excuse[x] = "none" BY <1>4 DEF Listed, RowSays
  <1> QED BY <1>2, <1>3, <1>4

\* A settled roll stays settled: whom it does not show Present gets no other row
\* than the one it shows, but for late check-ins.
LEMMA SettledStays ==
    ASSUME SheetAssumption, Undisturbed, SheetTypes, SheetNext,
           NEW s \in Session, NEW roll, Settled(s, register, overwritten, roll)
    PROVE  Settled(s, register', overwritten', roll)
  <1> SUFFICES ASSUME NEW x \in OnRoll
               PROVE  roll[x] = RowSays(register'[s][x], x) \/ Was(register', overwritten', s, x)
    BY DEF Settled
  <1>1. \/ register'[s][x] = register[s][x]
        \/ register'[s][x] = "Present"
        \/ /\ Excuse[x] = "none" /\ register'[s][x] = "Absent"
           /\ register[s][x] # "Present" \/ <<s, x>> \in overwritten'
    BY RegisterStep
  <1>2. register[s][x] \in {"none", "Present", "Absent"} BY DEF SheetTypes, ServerTypes
  <1>3. CASE Was(register, overwritten, s, x) BY <1>3, WasStays
  <1>4. CASE roll[x] = RowSays(register[s][x], x)
    <2>1. CASE register'[s][x] = register[s][x] BY <1>4, <2>1
    <2>2. CASE register'[s][x] = "Present" \/ <<s, x>> \in overwritten' BY <2>2 DEF Was
    <2>3. CASE Excuse[x] = "none" /\ register'[s][x] = "Absent" /\ register[s][x] # "Present"
      BY <1>2, <1>4, <2>3 DEF RowSays
    <2> QED BY <1>1, <2>1, <2>2, <2>3
  <1> QED BY <1>3, <1>4 DEF Settled

LEMMA FinalStep ==
    ASSUME SheetAssumption, Undisturbed, SheetTypes, OnlyOpened, Heard, AnswersFinal, SheetNext
    PROVE  AnswersFinal'
  <1>0. ClientTypes /\ ServerTypes BY DEF SheetTypes
  <1>1. Opened \in Session BY DEF Opened, Session, SheetAssumption
  <1>3. \A c \in Sheet : shown[c].sid \in Session BY <1>1 DEF OnlyOpened
  <1>4. \A c \in Sheet, i \in 1 .. Loads : load[c][i].phase # "idle" => load[c][i].sid \in Session
    BY <1>0 DEF ClientTypes
  \* What was final still is.
  <1>5. \A c \in Sheet, i \in 1 .. Loads : load[c][i].status = "closed" /\ load[c][i].phase = "rows" =>
          Settled(load[c][i].sid, register', overwritten', load[c][i].roll)
    BY <1>4, SettledStays DEF AnswersFinal
  <1>6. \A c \in Sheet : shown[c].status = "closed" =>
          Settled(shown[c].sid, register', overwritten', shown[c].roll)
    BY <1>3, SettledStays DEF AnswersFinal
  <1>7. CASE UNCHANGED <<active, shown, load>> BY <1>5, <1>6, <1>7 DEF AnswersFinal
  <1>8. ASSUME NEW c \in Sheet, Asks(c) PROVE AnswersFinal'
    <2>1. \A e \in Sheet, i \in 1 .. Loads : load'[e][i] = load[e][i] \/ load'[e][i].status = "none"
      BY <1>8, AskedActive DEF Asks
    <2> QED BY <1>5, <1>6, <1>8, <2>1 DEF AnswersFinal, Asks
  <1>9. ASSUME NEW c \in Sheet, ReceiveCheckin(c) PROVE AnswersFinal'
    <2>1. PICK x \in OnRoll :
             /\ x = inbox[c][1].who /\ inbox[c][1].event = "student_checked_in" /\ 1 \in 1 .. Len(inbox[c])
             /\ UNCHANGED <<load, active, register, overwritten>>
             /\ \A e \in Sheet :
                  /\ shown'[e].sid = shown[e].sid /\ shown'[e].status = shown[e].status
                  /\ \A y \in OnRoll : \/ shown'[e].roll[y] = shown[e].roll[y]
                                       \/ e = c /\ y = x /\ shown'[e].roll[y] = "Present"
      BY <1>9, CheckinShown
    <2>2. Was(register', overwritten', shown[c].sid, x) BY <2>1 DEF Heard, OnlyOpened
    <2>3. \A e \in Sheet : shown'[e].status = "closed" =>
            Settled(shown'[e].sid, register', overwritten', shown'[e].roll)
      <3> SUFFICES ASSUME NEW e \in Sheet, shown'[e].status = "closed", NEW y \in OnRoll
                   PROVE  \/ shown'[e].roll[y] = RowSays(register'[shown'[e].sid][y], y)
                          \/ Was(register', overwritten', shown'[e].sid, y)
        BY DEF Settled
      <3>1. shown[e].status = "closed" /\ shown'[e].sid = shown[e].sid BY <2>1
      <3>2. \/ shown'[e].roll[y] = shown[e].roll[y]
            \/ e = c /\ y = x /\ shown'[e].roll[y] = "Present"
        BY <2>1
      <3> QED BY <1>6, <2>2, <3>1, <3>2 DEF Settled
    <2> QED BY <1>5, <2>1, <2>3 DEF AnswersFinal
  <1>10. ASSUME NEW c \in Sheet, NEW i \in 1 .. Loads,
               LoadMeta(c, i) \/ LoadRows(c, i) \/ Answer(c, i) \/ LoadLost(c, i)
        PROVE AnswersFinal'
    <2>1. NoLoad.phase = "idle" /\ NoLoad.status = "none" BY DEF NoLoad
    <2>2. UNCHANGED <<register, overwritten>> BY <1>10 DEF LoadMeta, LoadRows, Answer, LoadLost, server
    <2>3. \A e \in Sheet, j \in 1 .. Loads : load'[e][j].status = "closed" /\ load'[e][j].phase = "rows" =>
            Settled(load'[e][j].sid, register', overwritten', load'[e][j].roll)
      <3> TAKE e \in Sheet, j \in 1 .. Loads
      <3>1. CASE e # c \/ j # i
        <4>1. load'[e][j] = load[e][j] BY <1>10, <3>1, LoadAfter
        <4> QED BY <1>5, <4>1
      <3>2. CASE e = c /\ j = i /\ LoadRows(c, i)
        <4>1. /\ load'[c][i].roll = [y \in OnRoll |-> Listed(load[c][i].sid, load[c][i].status, y)]
              /\ load'[c][i].sid = load[c][i].sid /\ load[c][i].sid \in Session
              /\ load'[c][i].status = load[c][i].status
          BY <1>10, <3>2, LoadAfter
        <4>2. load[c][i].status = "closed" =>
                \A x \in OnRoll : load'[c][i].roll[x] = RowSays(register[load[c][i].sid][x], x)
          BY <4>1, ListedIs
        <4> QED BY <2>2, <3>2, <4>1, <4>2 DEF Settled
      <3>3. CASE e = c /\ j = i /\ ~ LoadRows(c, i)
        <4>1. load'[c][i].phase = "meta" \/ load'[c][i] = NoLoad BY <1>10, <3>3, LoadAfter
        <4> QED BY <2>1, <3>3, <4>1
      <3> QED BY <3>1, <3>2, <3>3
    <2>4. CASE shown' = shown BY <1>6, <2>3, <2>4 DEF AnswersFinal
    <2>5. CASE shown' # shown
      <3>1. Answer(c, i) BY <1>10, <2>5 DEF LoadMeta, LoadRows, LoadLost
      <3>2. PICK new \in ShownRec :
                /\ shown' = [shown EXCEPT ![c] = new]
                /\ new.sid = load[c][i].sid /\ new.status = load[c][i].status /\ new.roll = load[c][i].roll
        BY <2>5, <3>1, AnswerIs
      <3>3. load[c][i].phase = "rows" BY <3>1 DEF Answer
      <3>4. \A e \in Sheet : shown'[e] = IF e = c THEN new ELSE shown[e] BY <1>0, <3>2 DEF ClientTypes
      <3>5. \A e \in Sheet : shown'[e].status = "closed" =>
              Settled(shown'[e].sid, register', overwritten', shown'[e].roll)
        <4> TAKE e \in Sheet
        <4>1. CASE e = c BY <1>5, <3>2, <3>3, <3>4, <4>1
        <4>2. CASE e # c BY <1>6, <3>4, <4>2
        <4> QED BY <4>1, <4>2
      <3> QED BY <2>3, <3>5 DEF AnswersFinal
    <2> QED BY <2>4, <2>5
  <1> QED BY <1>7, <1>8, <1>9, <1>10, ClientSteps

LEMMA RollInit == ASSUME SheetAssumption, SheetInit PROVE RollInv
  <1>1. Opened \in Session BY DEF Opened, Session, SheetAssumption
  <1>2. \A c \in Sheet : active[c] = Opened /\ shown[c] = Blank BY DEF SheetInit
  <1>3. \A x \in OnRoll : NoRoll[x] = "unlisted" BY DEF NoRoll
  <1>4. Blank.sid = Opened /\ Blank.status = "unknown" /\ Blank.roll = NoRoll BY DEF Blank
  <1>5. \A c \in Sheet, i \in 1 .. Loads :
          /\ load[c][i].phase # "idle" => load[c][i].sid = Opened
          /\ load[c][i].phase \notin {"meta", "rows"} /\ load[c][i].status # "closed"
    <2> TAKE c \in Sheet, i \in 1 .. Loads
    <2>1. load[c][i] = IF i = 1 THEN [NoLoad EXCEPT !.phase = "sent", !.sid = Opened] ELSE NoLoad
      BY DEF SheetInit
    <2>2. /\ [NoLoad EXCEPT !.phase = "sent", !.sid = Opened].phase = "sent"
          /\ [NoLoad EXCEPT !.phase = "sent", !.sid = Opened].sid = Opened
          /\ [NoLoad EXCEPT !.phase = "sent", !.sid = Opened].status = "none"
      BY <1>1, NoLoadTypes
    <2>3. NoLoad.phase = "idle" /\ NoLoad.status = "none" BY DEF NoLoad
    <2>4. CASE i = 1 BY <2>1, <2>2, <2>4
    <2>5. CASE i # 1 BY <2>1, <2>3, <2>5
    <2> QED BY <2>4, <2>5
  <1>6. OnlyOpened BY <1>2, <1>4, <1>5 DEF OnlyOpened
  <1>7. Heard BY DEF SheetInit, Heard
  <1>8. Seen BY <1>2, <1>3, <1>4, <1>5 DEF Seen
  <1>9. AnswersFinal BY <1>2, <1>4, <1>5 DEF AnswersFinal
  <1> QED BY <1>6, <1>7, <1>8, <1>9 DEF RollInv

LEMMA RollStep ==
    ASSUME SheetAssumption, Undisturbed, SheetTypes, RollInv, [SheetNext]_sheetVars
    PROVE  RollInv'
  <1>1. CASE SheetNext
    BY <1>1, OnlyOpenedStep, HeardStep, SeenStep, FinalStep DEF RollInv
  <1>2. CASE UNCHANGED sheetVars
    <2>1. UNCHANGED <<register, overwritten, tasks, inbox, active, shown, load>> BY <1>2 DEF sheetVars
    <2> QED BY <2>1 DEF RollInv, OnlyOpened, Heard, Seen, AnswersFinal
  <1> QED BY <1>1, <1>2

LEMMA RollAlways == ASSUME SheetAssumption, Undisturbed PROVE SheetSpec => [](SheetTypes /\ RollInv)
  <1>1. SheetInit => SheetTypes /\ RollInv BY SheetTypesInit, RollInit
  <1>2. SheetTypes /\ RollInv /\ [SheetNext]_sheetVars => SheetTypes' /\ RollInv'
    BY SheetTypesNext, RollStep
  <1> QED BY <1>1, <1>2, PTL DEF SheetSpec

\* Nobody corrects a status by hand or resumes recording: however check-ins,
\* closings and answers overtake each other, nobody is shown Present who is not,
\* but those whom a closer in a pool thread wrote Absent over their check-in.
THEOREM PresentSafe == ASSUME SheetAssumption, Undisturbed PROVE SheetSpec => []NoFalsePresent
  <1>1. RollInv => NoFalsePresent BY DEF RollInv, Seen, Was, NoFalsePresent
  <1> QED BY <1>1, RollAlways, PTL

\* Then a sheet that shows the session closed shows what the register says, late
\* check-ins and rows overwritten by a closer in a pool thread excepted.
THEOREM FinalSafe == ASSUME SheetAssumption, Undisturbed PROVE SheetSpec => []ClosedIsFinal
  <1>1. RollInv => ClosedIsFinal BY ListedIs DEF RollInv, AnswersFinal, Settled, Was, ClosedIsFinal
  <1> QED BY <1>1, RollAlways, PTL

\* All of it as one property of the component, closers in pool threads included.
\* With corrections, resumed recordings or students on leave the code does not
\* keep it.
THEOREM TruthfulSafe ==
    ASSUME SheetAssumption, Undisturbed, NoLeave PROVE SheetSpec => []SheetTruthful
  <1>1. SheetTypes /\ ClosedIsFinal /\ NoFalsePresent /\ CountersAgree => SheetTruthful
    BY TypesGiven DEF SheetTruthful
  <1> QED BY <1>1, SheetTypesSafe, CountersSafe, PresentSafe, FinalSafe, PTL
-----------------------------------------------------------------------------
(***************************************************************************)
(* StaffFace: the permission pays for a replacement.  A job that took the  *)
(* permission and has not written yet is Indebted, one about to write is   *)
(* at the table; replacements and debts are covered by the permissions     *)
(* given, or as many were given as there can be faces.                     *)
(***************************************************************************)
Shaped(r) == r = [pc |-> r.pc, op |-> r.op, face |-> r.face, paid |-> r.paid, p |-> r.p, s |-> r.s]
JobsShaped == jobs = [j \in Job |-> jobs[j]] /\ \A j \in Job : Shaped(jobs[j])

LEMMA RestShaped == Shaped(Resting) /\ Resting.pc = "idle" /\ Resting.op = "none"
  BY DEF Shaped, Resting

LEMMA JobSet ==
  ASSUME JobsShaped, NEW j \in Job, NEW n, Shaped(n), Set(j, n)
  PROVE  JobsShaped' /\ \A i \in Job : jobs'[i] = IF i = j THEN n ELSE jobs[i]
  <1>1. jobs' = [jobs EXCEPT ![j] = n] BY DEF Set
  <1>2. \A i \in Job : jobs'[i] = IF i = j THEN n ELSE jobs[i] BY <1>1 DEF JobsShaped
  <1>3. jobs' = [i \in Job |-> jobs'[i]] BY <1>1 DEF JobsShaped
  <1> QED BY <1>2, <1>3 DEF JobsShaped

\* Where a step of j leaves its job: at pc, for op.
Turns(j, pc, op) ==
  /\ JobsShaped'
  /\ \A i \in Job : /\ jobs'[i].pc = IF i = j THEN pc ELSE jobs[i].pc
                    /\ jobs'[i].op = IF i = j THEN op ELSE jobs[i].op

LEMMA SetTurns ==
  ASSUME JobsShaped, NEW j \in Job, NEW n, Shaped(n), Set(j, n), NEW pc, NEW op, n.pc = pc, n.op = op
  PROVE  Turns(j, pc, op)
  <1>1. JobsShaped' /\ \A i \in Job : jobs'[i] = IF i = j THEN n ELSE jobs[i] BY JobSet
  <1> QED BY <1>1 DEF Turns

\* Where each step leaves its job.
LEMMA JobTurns ==
  ASSUME JobsShaped, NEW j \in Job
  PROVE  /\ SelfCheck(j) => \E op \in {"self", "other"} : Turns(j, "image", op)
         /\ DeskCheck(j) => Turns(j, "image", "desk")
         /\ Refuse(j) => Turns(j, "idle", "none")
         /\ Accept(j) => Turns(j, "table", jobs[j].op)
         /\ WriteTable(j) => Turns(j, "primary", jobs[j].op)
         /\ CachePrimary(j) => Turns(j, "sample", jobs[j].op)
         /\ SaveSample(j) => Turns(j, "added", jobs[j].op)
         /\ CacheSample(j) => Turns(j, "idle", "none")
         /\ VerifyGet(j) => \E pc \in {"store", "candidates"} : Turns(j, pc, "verify")
         /\ VerifyStore(j) => Turns(j, "idle", "none") \/ Turns(j, "candidates", jobs[j].op)
         /\ VerifyAgain(j) => Turns(j, "store", jobs[j].op)
         /\ VerifyCandidates(j) => Turns(j, "idle", "none") \/ Turns(j, "sample", jobs[j].op)
         /\ RetrainPrimary(j) => Turns(j, "r_samples", "retrain")
         /\ RetrainSamples(j) => Turns(j, "r_update", jobs[j].op)
         /\ RetrainUpdate(j) => Turns(j, "r_clean", jobs[j].op)
         /\ RetrainClean(j) => Turns(j, "w_clear", jobs[j].op)
         /\ WarmClear(j) => Turns(j, "w_store", jobs[j].op)
         /\ WarmStore(j) => Turns(j, "w_samples", jobs[j].op)
         /\ WarmSamples(j) => Turns(j, "idle", "none")
  <1>s. Shaped(jobs[j]) BY DEF JobsShaped
  <1>r. Set(j, Resting) => Turns(j, "idle", "none") BY RestShaped, SetTurns
  <1>g. ASSUME NEW pc, StaffGoto(j, pc) PROVE Turns(j, pc, jobs[j].op)
    <2> DEFINE n == [jobs[j] EXCEPT !.pc = pc]
    <2>1. Shaped(n) /\ n.pc = pc /\ n.op = jobs[j].op BY <1>s DEF Shaped
    <2>2. Set(j, n) BY <1>g DEF StaffGoto
    <2> HIDE DEF n
    <2> QED BY <2>1, <2>2, SetTurns
  <1>p. ASSUME NEW pc, NEW p, Set(j, [jobs[j] EXCEPT !.pc = pc, !.p = p]) PROVE Turns(j, pc, jobs[j].op)
    <2> DEFINE n == [jobs[j] EXCEPT !.pc = pc, !.p = p]
    <2>0. n = [[jobs[j] EXCEPT !.pc = pc] EXCEPT !.p = p] OBVIOUS
    <2>2. Set(j, n) BY <1>p
    <2> HIDE DEF n
    <2>1. Shaped(n) /\ n.pc = pc /\ n.op = jobs[j].op BY <1>s, <2>0 DEF Shaped
    <2> QED BY <2>1, <2>2, SetTurns
  <1>m. ASSUME NEW pc, NEW s, Set(j, [jobs[j] EXCEPT !.pc = pc, !.s = s]) PROVE Turns(j, pc, jobs[j].op)
    <2> DEFINE n == [jobs[j] EXCEPT !.pc = pc, !.s = s]
    <2>0. n = [[jobs[j] EXCEPT !.pc = pc] EXCEPT !.s = s] OBVIOUS
    <2>2. Set(j, n) BY <1>m
    <2> HIDE DEF n
    <2>1. Shaped(n) /\ n.pc = pc /\ n.op = jobs[j].op BY <1>s, <2>0 DEF Shaped
    <2> QED BY <2>1, <2>2, SetTurns
  <1>f. ASSUME NEW pc, NEW face, Set(j, [jobs[j] EXCEPT !.pc = pc, !.face = face]) PROVE Turns(j, pc, jobs[j].op)
    <2> DEFINE n == [jobs[j] EXCEPT !.pc = pc, !.face = face]
    <2>0. n = [[jobs[j] EXCEPT !.pc = pc] EXCEPT !.face = face] OBVIOUS
    <2>2. Set(j, n) BY <1>f
    <2> HIDE DEF n
    <2>1. Shaped(n) /\ n.pc = pc /\ n.op = jobs[j].op BY <1>s, <2>0 DEF Shaped
    <2> QED BY <2>1, <2>2, SetTurns
  <1>a. ASSUME NEW pc, NEW op, Set(j, [Resting EXCEPT !.pc = pc, !.op = op]) PROVE Turns(j, pc, op)
    <2> DEFINE n == [Resting EXCEPT !.pc = pc, !.op = op]
    <2>0. n = [[Resting EXCEPT !.pc = pc] EXCEPT !.op = op] OBVIOUS
    <2>2. Set(j, n) BY <1>a
    <2> HIDE DEF n
    <2>1. Shaped(n) /\ n.pc = pc /\ n.op = op BY <2>0 DEF Shaped, Resting
    <2> QED BY <2>1, <2>2, SetTurns
  <1>b. ASSUME NEW pc, NEW op, NEW b, Set(j, [Resting EXCEPT !.pc = pc, !.op = op, !.paid = b]) PROVE Turns(j, pc, op)
    <2> DEFINE n == [Resting EXCEPT !.pc = pc, !.op = op, !.paid = b]
    <2>0. n = [[[Resting EXCEPT !.pc = pc] EXCEPT !.op = op] EXCEPT !.paid = b] OBVIOUS
    <2>2. Set(j, n) BY <1>b
    <2> HIDE DEF n
    <2>1. Shaped(n) /\ n.pc = pc /\ n.op = op BY <2>0 DEF Shaped, Resting
    <2> QED BY <2>1, <2>2, SetTurns
  <1>c. ASSUME NEW pc, NEW op, NEW p, Set(j, [Resting EXCEPT !.pc = pc, !.op = op, !.p = p]) PROVE Turns(j, pc, op)
    <2> DEFINE n == [Resting EXCEPT !.pc = pc, !.op = op, !.p = p]
    <2>0. n = [[[Resting EXCEPT !.pc = pc] EXCEPT !.op = op] EXCEPT !.p = p] OBVIOUS
    <2>2. Set(j, n) BY <1>c
    <2> HIDE DEF n
    <2>1. Shaped(n) /\ n.pc = pc /\ n.op = op BY <2>0 DEF Shaped, Resting
    <2> QED BY <2>1, <2>2, SetTurns
  <1>1. SelfCheck(j) => \E op \in {"self", "other"} : Turns(j, "image", op) BY <1>b DEF SelfCheck
  <1>2. DeskCheck(j) => Turns(j, "image", "desk") BY <1>a DEF DeskCheck
  <1>3. Refuse(j) => Turns(j, "idle", "none") BY <1>r DEF Refuse
  <1>4. Accept(j) => Turns(j, "table", jobs[j].op) BY <1>f DEF Accept
  <1>5. WriteTable(j) => Turns(j, "primary", jobs[j].op) BY <1>g DEF WriteTable
  <1>6. CachePrimary(j) => Turns(j, "sample", jobs[j].op) BY <1>g DEF CachePrimary
  <1>7. SaveSample(j) => Turns(j, "added", jobs[j].op) BY <1>g DEF SaveSample
  <1>8. CacheSample(j) => Turns(j, "idle", "none") BY <1>r DEF CacheSample
  <1>9. VerifyGet(j) => \E pc \in {"store", "candidates"} : Turns(j, pc, "verify") BY <1>a, <1>c DEF VerifyGet
  <1>10. VerifyStore(j) => Turns(j, "idle", "none") \/ Turns(j, "candidates", jobs[j].op) BY <1>r, <1>g DEF VerifyStore
  <1>11. VerifyAgain(j) => Turns(j, "store", jobs[j].op) BY <1>p DEF VerifyAgain
  <1>12. VerifyCandidates(j) => Turns(j, "idle", "none") \/ Turns(j, "sample", jobs[j].op)
    BY <1>r, <1>f DEF VerifyCandidates
  <1>13. RetrainPrimary(j) => Turns(j, "r_samples", "retrain") BY <1>c DEF RetrainPrimary
  <1>14. RetrainSamples(j) => Turns(j, "r_update", jobs[j].op) BY <1>m DEF RetrainSamples
  <1>15. RetrainUpdate(j) => Turns(j, "r_clean", jobs[j].op) BY <1>g DEF RetrainUpdate
  <1>16. RetrainClean(j) => Turns(j, "w_clear", jobs[j].op) BY <1>g DEF RetrainClean
  <1>17. WarmClear(j) => Turns(j, "w_store", jobs[j].op) BY <1>p DEF WarmClear
  <1>18. WarmStore(j) => Turns(j, "w_samples", jobs[j].op) BY <1>m DEF WarmStore
  <1>19. WarmSamples(j) => Turns(j, "idle", "none") BY <1>r DEF WarmSamples
  <1> QED BY <1>1, <1>2, <1>3, <1>4, <1>5, <1>6, <1>7, <1>8, <1>9, <1>10, <1>11, <1>12, <1>13, <1>14, <1>15, <1>16,
             <1>17, <1>18, <1>19

Paying == {"self", "other"}
Debts == {i \in Job : jobs[i].op \in Paying /\ jobs[i].pc \in {"image", "table"}}
AtTable == {i \in Job : jobs[i].pc = "table"}
Granted == IF can THEN 1 ELSE 0

LockInv ==
  /\ JobsShaped /\ can \in BOOLEAN /\ emb # {}
  /\ faces \in Nat /\ changes \in Nat /\ grants \in 0 .. MaxFaces
  /\ \A j \in Job : jobs[j].pc \in {"image", "table"} => jobs[j].op \in Paying \cup {"desk"}
  /\ faces = 2 \/ faces <= MaxFaces
  /\ changes + Cardinality(AtTable) + 2 <= faces
  /\ grants = MaxFaces \/ changes + Cardinality(Debts) + Granted <= grants

\* What a job at pc for op adds to the debts and to the jobs at the table.
Owes(pc, op) == IF op \in Paying /\ pc \in {"image", "table"} THEN 1 ELSE 0
Writing(pc) == IF pc = "table" THEN 1 ELSE 0

LEMMA DebtsTurn ==
  ASSUME IsFiniteSet(Job), NEW j \in Job, NEW pc, NEW op, Turns(j, pc, op)
  PROVE  \E d, a \in Nat : /\ Cardinality(Debts) = d + Owes(jobs[j].pc, jobs[j].op)
                          /\ Cardinality(Debts') = d + Owes(pc, op)
                          /\ Cardinality(AtTable) = a + Writing(jobs[j].pc)
                          /\ Cardinality(AtTable') = a + Writing(pc)
  <1> DEFINE D == Debts \ {j}
             A == AtTable \ {j}
  <1>1. D \in SUBSET Job /\ A \in SUBSET Job /\ j \notin D /\ j \notin A BY DEF Debts, AtTable
  <1>2. Debts = IF jobs[j].op \in Paying /\ jobs[j].pc \in {"image", "table"} THEN D \cup {j} ELSE D BY DEF Debts
  <1>3. Debts' = IF op \in Paying /\ pc \in {"image", "table"} THEN D \cup {j} ELSE D BY DEF Debts, Turns
  <1>4. AtTable = IF jobs[j].pc = "table" THEN A \cup {j} ELSE A BY DEF AtTable
  <1>5. AtTable' = IF pc = "table" THEN A \cup {j} ELSE A BY DEF AtTable, Turns
  <1> HIDE DEF D, A
  <1>6. IsFiniteSet(D) /\ IsFiniteSet(A) BY <1>1, FS_Subset
  <1>7. Cardinality(D) \in Nat /\ Cardinality(A) \in Nat BY <1>6, FS_CardinalityType
  <1>8. Cardinality(D \cup {j}) = Cardinality(D) + 1 /\ Cardinality(A \cup {j}) = Cardinality(A) + 1
    BY <1>1, <1>6, FS_AddElement
  <1>9. Cardinality(Debts) = Cardinality(D) + Owes(jobs[j].pc, jobs[j].op) BY <1>2, <1>7, <1>8 DEF Owes
  <1>10. Cardinality(Debts') = Cardinality(D) + Owes(pc, op) BY <1>3, <1>7, <1>8 DEF Owes
  <1>11. Cardinality(AtTable) = Cardinality(A) + Writing(jobs[j].pc) BY <1>4, <1>7, <1>8 DEF Writing
  <1>12. Cardinality(AtTable') = Cardinality(A) + Writing(pc) BY <1>5, <1>7, <1>8 DEF Writing
  <1> QED BY <1>7, <1>9, <1>10, <1>11, <1>12

LEMMA OpsTurn ==
  ASSUME LockInv, NEW j \in Job, NEW pc, NEW op, Turns(j, pc, op),
         pc \in {"image", "table"} => op \in Paying \cup {"desk"}
  PROVE  \A i \in Job : jobs'[i].pc \in {"image", "table"} => jobs'[i].op \in Paying \cup {"desk"}
  BY DEF LockInv, Turns

\* A step that neither begins nor ends a registration's way to the table.
LEMMA LockQuiet ==
  ASSUME StaffFaceAssumption, IsFiniteSet(Job), LockInv, NEW j \in Job, NEW pc, NEW op, Turns(j, pc, op),
         pc \notin {"image", "table"}, jobs[j].pc # "table", UNCHANGED <<can, faces, changes, grants>>, emb' # {}
  PROVE  LockInv'
  <1>1. \A i \in Job : jobs'[i].pc \in {"image", "table"} => jobs'[i].op \in Paying \cup {"desk"} BY OpsTurn
  <1>2. JobsShaped' BY DEF Turns
  <1>3. Granted' = Granted /\ can' \in BOOLEAN
    <2>1. can \in BOOLEAN BY DEF LockInv
    <2> QED BY <2>1 DEF Granted
  <1>4. Granted \in {0, 1} BY DEF Granted
  <1>d. PICK d \in Nat, a \in Nat : /\ Cardinality(Debts) = d + Owes(jobs[j].pc, jobs[j].op)
                                /\ Cardinality(Debts') = d + Owes(pc, op)
                                /\ Cardinality(AtTable) = a + Writing(jobs[j].pc)
                                /\ Cardinality(AtTable') = a + Writing(pc)
    BY DebtsTurn
  <1>e. Owes(pc, op) = 0 /\ Writing(pc) = 0 /\ Writing(jobs[j].pc) = 0 /\ Owes(jobs[j].pc, jobs[j].op) \in {0, 1}
    BY DEF Owes, Writing
  <1> HIDE DEF Debts, AtTable
  <1>5. /\ Cardinality(Debts') <= Cardinality(Debts) /\ Cardinality(AtTable') <= Cardinality(AtTable)
        /\ Cardinality(Debts) \in Nat /\ Cardinality(Debts') \in Nat
        /\ Cardinality(AtTable) \in Nat /\ Cardinality(AtTable') \in Nat
    BY <1>d, <1>e
  <1> HIDE DEF Granted, Debts, AtTable
  <1>6. changes' + Cardinality(AtTable') + 2 <= faces' BY <1>5 DEF LockInv
  <1>7. grants' = MaxFaces \/ changes' + Cardinality(Debts') + Granted' <= grants'
    BY <1>3, <1>4, <1>5 DEF LockInv, StaffFaceAssumption
  <1> QED BY <1>1, <1>2, <1>3, <1>6, <1>7 DEF LockInv

\* A permission given or taken back while nobody moves.
LEMMA LockGrant ==
  ASSUME StaffFaceAssumption, IsFiniteSet(Job), LockInv, UNCHANGED <<emb, jobs, faces, changes>>, can' \in BOOLEAN,
         (~can' /\ UNCHANGED grants) \/ grants' = OneMore
  PROVE  LockInv'
  <1>1. Debts' = Debts /\ AtTable' = AtTable /\ JobsShaped' BY DEF Debts, AtTable, JobsShaped, LockInv
  <1>2. Debts \in SUBSET Job BY DEF Debts
  <1>3. Cardinality(Debts) \in Nat BY <1>2, FS_Subset, FS_CardinalityType
  <1>4. Granted \in {0, 1} /\ Granted' \in {0, 1} BY DEF Granted
  <1> HIDE DEF Debts, AtTable
  <1>5. /\ faces \in Nat /\ changes \in Nat /\ grants \in 0 .. MaxFaces /\ MaxFaces \in Nat
        /\ grants = MaxFaces \/ changes + Cardinality(Debts) + Granted <= grants
    BY DEF LockInv, StaffFaceAssumption
  <1>6. CASE grants' = OneMore
    <2>1. grants' \in 0 .. MaxFaces /\ (grants' = MaxFaces \/ (grants # MaxFaces /\ grants' = grants + 1))
      BY <1>5, <1>6 DEF OneMore
    <2>2. grants' = MaxFaces \/ changes' + Cardinality(Debts') + Granted' <= grants'
      BY <1>1, <1>3, <1>4, <1>5, <2>1
    <2> QED BY <1>1, <2>1, <2>2 DEF LockInv
  <1>7. CASE ~can' /\ UNCHANGED grants
    <2>1. Granted' = 0 BY <1>7 DEF Granted
    <2>2. grants' = MaxFaces \/ changes' + Cardinality(Debts') + Granted' <= grants'
      BY <1>1, <1>3, <1>4, <1>5, <1>7, <2>1
    <2> QED BY <1>1, <1>7, <2>2 DEF LockInv
  <1> QED BY <1>6, <1>7

LEMMA LockStep ==
  ASSUME StaffFaceAssumption, IsFiniteSet(Job), LockInv, NEW j \in Job,
         \/ SelfCheck(j) \/ DeskCheck(j) \/ Refuse(j) \/ Accept(j) \/ WriteTable(j)
         \/ CachePrimary(j) \/ SaveSample(j) \/ CacheSample(j)
         \/ VerifyGet(j) \/ VerifyStore(j) \/ VerifyAgain(j) \/ VerifyCandidates(j)
         \/ RetrainPrimary(j) \/ RetrainSamples(j) \/ RetrainUpdate(j) \/ RetrainClean(j)
         \/ WarmClear(j) \/ WarmStore(j) \/ WarmSamples(j)
  PROVE  LockInv'
  <1> DEFINE Goal == LockInv'
  <1>s. JobsShaped /\ emb # {} /\ can \in BOOLEAN BY DEF LockInv
  <1>n. /\ faces \in Nat /\ changes \in Nat /\ grants \in 0 .. MaxFaces /\ MaxFaces \in Nat
        /\ faces = 2 \/ faces <= MaxFaces
        /\ changes + Cardinality(AtTable) + 2 <= faces
        /\ grants = MaxFaces \/ changes + Cardinality(Debts) + Granted <= grants
    BY DEF LockInv, StaffFaceAssumption
  <1>o. jobs[j].pc \in {"image", "table"} => jobs[j].op \in Paying \cup {"desk"} BY DEF LockInv
  <1>g. Granted \in {0, 1} BY DEF Granted
  <1>1. ASSUME SelfCheck(j) PROVE Goal
    <2>1. PICK op \in Paying : Turns(j, "image", op) BY <1>s, <1>1, JobTurns DEF Paying
    <2>2. jobs[j].pc = "idle" /\ UNCHANGED <<emb, faces, changes, grants>> BY <1>1 DEF SelfCheck, Starts, StaffAt, hist
    <2>3. can /\ (emb = {} => FALSE) BY <1>s, <1>1 DEF SelfCheck
    <2>4. can' = FALSE BY <1>s, <1>1 DEF SelfCheck
    <2>5. Granted = 1 /\ Granted' = 0 BY <2>3, <2>4 DEF Granted
    <2>d. PICK d \in Nat, a \in Nat : /\ Cardinality(Debts) = d + Owes(jobs[j].pc, jobs[j].op)
                                  /\ Cardinality(Debts') = d + Owes("image", op)
                                  /\ Cardinality(AtTable) = a + Writing(jobs[j].pc)
                                  /\ Cardinality(AtTable') = a + Writing("image")
      BY <2>1, DebtsTurn
    <2>e. Owes("image", op) = 1 /\ Owes(jobs[j].pc, jobs[j].op) = 0 /\ Writing("image") = 0 /\ Writing(jobs[j].pc) = 0
      BY <2>1, <2>2 DEF Owes, Writing
    <2>6. Cardinality(Debts') = Cardinality(Debts) + 1 /\ Cardinality(AtTable') = Cardinality(AtTable)
          /\ Cardinality(Debts) \in Nat /\ Cardinality(AtTable) \in Nat
      BY <2>d, <2>e
    <2>7. \A i \in Job : jobs'[i].pc \in {"image", "table"} => jobs'[i].op \in Paying \cup {"desk"} BY <2>1, OpsTurn
    <2>8. changes' + Cardinality(AtTable') + 2 <= faces' BY <1>n, <2>2, <2>6
    <2>9. grants' = MaxFaces \/ changes' + Cardinality(Debts') + Granted' <= grants' BY <1>n, <2>2, <2>5, <2>6
    <2>10. JobsShaped' BY <2>1 DEF Turns
    <2>11. can' \in BOOLEAN BY <2>4
    <2> QED BY <1>s, <1>n, <2>2, <2>7, <2>8, <2>9, <2>10, <2>11 DEF LockInv
  <1>2. ASSUME DeskCheck(j) PROVE Goal
    <2>1. Turns(j, "image", "desk") BY <1>s, <1>2, JobTurns
    <2>2. jobs[j].pc = "idle" /\ UNCHANGED <<emb, can, faces, changes, grants>>
      BY <1>2 DEF DeskCheck, Starts, StaffAt, hist, data
    <2>3. Granted' = Granted /\ can' \in BOOLEAN BY <1>s, <2>2 DEF Granted
    <2>d. PICK d \in Nat, a \in Nat : /\ Cardinality(Debts) = d + Owes(jobs[j].pc, jobs[j].op)
                                  /\ Cardinality(Debts') = d + Owes("image", "desk")
                                  /\ Cardinality(AtTable) = a + Writing(jobs[j].pc)
                                  /\ Cardinality(AtTable') = a + Writing("image")
      BY <2>1, DebtsTurn
    <2>e. Owes("image", "desk") = 0 /\ Owes(jobs[j].pc, jobs[j].op) = 0 /\ Writing("image") = 0 /\ Writing(jobs[j].pc) = 0
      BY <2>2 DEF Owes, Writing, Paying
    <2>4. Cardinality(Debts') = Cardinality(Debts) /\ Cardinality(AtTable') = Cardinality(AtTable)
          /\ Cardinality(Debts) \in Nat /\ Cardinality(AtTable) \in Nat
      BY <2>d, <2>e
    <2>5. \A i \in Job : jobs'[i].pc \in {"image", "table"} => jobs'[i].op \in Paying \cup {"desk"} BY <2>1, OpsTurn
    <2>6. JobsShaped' BY <2>1 DEF Turns
    <2> QED BY <1>s, <1>n, <2>2, <2>3, <2>4, <2>5, <2>6 DEF LockInv
  <1>3. ASSUME Accept(j) PROVE Goal
    <2>1. Turns(j, "table", jobs[j].op) BY <1>s, <1>3, JobTurns
    <2>2. /\ jobs[j].pc = "image" /\ faces < MaxFaces /\ faces' = faces + 1
          /\ UNCHANGED <<emb, can, changes, grants>>
      BY <1>3 DEF Accept, StaffAt, data
    <2>3. Granted' = Granted /\ can' \in BOOLEAN BY <1>s, <2>2 DEF Granted
    <2>d. PICK d \in Nat, a \in Nat : /\ Cardinality(Debts) = d + Owes(jobs[j].pc, jobs[j].op)
                                  /\ Cardinality(Debts') = d + Owes("table", jobs[j].op)
                                  /\ Cardinality(AtTable) = a + Writing(jobs[j].pc)
                                  /\ Cardinality(AtTable') = a + Writing("table")
      BY <2>1, DebtsTurn
    <2>e. /\ Owes("table", jobs[j].op) = Owes(jobs[j].pc, jobs[j].op) /\ Owes("table", jobs[j].op) \in {0, 1}
          /\ Writing("table") = 1 /\ Writing(jobs[j].pc) = 0
      BY <2>2 DEF Owes, Writing
    <2>4. Cardinality(Debts') = Cardinality(Debts) /\ Cardinality(AtTable') = Cardinality(AtTable) + 1
          /\ Cardinality(Debts) \in Nat /\ Cardinality(AtTable) \in Nat
      BY <2>d, <2>e
    <2>5. \A i \in Job : jobs'[i].pc \in {"image", "table"} => jobs'[i].op \in Paying \cup {"desk"}
      BY <1>o, <2>1, <2>2, OpsTurn
    <2>6. JobsShaped' BY <2>1 DEF Turns
    <2>7. faces' \in Nat /\ faces' <= MaxFaces /\ changes' + Cardinality(AtTable') + 2 <= faces' BY <1>n, <2>2, <2>4
    <2>8. grants' = MaxFaces \/ changes' + Cardinality(Debts') + Granted' <= grants' BY <1>n, <2>2, <2>3, <2>4
    <2> QED BY <1>s, <1>n, <2>2, <2>3, <2>5, <2>6, <2>7, <2>8 DEF LockInv
  <1>4. ASSUME WriteTable(j) PROVE Goal
    <2>1. Turns(j, "primary", jobs[j].op) BY <1>s, <1>4, JobTurns
    <2>2. /\ jobs[j].pc = "table" /\ emb' # {} /\ UNCHANGED <<can, faces, grants>>
          /\ changes' = IF emb # {} /\ jobs[j].op # "desk" THEN changes + 1 ELSE changes
      BY <1>4 DEF WriteTable, StaffAt
    <2>3. Granted' = Granted /\ can' \in BOOLEAN BY <1>s, <2>2 DEF Granted
    <2>d. PICK d \in Nat, a \in Nat : /\ Cardinality(Debts) = d + Owes(jobs[j].pc, jobs[j].op)
                                  /\ Cardinality(Debts') = d + Owes("primary", jobs[j].op)
                                  /\ Cardinality(AtTable) = a + Writing(jobs[j].pc)
                                  /\ Cardinality(AtTable') = a + Writing("primary")
      BY <2>1, DebtsTurn
    <2>e. /\ Owes("primary", jobs[j].op) = 0 /\ Owes(jobs[j].pc, jobs[j].op) = IF jobs[j].op \in Paying THEN 1 ELSE 0
          /\ Writing("primary") = 0 /\ Writing(jobs[j].pc) = 1
      BY <2>2 DEF Owes, Writing
    <2>4. Cardinality(AtTable) = Cardinality(AtTable') + 1 /\ Cardinality(AtTable') \in Nat
          /\ Cardinality(Debts') \in Nat
          /\ Cardinality(Debts) = Cardinality(Debts') + (IF jobs[j].op \in Paying THEN 1 ELSE 0)
      BY <2>d, <2>e
    <2>5. jobs[j].op \in Paying \/ jobs[j].op = "desk" BY <1>o, <2>2
    <2>6. \A i \in Job : jobs'[i].pc \in {"image", "table"} => jobs'[i].op \in Paying \cup {"desk"} BY <2>1, OpsTurn
    <2>7. JobsShaped' BY <2>1 DEF Turns
    <2>8. changes' \in Nat /\ changes' + Cardinality(AtTable') + 2 <= faces' BY <1>n, <2>2, <2>4
    <2>9. grants' = MaxFaces \/ changes' + Cardinality(Debts') + Granted' <= grants'
      <3>1. CASE jobs[j].op \in Paying
        <4>1. changes' <= changes + 1 /\ Cardinality(Debts) = Cardinality(Debts') + 1 BY <1>n, <2>2, <2>4, <3>1
        <4> QED BY <1>n, <1>g, <2>2, <2>3, <2>4, <2>8, <4>1
      <3>2. CASE jobs[j].op = "desk"
        <4>1. changes' = changes /\ Cardinality(Debts) = Cardinality(Debts') BY <2>2, <2>4, <3>2 DEF Paying
        <4> QED BY <1>n, <1>g, <2>2, <2>3, <2>4, <4>1
      <3> QED BY <2>5, <3>1, <3>2
    <2> QED BY <1>s, <1>n, <2>2, <2>3, <2>6, <2>7, <2>8, <2>9 DEF LockInv
  <1>5. ASSUME \/ Refuse(j) \/ CachePrimary(j) \/ SaveSample(j) \/ CacheSample(j)
               \/ VerifyGet(j) \/ VerifyStore(j) \/ VerifyAgain(j) \/ VerifyCandidates(j)
               \/ RetrainPrimary(j) \/ RetrainSamples(j) \/ RetrainUpdate(j) \/ RetrainClean(j)
               \/ WarmClear(j) \/ WarmStore(j) \/ WarmSamples(j)
        PROVE Goal
    <2>1. PICK pc, op : Turns(j, pc, op) /\ pc \notin {"image", "table"}
      <3>1. {"idle", "sample", "added", "store", "candidates", "r_samples", "r_update", "r_clean", "w_clear",
             "w_store", "w_samples"} \cap {"image", "table"} = {}
        OBVIOUS
      <3>2. \E pc \in {"idle", "sample", "added", "store", "candidates", "r_samples", "r_update", "r_clean",
                       "w_clear", "w_store", "w_samples"}, op \in {"none", "verify", "retrain", jobs[j].op} :
              Turns(j, pc, op)
        <4>1. \A pc, op : Turns(j, pc, op) =>
                 (pc \in {"idle", "sample", "added", "store", "candidates", "r_samples", "r_update", "r_clean",
                          "w_clear", "w_store", "w_samples"} /\ op \in {"none", "verify", "retrain", jobs[j].op}
                  => \E q \in {"idle", "sample", "added", "store", "candidates", "r_samples", "r_update", "r_clean",
                       "w_clear", "w_store", "w_samples"}, o \in {"none", "verify", "retrain", jobs[j].op} :
                       Turns(j, q, o))
          OBVIOUS
        <4> QED BY <1>s, <1>5, <4>1, JobTurns
      <3> QED BY <3>1, <3>2
    <2>2. jobs[j].pc # "table" /\ UNCHANGED <<can, faces, changes, grants>>
      BY <1>5 DEF Refuse, CachePrimary, SaveSample, CacheSample, VerifyGet, VerifyStore, VerifyAgain,
                  VerifyCandidates, RetrainPrimary, RetrainSamples, RetrainUpdate, RetrainClean, WarmClear,
                  WarmStore, WarmSamples, Starts, StaffAt, data, hist
    <2>3. emb' # {}
      <3>1. CASE RetrainUpdate(j) BY <1>s, <3>1 DEF RetrainUpdate
      <3>2. CASE UNCHANGED emb BY <1>s, <3>2
      <3> QED BY <1>5, <3>1, <3>2 DEF Refuse, CachePrimary, SaveSample, CacheSample, VerifyGet, VerifyStore,
                  VerifyAgain, VerifyCandidates, RetrainPrimary, RetrainSamples, RetrainClean, WarmClear,
                  WarmStore, WarmSamples, data
    <2> QED BY <2>1, <2>2, <2>3, LockQuiet
  <1> HIDE DEF Goal
  <1>6. Goal BY <1>1, <1>2, <1>3, <1>4, <1>5
  <1> QED BY <1>6 DEF Goal

\* A member of staff with a registered face replaces it at most once per permission
\* (staff_register_face, other_staff_register_face), however many requests overlap
\* and wherever the process is killed: the permission is taken before the image is
\* read.  A first registration takes none, so two of them may replace each other.
THEOREM StaffLockedSafe ==
    ASSUME StaffFaceAssumption, IsFiniteSet(Job), Enrolled PROVE Spec => []Locked
  <1>1. Init => LockInv
    <2> SUFFICES ASSUME Init PROVE LockInv
      OBVIOUS
    <2>1. /\ emb = {2} /\ can = FALSE /\ faces = 2 /\ changes = 0 /\ grants = 0 /\ jobs = [j \in Job |-> Resting]
      BY DEF Init, Registrations
    <2>2. JobsShaped /\ \A j \in Job : jobs[j].pc = "idle" BY <2>1, RestShaped DEF JobsShaped
    <2>3. Debts = {} /\ AtTable = {} BY <2>2 DEF Debts, AtTable
    <2>4. Cardinality(Debts) = 0 /\ Cardinality(AtTable) = 0 BY <2>3, FS_EmptySet
    <2>5. Granted = 0 /\ can \in BOOLEAN BY <2>1 DEF Granted
    <2> QED BY <2>1, <2>2, <2>4, <2>5 DEF LockInv, StaffFaceAssumption
  <1>2. LockInv /\ [Next]_vars => LockInv'
    <2> SUFFICES ASSUME LockInv, [Next]_vars PROVE LockInv'
      OBVIOUS
    <2>1. CASE DropEntry \/ Request \/ Deny \/ UNCHANGED vars
      <3>1. UNCHANGED <<emb, can, jobs, faces, changes, grants>> BY <2>1 DEF DropEntry, Request, Deny, vars, data, hist
      <3> QED BY <3>1 DEF LockInv, JobsShaped, Debts, AtTable, Granted
    <2>2. CASE Crash
      <3>1. UNCHANGED <<emb, can, faces, changes, grants>> /\ jobs' = [j \in Job |-> Resting] BY <2>2 DEF Crash, data, hist
      <3>2. JobsShaped' /\ \A j \in Job : jobs'[j].pc = "idle" BY <3>1, RestShaped DEF JobsShaped
      <3>3. Debts' = {} /\ AtTable' = {} BY <3>2 DEF Debts, AtTable
      <3>4. Cardinality(Debts') = 0 /\ Cardinality(AtTable') = 0 BY <3>3, FS_EmptySet
      <3>5. Cardinality(Debts) \in Nat /\ Cardinality(AtTable) \in Nat
        <4>1. Debts \in SUBSET Job /\ AtTable \in SUBSET Job BY DEF Debts, AtTable
        <4> QED BY <4>1, FS_Subset, FS_CardinalityType
      <3>6. can \in BOOLEAN BY DEF LockInv
      <3>7. Granted' = Granted /\ can' \in BOOLEAN /\ Granted \in {0, 1} BY <3>1, <3>6 DEF Granted
      <3> HIDE DEF Granted, Debts, AtTable
      <3> QED BY <3>1, <3>2, <3>4, <3>5, <3>7 DEF LockInv, StaffFaceAssumption
    <2>3. CASE Permission
      <3>1. PICK new \in BOOLEAN : can' = new /\ grants' = IF new THEN OneMore ELSE grants BY <2>3 DEF Permission
      <3>2. UNCHANGED <<emb, jobs, faces, changes>> BY <2>3 DEF Permission
      <3>3. can' \in BOOLEAN BY <3>1
      <3>4. (~can' /\ UNCHANGED grants) \/ grants' = OneMore BY <3>1
      <3> QED BY <3>2, <3>3, <3>4, LockGrant
    <2>4. CASE HodApprove \/ AdminApprove
      <3>1. UNCHANGED <<emb, jobs, faces, changes>> BY <2>4 DEF HodApprove, AdminApprove
      <3>2. CASE can' = TRUE /\ grants' = OneMore
        <4>1. can' \in BOOLEAN BY <3>2
        <4> QED BY <3>1, <3>2, <4>1, LockGrant
      <3>3. CASE UNCHANGED <<can, grants>> BY <3>1, <3>3 DEF LockInv, JobsShaped, Debts, AtTable, Granted
      <3> QED BY <2>4, <3>2, <3>3 DEF HodApprove, AdminApprove
    <2> QED BY <2>1, <2>2, <2>3, <2>4, LockStep DEF Next
  <1>3. LockInv => Locked
    <2> SUFFICES ASSUME LockInv PROVE changes <= grants
      BY DEF Locked
    <2>1. Debts \in SUBSET Job /\ AtTable \in SUBSET Job BY DEF Debts, AtTable
    <2>2. Cardinality(Debts) \in Nat /\ Cardinality(AtTable) \in Nat BY <2>1, FS_Subset, FS_CardinalityType
    <2>3. Granted \in {0, 1} BY DEF Granted
    <2> HIDE DEF Debts, AtTable, Granted
    <2> QED BY <2>2, <2>3 DEF LockInv, StaffFaceAssumption
  <1> QED BY <1>1, <1>2, <1>3, PTL DEF Spec

-----------------------------------------------------------------------------
(***************************************************************************)
(* StaffFace: the cached profile is the registered face as long as the     *)
(* jobs are registrations and verifications under the lock of the user:    *)
(* whoever holds it knows what is in the table, everybody else waits.      *)
(***************************************************************************)
UnderLock == \A i \in Job : Does[i] \subseteq {"self", "verify"}
EntryShaped(e) == e = [primary |-> e.primary, samples |-> e.samples, loaded |-> e.loaded]

Waits(r) == r.pc = "idle" \/ (r.pc = "image" /\ r.op = "self")
Informed(r, face) ==
  /\ r.pc \in {"table", "primary", "sample", "added", "store", "candidates"}
  /\ r.pc = "primary" => face = {r.face}
  /\ r.pc = "store" => r.p = face

CacheInv ==
  /\ JobsShaped
  /\ \A i \in Job : Waits(jobs[i]) \/ (guard = i /\ Informed(jobs[i], emb))
  /\ EntryShaped(profileCache)
  /\ (\A i \in Job : jobs[i].pc # "primary") => profileCache.primary \in {{}, emb}

LEMMA WaitingJob ==
  ASSUME CacheInv, NEW j \in Job, NEW n, Shaped(n), Set(j, n), Waits(n), Waits(jobs[j]),
         UNCHANGED <<emb, guard, profileCache>>
  PROVE  CacheInv'
  <1>1. JobsShaped' /\ \A i \in Job : jobs'[i] = IF i = j THEN n ELSE jobs[i] BY JobSet DEF CacheInv
  <1>2. \A i \in Job : Waits(jobs'[i]) \/ (guard' = i /\ Informed(jobs'[i], emb')) BY <1>1 DEF CacheInv
  <1>3. (\A i \in Job : jobs'[i].pc # "primary") => \A i \in Job : jobs[i].pc # "primary"
    <2>1. jobs[j].pc # "primary" BY DEF Waits
    <2> QED BY <1>1, <2>1
  <1> QED BY <1>1, <1>2, <1>3 DEF CacheInv

LEMMA LockedJob ==
  ASSUME CacheInv, NoJob \notin Job, NEW j \in Job, guard \in {j, NoJob}, NEW n, Shaped(n), Set(j, n),
         Waits(n) \/ (guard' = j /\ Informed(n, emb')),
         EntryShaped(profileCache'), n.pc # "primary" => profileCache'.primary \in {{}, emb'}
  PROVE  CacheInv'
  <1>1. JobsShaped' /\ \A i \in Job : jobs'[i] = IF i = j THEN n ELSE jobs[i] BY JobSet DEF CacheInv
  <1>2. \A i \in Job \ {j} : Waits(jobs[i]) BY DEF CacheInv
  <1>3. \A i \in Job : Waits(jobs'[i]) \/ (guard' = i /\ Informed(jobs'[i], emb')) BY <1>1, <1>2
  <1> QED BY <1>1, <1>3 DEF CacheInv

\* The cache while nobody is about to change it.
LEMMA CacheSettled ==
  ASSUME CacheInv, NoJob \notin Job, NEW j \in Job, guard \in {j, NoJob}, jobs[j].pc # "primary"
  PROVE  EntryShaped(profileCache) /\ profileCache.primary \in {{}, emb}
  <1>1. \A i \in Job \ {j} : jobs[i].pc # "primary" BY DEF CacheInv, Waits
  <1> QED BY <1>1 DEF CacheInv

LEMMA RestingWaits == Shaped(Resting) /\ Waits(Resting) /\ Resting.pc = "idle"
  BY RestShaped DEF Waits

LEMMA EntryMade == \A p, s, b : EntryShaped(Entry(p, s, b)) /\ Entry(p, s, b).primary = p
  BY DEF EntryShaped, Entry

LEMMA CacheStep ==
  ASSUME CacheInv, UnderLock, NoJob \notin Job, NEW j \in Job,
         \/ SelfCheck(j) \/ DeskCheck(j) \/ Refuse(j) \/ Accept(j) \/ WriteTable(j)
         \/ CachePrimary(j) \/ SaveSample(j) \/ CacheSample(j)
         \/ VerifyGet(j) \/ VerifyStore(j) \/ VerifyAgain(j) \/ VerifyCandidates(j)
         \/ RetrainPrimary(j) \/ RetrainSamples(j) \/ RetrainUpdate(j) \/ RetrainClean(j)
         \/ WarmClear(j) \/ WarmStore(j) \/ WarmSamples(j)
  PROVE  CacheInv'
  <1> DEFINE Goal == CacheInv'
  <1>s. Shaped(jobs[j]) BY DEF CacheInv, JobsShaped
  <1>j. Waits(jobs[j]) \/ (guard = j /\ Informed(jobs[j], emb)) BY DEF CacheInv
  <1>n. ASSUME NEW n, Shaped(n), Set(j, n), UNCHANGED <<emb, profileCache>>, guard \in {j, NoJob},
               jobs[j].pc # "primary", Waits(n) \/ (guard' = j /\ Informed(n, emb')) PROVE Goal
    BY <1>n, CacheSettled, LockedJob
  <1>1. ASSUME SelfCheck(j) PROVE Goal
    <2>1. PICK op \in {"self", "other"} : /\ Starts(j, op)
                  /\ Set(j, [Resting EXCEPT !.pc = "image", !.op = op, !.paid = (emb # {})])
      BY <1>1 DEF SelfCheck
    <2>2. op = "self" BY <2>1 DEF Starts, UnderLock
    <2> DEFINE n == [Resting EXCEPT !.pc = "image", !.op = op, !.paid = (emb # {})]
    <2>n. n = [[[Resting EXCEPT !.pc = "image"] EXCEPT !.op = op] EXCEPT !.paid = (emb # {})] OBVIOUS
    <2>4. Set(j, n) BY <2>1
    <2> HIDE DEF n
    <2>3. Shaped(n) /\ n.pc = "image" /\ n.op = op BY <2>n DEF Shaped, Resting
    <2>5. Waits(n) /\ Waits(jobs[j]) BY <2>1, <2>2, <2>3 DEF Waits, Starts, StaffAt
    <2>6. UNCHANGED <<emb, guard, profileCache>> BY <1>1 DEF SelfCheck
    <2> QED BY <2>3, <2>4, <2>5, <2>6, WaitingJob
  <1>2. ASSUME Refuse(j) PROVE Goal
    <2>1. Set(j, Resting) /\ UNCHANGED <<emb, guard, profileCache>> /\ jobs[j].pc = "image"
      BY <1>2 DEF Refuse, data, StaffAt
    <2>2. Waits(jobs[j]) BY <1>j, <2>1 DEF Informed
    <2> QED BY <2>1, <2>2, RestingWaits, WaitingJob
  <1>3. ASSUME Accept(j) PROVE Goal
    <2>1. jobs[j].pc = "image" /\ jobs[j].op = "self" BY <1>3, <1>j DEF Accept, StaffAt, Informed, Waits
    <2>2. guard = NoJob /\ guard' = j /\ UNCHANGED <<emb, profileCache>> BY <1>3, <2>1 DEF Accept, data
    <2> DEFINE n == [jobs[j] EXCEPT !.pc = "table", !.face = faces + 1]
    <2>n. n = [[jobs[j] EXCEPT !.pc = "table"] EXCEPT !.face = faces + 1] OBVIOUS
    <2>4. Set(j, n) BY <1>3 DEF Accept
    <2> HIDE DEF n
    <2>3. Shaped(n) /\ n.pc = "table" BY <2>n, <1>s DEF Shaped
    <2>5. Informed(n, emb') BY <2>3 DEF Informed
    <2> QED BY <1>n, <2>1, <2>2, <2>3, <2>4, <2>5
  <1>4. ASSUME WriteTable(j) PROVE Goal
    <2>1. guard = j /\ UNCHANGED <<guard, profileCache>> /\ emb' = {jobs[j].face} /\ jobs[j].pc = "table"
      BY <1>4, <1>j DEF WriteTable, StaffAt, Waits
    <2> DEFINE n == [jobs[j] EXCEPT !.pc = "primary"]
    <2>2. Shaped(n) /\ n.pc = "primary" /\ n.face = jobs[j].face BY <1>s DEF Shaped
    <2>3. Set(j, n) BY <1>4 DEF WriteTable, StaffGoto
    <2> HIDE DEF n
    <2>4. Informed(n, emb') BY <2>1, <2>2 DEF Informed
    <2>5. EntryShaped(profileCache') BY <2>1 DEF CacheInv
    <2> QED BY <2>1, <2>2, <2>3, <2>4, <2>5, LockedJob
  <1>5. ASSUME CachePrimary(j) PROVE Goal
    <2>1. guard = j /\ UNCHANGED <<guard, emb>> /\ jobs[j].pc = "primary"
      BY <1>5, <1>j DEF CachePrimary, StaffAt, Waits, data
    <2>2. emb = {jobs[j].face} BY <1>j, <2>1 DEF Informed, Waits
    <2> DEFINE n == [jobs[j] EXCEPT !.pc = "sample"]
    <2>3. Shaped(n) /\ n.pc = "sample" BY <1>s DEF Shaped
    <2>4. Set(j, n) BY <1>5 DEF CachePrimary, StaffGoto
    <2> HIDE DEF n
    <2>5. Informed(n, emb') BY <2>3 DEF Informed
    <2>6. profileCache' = [profileCache EXCEPT !.primary = {jobs[j].face}] BY <1>5 DEF CachePrimary
    <2>7. EntryShaped(profileCache') /\ profileCache'.primary = {jobs[j].face} BY <2>6 DEF CacheInv, EntryShaped
    <2> QED BY <2>1, <2>2, <2>3, <2>4, <2>5, <2>7, LockedJob
  <1>6. ASSUME SaveSample(j) PROVE Goal
    <2>1. guard = j /\ UNCHANGED <<guard, emb, profileCache>> /\ jobs[j].pc = "sample"
      BY <1>6, <1>j DEF SaveSample, StaffAt, Waits
    <2> DEFINE n == [jobs[j] EXCEPT !.pc = "added"]
    <2>2. Shaped(n) /\ n.pc = "added" BY <1>s DEF Shaped
    <2>3. Set(j, n) BY <1>6 DEF SaveSample, StaffGoto
    <2> HIDE DEF n
    <2>4. Informed(n, emb') BY <2>2 DEF Informed
    <2> QED BY <1>n, <2>1, <2>2, <2>3, <2>4
  <1>7. ASSUME CacheSample(j) PROVE Goal
    <2>1. guard = j /\ UNCHANGED emb /\ jobs[j].pc = "added" /\ Set(j, Resting)
      BY <1>7, <1>j DEF CacheSample, StaffAt, Waits, data
    <2>2. EntryShaped(profileCache) /\ profileCache.primary \in {{}, emb} BY <2>1, CacheSettled
    <2>3. \/ profileCache' = profileCache
          \/ \E s : profileCache' = [profileCache EXCEPT !.samples = s, !.loaded = TRUE]
      BY <1>7 DEF CacheSample
    <2>4. EntryShaped(profileCache') /\ profileCache'.primary = profileCache.primary
      <3>1. ASSUME NEW s, profileCache' = [profileCache EXCEPT !.samples = s, !.loaded = TRUE]
            PROVE  EntryShaped(profileCache') /\ profileCache'.primary = profileCache.primary
        <4> DEFINE e == [profileCache EXCEPT !.samples = s]
        <4>1. EntryShaped(e) /\ e.primary = profileCache.primary BY <2>2 DEF EntryShaped
        <4>2. profileCache' = [e EXCEPT !.loaded = TRUE] BY <3>1
        <4> HIDE DEF e
        <4> QED BY <4>1, <4>2 DEF EntryShaped
      <3> QED BY <2>2, <2>3, <3>1
    <2> QED BY <2>1, <2>2, <2>4, RestingWaits, LockedJob
  <1>8. ASSUME VerifyGet(j) PROVE Goal
    <2>1. guard = NoJob /\ guard' = j /\ UNCHANGED <<emb, profileCache>> /\ jobs[j].pc = "idle"
      BY <1>8 DEF VerifyGet, Starts, StaffAt, data
    <2>2. CASE Set(j, [Resting EXCEPT !.pc = "store", !.op = "verify", !.p = emb])
      <3> DEFINE n == [Resting EXCEPT !.pc = "store", !.op = "verify", !.p = emb]
      <3>n. n = [[[Resting EXCEPT !.pc = "store"] EXCEPT !.op = "verify"] EXCEPT !.p = emb] OBVIOUS
      <3>2. Set(j, n) BY <2>2
      <3> HIDE DEF n
      <3>1. Shaped(n) /\ n.pc = "store" /\ n.p = emb BY <3>n DEF Shaped, Resting
      <3>3. Informed(n, emb') BY <2>1, <3>1 DEF Informed
      <3> QED BY <1>n, <2>1, <3>1, <3>2, <3>3
    <2>3. CASE Set(j, [Resting EXCEPT !.pc = "candidates", !.op = "verify"])
      <3> DEFINE n == [Resting EXCEPT !.pc = "candidates", !.op = "verify"]
      <3>n. n = [[Resting EXCEPT !.pc = "candidates"] EXCEPT !.op = "verify"] OBVIOUS
      <3>2. Set(j, n) BY <2>3
      <3> HIDE DEF n
      <3>1. Shaped(n) /\ n.pc = "candidates" BY <3>n DEF Shaped, Resting
      <3>3. Informed(n, emb') BY <3>1 DEF Informed
      <3> QED BY <1>n, <2>1, <3>1, <3>2, <3>3
    <2> QED BY <1>8, <2>2, <2>3 DEF VerifyGet
  <1>9. ASSUME VerifyStore(j) PROVE Goal
    <2>1. guard = j /\ UNCHANGED emb /\ jobs[j].pc = "store" BY <1>9, <1>j DEF VerifyStore, StaffAt, Waits, data
    <2>2. jobs[j].p = emb BY <1>j, <2>1 DEF Informed, Waits
    <2>3. CASE Set(j, Resting) /\ UNCHANGED profileCache BY <1>n, <2>1, <2>3, RestingWaits
    <2>4. CASE /\ StaffGoto(j, "candidates") /\ profileCache' = Entry(jobs[j].p, <<>>, FALSE)
               /\ UNCHANGED <<inLoop, guard>>
      <3> DEFINE n == [jobs[j] EXCEPT !.pc = "candidates"]
      <3>1. Shaped(n) /\ n.pc = "candidates" BY <1>s DEF Shaped
      <3>2. Set(j, n) BY <2>4 DEF StaffGoto
      <3> HIDE DEF n
      <3>3. Informed(n, emb') BY <3>1 DEF Informed
      <3>4. EntryShaped(profileCache') /\ profileCache'.primary = emb BY <2>2, <2>4, EntryMade
      <3> QED BY <2>1, <2>4, <3>1, <3>2, <3>3, <3>4, LockedJob
    <2> QED BY <1>9, <2>3, <2>4 DEF VerifyStore
  <1>10. ASSUME VerifyAgain(j) PROVE Goal
    <2>1. guard = j /\ UNCHANGED <<guard, emb, profileCache>> /\ jobs[j].pc = "candidates"
      BY <1>10, <1>j DEF VerifyAgain, StaffAt, Waits, data
    <2> DEFINE n == [jobs[j] EXCEPT !.pc = "store", !.p = emb]
    <2>n. n = [[jobs[j] EXCEPT !.pc = "store"] EXCEPT !.p = emb] OBVIOUS
    <2>3. Set(j, n) BY <1>10 DEF VerifyAgain
    <2> HIDE DEF n
    <2>2. Shaped(n) /\ n.pc = "store" /\ n.p = emb BY <2>n, <1>s DEF Shaped
    <2>4. Informed(n, emb') BY <2>1, <2>2 DEF Informed
    <2> QED BY <1>n, <2>1, <2>2, <2>3, <2>4
  <1>11. ASSUME VerifyCandidates(j) PROVE Goal
    <2>1. guard = j /\ UNCHANGED emb /\ jobs[j].pc = "candidates"
      BY <1>11, <1>j DEF VerifyCandidates, StaffAt, Waits, data
    <2>2. EntryShaped(profileCache) /\ profileCache.primary \in {{}, emb} BY <2>1, CacheSettled
    <2>3. \/ profileCache' = profileCache
          \/ \E s : profileCache' = [profileCache EXCEPT !.samples = s, !.loaded = TRUE]
      BY <1>11 DEF VerifyCandidates
    <2>4. EntryShaped(profileCache') /\ profileCache'.primary \in {{}, emb'}
      <3>1. ASSUME NEW s, profileCache' = [profileCache EXCEPT !.samples = s, !.loaded = TRUE]
            PROVE  EntryShaped(profileCache') /\ profileCache'.primary = profileCache.primary
        <4> DEFINE e == [profileCache EXCEPT !.samples = s]
        <4>1. EntryShaped(e) /\ e.primary = profileCache.primary BY <2>2 DEF EntryShaped
        <4>2. profileCache' = [e EXCEPT !.loaded = TRUE] BY <3>1
        <4> HIDE DEF e
        <4> QED BY <4>1, <4>2 DEF EntryShaped
      <3> QED BY <2>1, <2>2, <2>3, <3>1
    <2>5. CASE Set(j, Resting) BY <2>1, <2>4, <2>5, RestingWaits, LockedJob
    <2>6. CASE \E f : Set(j, [jobs[j] EXCEPT !.pc = "sample", !.face = f]) /\ UNCHANGED <<inLoop, guard>>
      <3>1. PICK f : Set(j, [jobs[j] EXCEPT !.pc = "sample", !.face = f]) /\ UNCHANGED <<inLoop, guard>> BY <2>6
      <3> DEFINE n == [jobs[j] EXCEPT !.pc = "sample", !.face = f]
      <3>n. n = [[jobs[j] EXCEPT !.pc = "sample"] EXCEPT !.face = f] OBVIOUS
      <3>3. Set(j, n) BY <3>1
      <3> HIDE DEF n
      <3>2. Shaped(n) /\ n.pc = "sample" BY <3>n, <1>s DEF Shaped
      <3>4. Informed(n, emb') BY <3>2 DEF Informed
      <3> QED BY <2>1, <2>4, <3>1, <3>2, <3>3, <3>4, LockedJob
    <2> QED BY <1>11, <2>5, <2>6 DEF VerifyCandidates
  <1>12. ~(\/ DeskCheck(j) \/ RetrainPrimary(j) \/ RetrainSamples(j) \/ RetrainUpdate(j) \/ RetrainClean(j)
           \/ WarmClear(j) \/ WarmStore(j) \/ WarmSamples(j))
    <2>1. ~DeskCheck(j) /\ ~RetrainPrimary(j) BY DEF UnderLock, DeskCheck, RetrainPrimary, Starts
    <2>2. jobs[j].pc \notin {"r_samples", "r_update", "r_clean", "w_clear", "w_store", "w_samples"}
      BY <1>j DEF Waits, Informed
    <2> QED BY <2>1, <2>2 DEF RetrainSamples, RetrainUpdate, RetrainClean, WarmClear, WarmStore, WarmSamples, StaffAt
  <1> HIDE DEF Goal
  <1>13. Goal BY <1>1, <1>2, <1>3, <1>4, <1>5, <1>6, <1>7, <1>8, <1>9, <1>10, <1>11, <1>12
  <1> QED BY <1>13 DEF Goal

\* Registrations by the person and verifications, which both hold the lock of the
\* user, never leave the matching with a face that is not the registered one
\* (_cache_update_primary, _cache_get_profile, _cache_get_candidates), however cache
\* entries expire and wherever the process is killed.  The desk's registration and
\* the training take no lock, and with them this does not hold.
THEOREM StaffCacheSafe ==
    ASSUME NoJob \notin Job, UnderLock PROVE Spec => []CacheTable
  <1>1. Init => CacheInv
    <2> SUFFICES ASSUME Init PROVE CacheInv
      OBVIOUS
    <2>1. jobs = [j \in Job |-> Resting] /\ profileCache = Entry(emb, samples, Enrolled) BY DEF Init
    <2>2. JobsShaped /\ \A j \in Job : Waits(jobs[j]) BY <2>1, RestingWaits DEF JobsShaped
    <2>3. EntryShaped(profileCache) /\ profileCache.primary = emb BY <2>1, EntryMade
    <2> QED BY <2>2, <2>3 DEF CacheInv
  <1>2. CacheInv /\ [Next]_vars => CacheInv'
    <2> SUFFICES ASSUME CacheInv, [Next]_vars PROVE CacheInv'
      OBVIOUS
    <2>1. CASE Permission \/ Request \/ HodApprove \/ AdminApprove \/ Deny \/ UNCHANGED vars
      <3>1. UNCHANGED <<emb, profileCache, jobs, guard>>
        BY <2>1 DEF Permission, Request, HodApprove, AdminApprove, Deny, vars
      <3> QED BY <3>1 DEF CacheInv, JobsShaped
    <2>2. CASE DropEntry
      <3>1. UNCHANGED <<emb, jobs, guard>> /\ profileCache' = NoEntry BY <2>2 DEF DropEntry, data
      <3>2. EntryShaped(profileCache') /\ profileCache'.primary = {} BY <3>1, EntryMade DEF NoEntry
      <3> QED BY <3>1, <3>2 DEF CacheInv, JobsShaped
    <2>3. CASE Crash
      <3>1. /\ UNCHANGED emb /\ jobs' = [j \in Job |-> Resting]
            /\ profileCache' = NoEntry \/ profileCache' = Entry(emb, Newest(samples), samples # <<>>)
        BY <2>3 DEF Crash, data
      <3>2. JobsShaped' /\ \A j \in Job : Waits(jobs'[j]) BY <3>1, RestingWaits DEF JobsShaped
      <3>3. EntryShaped(profileCache') /\ (profileCache'.primary = {} \/ profileCache'.primary = emb)
        <4>1. EntryShaped(NoEntry) /\ NoEntry.primary = {} BY EntryMade DEF NoEntry
        <4>2. \A e : e = Entry(emb, Newest(samples), samples # <<>>) => EntryShaped(e) /\ e.primary = emb
          BY EntryMade
        <4> QED BY <3>1, <4>1, <4>2
      <3>4. profileCache'.primary \in {{}, emb'} BY <3>1, <3>3
      <3> QED BY <3>2, <3>3, <3>4 DEF CacheInv
    <2> QED BY <2>1, <2>2, <2>3, CacheStep DEF Next
  <1>3. CacheInv => CacheTable
    BY DEF CacheInv, CacheTable, Quiet
  <1> QED BY <1>1, <1>2, <1>3, PTL DEF Spec
(***************************************************************************)
(* StaffFace: the training keeps the registered face in the profile unless *)
(* it had read the profile before.                                         *)
(***************************************************************************)
Reads == {"r_samples", "r_update"}
Averaging(r) == r.pc \in Reads => last \in r.p

TrainInv ==
  /\ JobsShaped /\ overrun \in BOOLEAN
  /\ last # 0 /\ ~overrun => last \in emb /\ \A i \in Job : Averaging(jobs[i])

\* A step of a job that neither registers nor averages.
LEMMA TrainQuiet ==
  ASSUME TrainInv, NEW j \in Job, NEW n, Shaped(n), Set(j, n), UNCHANGED <<last, overrun>>,
         last # 0 /\ ~overrun => last \in emb' /\ (n.pc \in Reads => last \in n.p)
  PROVE  TrainInv'
  <1>1. JobsShaped' /\ \A i \in Job : jobs'[i] = IF i = j THEN n ELSE jobs[i] BY JobSet DEF TrainInv
  <1>2. ASSUME last' # 0, ~overrun' PROVE last' \in emb' /\ \A i \in Job : Averaging(jobs[i])'
    BY <1>1, <1>2 DEF TrainInv, Averaging
  <1> QED BY <1>1, <1>2 DEF TrainInv

\* The face that was registered last is lost to nothing but a training that had read
\* the profile before (_retrain_face_profiles reads every profile at its start and
\* writes the average back), whatever registrations, verifications, trainings and
\* crashes overlap.
THEOREM TrainingSafe == Spec => []LostToTraining
  <1>1. Init => TrainInv
    <2> SUFFICES ASSUME Init PROVE TrainInv
      OBVIOUS
    <2>1. jobs = [j \in Job |-> Resting] BY DEF Init
    <2>2. JobsShaped /\ \A j \in Job : jobs[j].pc = "idle" BY <2>1, RestShaped DEF JobsShaped
    <2>3. overrun = FALSE /\ (last # 0 => last \in emb) BY DEF Init, Registrations
    <2> QED BY <2>2, <2>3 DEF TrainInv, Averaging, Reads
  <1>2. TrainInv /\ [Next]_vars => TrainInv'
    <2> SUFFICES ASSUME TrainInv, [Next]_vars PROVE TrainInv'
      OBVIOUS
    <2> DEFINE Goal == TrainInv'
    <2>1. CASE DropEntry \/ Permission \/ Request \/ HodApprove \/ AdminApprove \/ Deny \/ UNCHANGED vars
      <3>1. UNCHANGED <<emb, jobs, last, overrun>>
        BY <2>1 DEF DropEntry, Permission, Request, HodApprove, AdminApprove, Deny, vars, data, hist
      <3> QED BY <3>1 DEF TrainInv, JobsShaped, Averaging
    <2>2. CASE Crash
      <3>1. UNCHANGED <<emb, last, overrun>> /\ jobs' = [j \in Job |-> Resting] BY <2>2 DEF Crash, data, hist
      <3>2. JobsShaped' /\ \A j \in Job : jobs'[j].pc = "idle" BY <3>1, RestShaped DEF JobsShaped
      <3> QED BY <3>1, <3>2 DEF TrainInv, Averaging, Reads
    <2> SUFFICES ASSUME NEW j \in Job,
         \/ SelfCheck(j) \/ DeskCheck(j) \/ Refuse(j) \/ Accept(j) \/ WriteTable(j)
         \/ CachePrimary(j) \/ SaveSample(j) \/ CacheSample(j)
         \/ VerifyGet(j) \/ VerifyStore(j) \/ VerifyAgain(j) \/ VerifyCandidates(j)
         \/ RetrainPrimary(j) \/ RetrainSamples(j) \/ RetrainUpdate(j) \/ RetrainClean(j)
         \/ WarmClear(j) \/ WarmStore(j) \/ WarmSamples(j)
                 PROVE TrainInv'
      BY <2>1, <2>2 DEF Next
    <2>s. Shaped(jobs[j]) /\ JobsShaped BY DEF TrainInv, JobsShaped
    <2> HIDE DEF Goal
    <2>3. ASSUME WriteTable(j) PROVE Goal
      <3>1. Turns(j, "primary", jobs[j].op) BY <2>s, <2>3, JobTurns
      <3>2. /\ emb' = {jobs[j].face} /\ last' = jobs[j].face
            /\ overrun' = \E i \in Job : jobs[i].pc \in {"r_samples", "r_update"}
        BY <2>3 DEF WriteTable
      <3>3. ASSUME ~overrun', NEW i \in Job PROVE jobs'[i].pc \notin Reads
        BY <3>1, <3>2, <3>3 DEF Turns, Reads
      <3>4. overrun' \in BOOLEAN BY <3>2
      <3> QED BY <3>1, <3>2, <3>3, <3>4 DEF Goal, TrainInv, Turns, Averaging
    <2>4. ASSUME RetrainPrimary(j) PROVE Goal
      <3> DEFINE n == [Resting EXCEPT !.pc = "r_samples", !.op = "retrain", !.p = emb]
      <3>1. n = [[[Resting EXCEPT !.pc = "r_samples"] EXCEPT !.op = "retrain"] EXCEPT !.p = emb] OBVIOUS
      <3>2. Set(j, n) /\ UNCHANGED <<emb, last, overrun>> BY <2>4 DEF RetrainPrimary, data, hist
      <3> HIDE DEF n
      <3>3. Shaped(n) /\ n.p = emb BY <3>1 DEF Shaped, Resting
      <3>4. last # 0 /\ ~overrun => last \in emb' /\ (n.pc \in Reads => last \in n.p) BY <3>2, <3>3 DEF TrainInv
      <3> QED BY <3>2, <3>3, <3>4, TrainQuiet DEF Goal
    <2>5. ASSUME RetrainSamples(j) PROVE Goal
      <3> DEFINE n == [jobs[j] EXCEPT !.pc = "r_update", !.s = Newest(samples)]
      <3>1. n = [[jobs[j] EXCEPT !.pc = "r_update"] EXCEPT !.s = Newest(samples)] OBVIOUS
      <3>2. Set(j, n) /\ UNCHANGED <<emb, last, overrun>> /\ jobs[j].pc = "r_samples"
        BY <2>5 DEF RetrainSamples, data, hist, StaffAt
      <3> HIDE DEF n
      <3>3. Shaped(n) /\ n.p = jobs[j].p BY <2>s, <3>1 DEF Shaped
      <3>4. last # 0 /\ ~overrun => last \in emb' /\ last \in n.p BY <3>2, <3>3 DEF TrainInv, Averaging, Reads
      <3> QED BY <3>2, <3>3, <3>4, TrainQuiet DEF Goal
    <2>6. ASSUME RetrainUpdate(j) PROVE Goal
      <3> DEFINE n == [jobs[j] EXCEPT !.pc = "r_clean"]
      <3>1. Set(j, n) /\ UNCHANGED <<last, overrun>> /\ jobs[j].pc = "r_update"
        BY <2>6 DEF RetrainUpdate, hist, StaffAt, StaffGoto
      <3>2. Shaped(n) /\ n.pc = "r_clean" BY <2>s DEF Shaped
      <3> HIDE DEF n
      <3>3. emb' = emb \/ jobs[j].p \subseteq emb' BY <2>6 DEF RetrainUpdate
      <3>4. last # 0 /\ ~overrun => last \in emb' BY <3>1, <3>3 DEF TrainInv, Averaging, Reads
      <3> QED BY <3>1, <3>2, <3>4, TrainQuiet DEF Goal, Reads
    <2>7. ASSUME \/ SelfCheck(j) \/ DeskCheck(j) \/ Refuse(j) \/ Accept(j)
                 \/ CachePrimary(j) \/ SaveSample(j) \/ CacheSample(j)
                 \/ VerifyGet(j) \/ VerifyStore(j) \/ VerifyAgain(j) \/ VerifyCandidates(j)
                 \/ RetrainClean(j) \/ WarmClear(j) \/ WarmStore(j) \/ WarmSamples(j)
          PROVE Goal
      <3>1. PICK pc, op : Turns(j, pc, op) /\ pc \notin Reads
        <4>1. \A pc, op : Turns(j, pc, op) =>
                 (pc \in {"idle", "image", "table", "primary", "sample", "added", "store", "candidates", "w_clear",
                          "w_store", "w_samples"}
                  => \E q, o : Turns(j, q, o) /\ q \notin Reads)
          BY DEF Reads
        <4> QED BY <2>s, <2>7, <4>1, JobTurns
      <3>2. UNCHANGED <<emb, last, overrun>> /\ \E n : Set(j, n)
        BY <2>7 DEF SelfCheck, DeskCheck, Refuse, Accept, CachePrimary, SaveSample, CacheSample, VerifyGet,
                    VerifyStore, VerifyAgain, VerifyCandidates, RetrainClean, WarmClear, WarmStore, WarmSamples,
                    StaffGoto, data, hist
      <3>3. jobs' = [jobs EXCEPT ![j] = jobs'[j]] BY <2>s, <3>2 DEF Set, JobsShaped
      <3>4. Shaped(jobs'[j]) /\ jobs'[j].pc = pc BY <3>1 DEF Turns, JobsShaped
      <3>5. Set(j, jobs'[j]) BY <3>3 DEF Set
      <3>6. last # 0 /\ ~overrun => last \in emb' /\ (jobs'[j].pc \in Reads => last \in jobs'[j].p)
        BY <3>1, <3>2, <3>4 DEF TrainInv
      <3> QED BY <3>2, <3>4, <3>5, <3>6, TrainQuiet DEF Goal
    <2>8. Goal BY <2>3, <2>4, <2>5, <2>6, <2>7
    <2> QED BY <2>8 DEF Goal
  <1>3. TrainInv => LostToTraining
    BY DEF TrainInv, LostToTraining, RegisterSticks
  <1> QED BY <1>1, <1>2, <1>3, PTL DEF Spec
=============================================================================
