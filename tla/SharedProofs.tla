---------------------------- MODULE SharedProofs ----------------------------
(***************************************************************************)
(* Theorems about what the handlers share, for every value of the          *)
(* constants: the lockout, for every limit, duration and number of waiting *)
(* requests; the rate limiter, for every limit and window; the caches with *)
(* a time to live, for every time and any readers; the connection pool,    *)
(* for any finite set of threads and any sizes: a connection has one user, *)
(* none leaks as long as no thread ends, a statement is executed once as   *)
(* long as no answer is lost; the settings of the attendance windows:      *)
(* slots keep apart; and the LRU cache, whose order is that of use.        *)
(***************************************************************************)
EXTENDS VerificationGuard, RateLimiter, TimedCache, ConnectionPool, AttendanceWindows,
        LRUCache, SetSums

\* Where the event loop's check may still admit a handler there is a place for it.
Admitted == proc["loop"].pc \in {"check", "expire", "ok"} => passed < Waiting

\* A count at the limit is always on its way to a reset: a timer runs, its
\* callback is under way, or a thread is about to arm one.
Resettable ==
  count >= Limit =>
    timer # Unset \/ firing # "no" \/ \E t \in Thread : proc[t].pc \in {"lock", "arm"}

\* Admitted is what bounds passed, Resettable what makes ResetComing inductive.
GuardInv == TypeOK /\ Admitted /\ Resettable

LEMMA BoundedIn == \A n \in 0 .. FailBound : Bounded(n + 1) \in 0 .. FailBound
  BY GuardAssumption DEF Bounded, FailBound

LEMMA LessIn ==
  \A x \in {Unset} \cup 0 .. Duration : /\ Less(x) \in {Unset} \cup 0 .. Duration
                                        /\ x # Unset => Less(x) # Unset
  BY GuardAssumption DEF Less

\* A thread that goes on, ends, or takes up a count keeps proc well typed.
LEMMA ProcTypes ==
  ASSUME TypeOK, NEW t \in Thread, NEW s \in Step, NEW n \in 0 .. FailBound
  PROVE  /\ [proc EXCEPT ![t].pc = s] \in [Thread -> [pc : Step, n : 0 .. FailBound]]
         /\ [proc EXCEPT ![t] = [pc |-> s, n |-> n]] \in [Thread -> [pc : Step, n : 0 .. FailBound]]
  BY DEF TypeOK

LEMMA GotoTypes ==
  ASSUME TypeOK, NEW t \in Thread, NEW s \in Step, Goto(t, s) \/ Finish(t)
  PROVE  proc' \in [Thread -> [pc : Step, n : 0 .. FailBound]]
  <1>1. "idle" \in Step /\ 0 \in 0 .. FailBound BY GuardAssumption DEF Step, FailBound
  <1>2. CASE Goto(t, s) BY <1>1, <1>2, ProcTypes DEF Goto
  <1>3. CASE Finish(t) BY <1>1, <1>3, ProcTypes DEF Finish
  <1> QED BY <1>2, <1>3

LEMMA InitTypes == Init => TypeOK
  BY GuardAssumption DEF Init, TypeOK, Step, FailBound

\* The steps of one thread, which change little but its program counter.
LEMMA ThreadTypes ==
  ASSUME TypeOK, NEW t \in Thread,
         \/ CheckLockout(t) \/ RemoveExpired(t)
         \/ ReadCount(t) \/ PutCount(t) \/ PutLock(t) \/ Arm(t)
  PROVE  TypeOK'
  <1>0. {"ok", "expire", "check", "lock", "arm", "put"} \subseteq Step /\ Duration \in 0 .. Duration
        /\ proc[t].n \in 0 .. FailBound
    BY GuardAssumption DEF Step, TypeOK
  <1>1. CASE CheckLockout(t)
    <2>1. proc' \in [Thread -> [pc : Step, n : 0 .. FailBound]]
      BY <1>0, <1>1, GotoTypes DEF CheckLockout
    <2> QED BY <1>1, <2>1 DEF CheckLockout, TypeOK
  <1>2. CASE RemoveExpired(t)
    <2>1. proc' \in [Thread -> [pc : Step, n : 0 .. FailBound]]
      BY <1>0, <1>2, GotoTypes DEF RemoveExpired
    <2> QED BY <1>2, <2>1 DEF RemoveExpired, TypeOK
  <1>3. CASE ReadCount(t)
    <2>1. Bounded(count + 1) \in 0 .. FailBound BY BoundedIn DEF TypeOK
    <2>2. proc' \in [Thread -> [pc : Step, n : 0 .. FailBound]]
      BY <1>0, <1>3, <2>1, ProcTypes DEF ReadCount
    <2> QED BY <1>3, <2>2 DEF ReadCount, TypeOK
  <1>4. CASE PutCount(t)
    <2>1. proc' \in [Thread -> [pc : Step, n : 0 .. FailBound]]
      BY <1>0, <1>4, GotoTypes DEF PutCount
    <2> QED BY <1>0, <1>4, <2>1 DEF PutCount, TypeOK
  <1>5. CASE PutLock(t)
    <2>1. proc' \in [Thread -> [pc : Step, n : 0 .. FailBound]]
      BY <1>0, <1>5, GotoTypes DEF PutLock
    <2> QED BY <1>0, <1>5, <2>1 DEF PutLock, TypeOK
  <1>6. CASE Arm(t)
    <2>1. proc' \in [Thread -> [pc : Step, n : 0 .. FailBound]]
      BY <1>0, <1>6, GotoTypes DEF Arm
    <2> QED BY <1>0, <1>6, <2>1 DEF Arm, TypeOK
  <1> QED BY <1>1, <1>2, <1>3, <1>4, <1>5, <1>6

\* The steps that belong to one of the threads only.
LEMMA RequestTypes ==
  ASSUME TypeOK, Admitted,
         \/ Request \/ Pass \/ Refuse \/ Queue \/ Enter \/ Proceed
         \/ Mismatch \/ Match \/ Unusable \/ ClearLocks \/ ClearCounts
  PROVE  TypeOK'
  <1>0. /\ {"check", "read", "work", "clear"} \subseteq Step
        /\ {"loop", "pool"} \subseteq Thread
        /\ 0 \in 0 .. FailBound
    BY GuardAssumption DEF Step, Thread, FailBound
  <1>1. proc' \in [Thread -> [pc : Step, n : 0 .. FailBound]]
    <2>1. CASE Request BY <1>0, <2>1, GotoTypes DEF Request
    <2>2. CASE Pass BY <1>0, <2>2, GotoTypes DEF Pass
    <2>3. CASE Refuse BY <1>0, <2>3, GotoTypes DEF Refuse
    <2>4. CASE Queue BY <2>4 DEF Queue, TypeOK
    <2>5. CASE Enter BY <1>0, <2>5, GotoTypes DEF Enter
    <2>6. CASE Proceed BY <1>0, <2>6, GotoTypes DEF Proceed
    <2>7. CASE Mismatch BY <1>0, <2>7, GotoTypes DEF Mismatch
    <2>8. CASE Match BY <1>0, <2>8, GotoTypes DEF Match
    <2>9. CASE Unusable BY <1>0, <2>9, GotoTypes DEF Unusable
    <2>10. CASE ClearLocks BY <1>0, <2>10, GotoTypes DEF ClearLocks
    <2>11. CASE ClearCounts BY <1>0, <2>11, GotoTypes DEF ClearCounts
    <2> QED BY <2>1, <2>2, <2>3, <2>4, <2>5, <2>6, <2>7, <2>8, <2>9, <2>10, <2>11
  <1>2. passed' \in 0 .. Waiting /\ queued' \in 0 .. Waiting
    <2>1. passed \in 0 .. Waiting /\ queued \in 0 .. Waiting BY DEF TypeOK
    <2>2. CASE Pass
      <3>1. passed < Waiting BY <2>2 DEF Pass, Admitted, At
      <3> QED BY <2>1, <2>2, <3>1, GuardAssumption DEF Pass
    <2>3. CASE Refuse BY <2>1, <2>3, GuardAssumption DEF Refuse
    <2>4. CASE Queue BY <2>1, <2>4, GuardAssumption DEF Queue
    <2>5. CASE Enter BY <2>1, <2>5, GuardAssumption DEF Enter
    <2>6. CASE Request \/ Proceed \/ Mismatch \/ Match \/ Unusable \/ ClearLocks \/ ClearCounts
      BY <2>1, <2>6
      DEF Request, Proceed, Mismatch, Match, Unusable, ClearLocks, ClearCounts
    <2> QED BY <2>2, <2>3, <2>4, <2>5, <2>6
  <1>3. /\ count' \in 0 .. FailBound /\ lock' \in {Unset} \cup 0 .. Duration
        /\ timer' = timer /\ firing' = firing
    BY <1>0
    DEF TypeOK, Request, Pass, Refuse, Queue, Enter, Proceed, Mismatch, Match, Unusable,
        ClearLocks, ClearCounts
  <1> QED BY <1>1, <1>2, <1>3 DEF TypeOK

LEMMA ClockTypes ==
  ASSUME TypeOK, Tick \/ Fire \/ RemoveLock \/ RemoveCount
  PROVE  TypeOK'
  <1>1. CASE Tick BY <1>1, LessIn DEF Tick, TypeOK
  <1>2. CASE Fire BY <1>2 DEF Fire, TypeOK
  <1>3. CASE RemoveLock BY <1>3 DEF RemoveLock, TypeOK
  <1>4. CASE RemoveCount
    <2>1. 0 \in 0 .. FailBound BY GuardAssumption DEF FailBound
    <2> QED BY <1>4, <2>1 DEF RemoveCount, TypeOK
  <1> QED BY <1>1, <1>2, <1>3, <1>4

LEMMA NextTypes == TypeOK /\ Admitted /\ [Next]_vars => TypeOK'
  <1>1. CASE UNCHANGED vars BY <1>1 DEF vars, TypeOK
  <1> QED BY <1>1, ThreadTypes, RequestTypes, ClockTypes DEF Next

LEMMA AdmittedKept == TypeOK /\ Admitted /\ [Next]_vars => Admitted'
  <1> SUFFICES ASSUME TypeOK, Admitted, [Next]_vars PROVE Admitted'
    OBVIOUS
  <1>0. /\ DOMAIN proc = Thread /\ {"loop", "pool"} = Thread /\ passed \in 0 .. Waiting
        /\ \A t \in Thread : DOMAIN proc[t] = {"pc", "n"}
    BY DEF TypeOK, Thread
  <1>1. CASE Request BY <1>0, <1>1 DEF Request, Admitted, Goto
  <1>2. CASE Pass \/ Refuse \/ ClearLocks \/ ClearCounts
    BY <1>0, <1>2 DEF Pass, Refuse, ClearLocks, ClearCounts, Admitted, Goto, Finish
  <1>3. CASE Queue BY <1>0, <1>3, GuardAssumption DEF Queue, Admitted, At
  <1>4. CASE Enter \/ Proceed \/ Mismatch \/ Match \/ Unusable
    BY <1>0, <1>4 DEF Enter, Proceed, Mismatch, Match, Unusable, Admitted, Goto, Finish
  <1>5. ASSUME NEW t \in Thread, CheckLockout(t) \/ RemoveExpired(t)
        PROVE  Admitted'
    <2>1. CASE t = "pool"
      BY <1>0, <1>5, <2>1 DEF CheckLockout, RemoveExpired, Admitted, Goto, Finish
    <2>2. CASE t = "loop"
      <3>1. passed < Waiting BY <1>5, <2>2 DEF CheckLockout, RemoveExpired, Admitted, At
      <3> QED BY <1>5, <3>1 DEF CheckLockout, RemoveExpired, Admitted
    <2> QED BY <1>0, <2>1, <2>2
  <1>6. ASSUME NEW t \in Thread, ReadCount(t) \/ PutCount(t) \/ PutLock(t) \/ Arm(t)
        PROVE  Admitted'
    <2>1. /\ proc' = [proc EXCEPT ![t] = proc'[t]] /\ passed' = passed
          /\ t = "loop" => proc'[t].pc \in {"put", "lock", "arm", "idle"}
      BY <1>0, <1>6 DEF ReadCount, PutCount, PutLock, Arm, Goto, Finish
    <2> QED BY <1>0, <2>1 DEF Admitted
  <1>7. CASE Tick \/ Fire \/ RemoveLock \/ RemoveCount \/ UNCHANGED vars
    BY <1>7 DEF Tick, Fire, RemoveLock, RemoveCount, vars, Admitted
  <1> QED BY <1>1, <1>2, <1>3, <1>4, <1>5, <1>6, <1>7 DEF Next

\* A step of a thread that is not about to lock or to arm a timer, and leaves
\* count, timer and callback alone, leaves everything to Resettable.
LEMMA Elsewhere ==
  ASSUME TypeOK, Resettable, NEW t \in Thread, proc[t].pc \notin {"lock", "arm"},
         proc' = [proc EXCEPT ![t] = proc'[t]],
         count' = count \/ count' = 0, timer' = timer, firing' = firing
  PROVE  Resettable'
  <1>1. CASE count' = 0 BY <1>1, GuardAssumption DEF Resettable
  <1>2. ASSUME NEW s \in Thread, proc[s].pc \in {"lock", "arm"}
        PROVE  proc'[s].pc \in {"lock", "arm"}
    BY <1>2 DEF TypeOK
  <1>3. CASE count' = count BY <1>2, <1>3 DEF Resettable
  <1> QED BY <1>1, <1>3

LEMMA ResettableKept == TypeOK /\ Resettable /\ [Next]_vars => Resettable'
  <1> SUFFICES ASSUME TypeOK, Resettable, [Next]_vars PROVE Resettable'
    OBVIOUS
  <1>0. /\ DOMAIN proc = Thread /\ "loop" \in Thread /\ "pool" \in Thread
        /\ \A t \in Thread : DOMAIN proc[t] = {"pc", "n"} /\ proc[t].n \in 0 .. FailBound
    BY DEF TypeOK, Thread
  <1>1. CASE Request \/ Pass \/ Refuse \/ ClearLocks \/ ClearCounts
    <2>1. /\ proc["loop"].pc \notin {"lock", "arm"}
          /\ proc' = [proc EXCEPT !["loop"] = proc'["loop"]]
          /\ (count' = count \/ count' = 0) /\ timer' = timer /\ firing' = firing
      BY <1>0, <1>1 DEF Request, Pass, Refuse, ClearLocks, ClearCounts, At, Goto, Finish
    <2> QED BY <1>0, <2>1, Elsewhere
  <1>2. CASE Enter \/ Proceed \/ Mismatch \/ Match \/ Unusable
    <2>1. /\ proc["pool"].pc \notin {"lock", "arm"}
          /\ proc' = [proc EXCEPT !["pool"] = proc'["pool"]]
          /\ (count' = count \/ count' = 0) /\ timer' = timer /\ firing' = firing
      BY <1>0, <1>2 DEF Enter, Proceed, Mismatch, Match, Unusable, At, Goto, Finish
    <2> QED BY <1>0, <2>1, Elsewhere
  <1>3. ASSUME NEW t \in Thread, CheckLockout(t) \/ RemoveExpired(t) \/ ReadCount(t)
        PROVE  Resettable'
    <2>1. /\ proc[t].pc \notin {"lock", "arm"} /\ proc' = [proc EXCEPT ![t] = proc'[t]]
          /\ count' = count /\ timer' = timer /\ firing' = firing
      BY <1>0, <1>3 DEF CheckLockout, RemoveExpired, ReadCount, At, Goto, Finish
    <2> QED BY <2>1, Elsewhere
  <1>4. ASSUME NEW t \in Thread, PutCount(t)
        PROVE  Resettable'
    <2>1. CASE proc[t].n >= Limit
      <3>1. proc'[t].pc = "lock" BY <1>0, <1>4, <2>1 DEF PutCount, Goto
      <3> QED BY <3>1 DEF Resettable
    <2>2. CASE ~ (proc[t].n >= Limit) BY <1>4, <2>2 DEF PutCount, Resettable
    <2> QED BY <2>1, <2>2
  <1>5. ASSUME NEW t \in Thread, PutLock(t)
        PROVE  Resettable'
    <2>1. proc'[t].pc = "arm" BY <1>0, <1>5 DEF PutLock, Goto
    <2> QED BY <2>1 DEF Resettable
  <1>6. ASSUME NEW t \in Thread, Arm(t)
        PROVE  Resettable'
    BY <1>6, GuardAssumption DEF Arm, Resettable
  <1>7. CASE Tick
    <2>1. timer # Unset => timer' # Unset BY <1>7, LessIn DEF Tick, TypeOK
    <2> QED BY <1>7, <2>1 DEF Tick, Resettable
  <1>8. CASE Fire BY <1>8 DEF Fire, Resettable
  <1>9. CASE RemoveLock BY <1>9 DEF RemoveLock, Resettable
  <1>10. CASE RemoveCount BY <1>10, GuardAssumption DEF RemoveCount, Resettable
  <1>11. CASE Queue \/ UNCHANGED vars BY <1>11 DEF Queue, vars, Resettable
  <1> QED
    BY <1>1, <1>2, <1>3, <1>4, <1>5, <1>6, <1>7, <1>8, <1>9, <1>10, <1>11 DEF Next

LEMMA GuardInvHolds == Spec => []GuardInv
  <1>1. Init => GuardInv
    <2>1. Init => Admitted /\ Resettable
      BY GuardAssumption DEF Init, Admitted, Resettable, Thread
    <2> QED BY <2>1, InitTypes DEF GuardInv
  <1>2. GuardInv /\ [Next]_vars => GuardInv'
    BY NextTypes, AdmittedKept, ResettableKept DEF GuardInv
  <1> QED BY <1>1, <1>2, PTL DEF Spec

\* Every reachable state is well typed: counts and locks stay in their range
\* and no handler passes the check beyond the places there are.
THEOREM GuardTypeCorrect == Spec => []TypeOK
  <1>1. GuardInv => TypeOK BY DEF GuardInv
  <1> QED BY <1>1, GuardInvHolds, PTL

\* The lockout always ends: a count at the limit that nobody is about to write
\* is reset by a timer or its callback, whatever the order of the two threads,
\* the timers and an administrator's clearing of the caches.
THEOREM ResetAlwaysComing == Spec => []ResetComing
  <1>1. GuardInv => ResetComing BY DEF GuardInv, Resettable, ResetComing, Quiet
  <1> QED BY <1>1, GuardInvHolds, PTL

\* A lock in force is taken away early only by the callback of an earlier timer,
\* a check that read the lock before it, or an administrator: no request does.
THEOREM OnlyLiftedBy == Spec => [][LiftedOnlyBy]_vars
  <1>1. TypeOK /\ [Next]_vars => [LiftedOnlyBy]_vars
    <2> SUFFICES ASSUME TypeOK, Next, Locked, lock' = Unset, lock # Unset
                 PROVE  LiftedOnlyBy
      BY GuardAssumption DEF LiftedOnlyBy, Locked, vars
    <2>1. DOMAIN proc = Thread /\ "loop" \in Thread /\ DOMAIN proc["loop"] = {"pc", "n"}
      BY DEF TypeOK, Thread
    <2>2. CASE RemoveLock BY <2>2 DEF RemoveLock, LiftedOnlyBy
    <2>3. CASE ClearLocks BY <2>1, <2>3 DEF ClearLocks, Goto, LiftedOnlyBy
    <2>4. ASSUME NEW t \in Thread, RemoveExpired(t) PROVE LiftedOnlyBy
      BY <2>4 DEF RemoveExpired, LiftedOnlyBy
    <2>5. CASE Tick BY <2>5, LessIn DEF Tick, TypeOK
    <2>6. ASSUME NEW t \in Thread,
                 CheckLockout(t) \/ ReadCount(t) \/ PutCount(t) \/ PutLock(t) \/ Arm(t)
          PROVE  FALSE
      BY <2>6, GuardAssumption DEF CheckLockout, ReadCount, PutCount, PutLock, Arm
    <2>7. CASE \/ Request \/ Pass \/ Refuse \/ Queue \/ Enter \/ Proceed \/ Mismatch
               \/ Match \/ Unusable \/ Fire \/ RemoveCount \/ ClearCounts
      BY <2>7
      DEF Request, Pass, Refuse, Queue, Enter, Proceed, Mismatch, Match, Unusable,
          Fire, RemoveCount, ClearCounts
    <2> QED BY <2>2, <2>3, <2>4, <2>5, <2>6, <2>7 DEF Next
  <1> QED BY <1>1, GuardTypeCorrect, PTL DEF Spec

-----------------------------------------------------------------------------
(***************************************************************************)
(* RateLimiter: popping stops at the first age inside the window, which is *)
(* there to stop at, and is not passed over later.                         *)
(***************************************************************************)
Stops(ages, k) ==
  /\ \A j \in 1 .. k - 1 : ages[j] > Window
  /\ k <= Len(ages) => ages[k] <= Window

LEMMA OldestStops ==
  ASSUME NEW ages \in Seq(Nat)
  PROVE  Oldest(ages) \in 1 .. Len(ages) + 1 /\ Stops(ages, Oldest(ages))
  <1> DEFINE K == {k \in 1 .. Len(ages) + 1 : k = Len(ages) + 1 \/ ages[k] <= Window}
             R == {r \in Nat \X Nat : r[1] < r[2]}
  <1>1. \A x \in Nat, y \in Nat : <<x, y>> \in R <=> x < y OBVIOUS
  <1>2. IsWellFoundedOn(R, Nat) BY NatLessThanWellFounded DEF OpToRel
  <1>3. Len(ages) \in Nat /\ \A i \in 1 .. Len(ages) : ages[i] \in Nat OBVIOUS
  <1>4. K \subseteq Nat /\ Len(ages) + 1 \in K BY <1>3
  <1> HIDE DEF R
  <1>5. PICK k \in K : \A y \in K : ~ (<<y, k>> \in R)
    <2> HIDE DEF K
    <2> QED BY <1>2, <1>4, WFMin
  <1>6. k \in 1 .. Len(ages) + 1 /\ (k = Len(ages) + 1 \/ ages[k] <= Window) OBVIOUS
  <1>7. \A j \in 1 .. k - 1 : ages[j] > Window
    <2> SUFFICES ASSUME NEW j \in 1 .. k - 1 PROVE ages[j] > Window OBVIOUS
    <2>1. j \in 1 .. Len(ages) /\ j < k /\ j \in Nat /\ k \in Nat BY <1>3, <1>6
    <2>2. j \notin K
      <3> HIDE DEF K
      <3> QED BY <1>1, <1>5, <2>1
    <2>3. ~ (ages[j] <= Window) BY <2>1, <2>2
    <2> QED BY <1>3, <2>1, <2>3, LimiterAssumption
  <1>8. Stops(ages, k) BY <1>3, <1>6, <1>7 DEF Stops
  <1> QED BY <1>6, <1>8 DEF Oldest, Stops

LEMMA OldestIs ==
  ASSUME NEW ages \in Seq(Nat), NEW k \in 1 .. Len(ages) + 1, Stops(ages, k)
  PROVE  Oldest(ages) = k
  <1> DEFINE h == Oldest(ages)
  <1>1. h \in 1 .. Len(ages) + 1 /\ Stops(ages, h) BY OldestStops
  <1>2. Len(ages) \in Nat /\ \A i \in 1 .. Len(ages) : ages[i] \in Nat OBVIOUS
  <1> HIDE DEF h
  <1>3. ~ (h < k)
    <2> SUFFICES ASSUME h < k PROVE FALSE OBVIOUS
    <2>1. h \in 1 .. k - 1 /\ h <= Len(ages) /\ h \in 1 .. Len(ages) BY <1>1, <1>2
    <2>2. ages[h] > Window /\ ages[h] <= Window BY <1>1, <2>1 DEF Stops
    <2> QED BY <1>2, <2>1, <2>2, LimiterAssumption
  <1>4. ~ (k < h)
    <2> SUFFICES ASSUME k < h PROVE FALSE OBVIOUS
    <2>1. k \in 1 .. h - 1 /\ k <= Len(ages) /\ k \in 1 .. Len(ages) BY <1>1, <1>2
    <2>2. ages[k] > Window /\ ages[k] <= Window BY <1>1, <2>1 DEF Stops
    <2> QED BY <1>2, <2>1, <2>2, LimiterAssumption
  <1> QED BY <1>1, <1>2, <1>3, <1>4 DEF h

\* What is left is a sequence whose oldest is inside the window.
LEMMA LeftInWindow ==
  ASSUME NEW ages \in Seq(Nat)
  PROVE  /\ InWindow(ages) \in Seq(Nat)
         /\ Len(InWindow(ages)) = Len(ages) + 1 - Oldest(ages)
         /\ \A i \in 1 .. Len(InWindow(ages)) : InWindow(ages)[i] = ages[Oldest(ages) + i - 1]
         /\ Len(InWindow(ages)) >= 1 => InWindow(ages)[1] <= Window
  <1> DEFINE h == Oldest(ages)
  <1>1. h \in 1 .. Len(ages) + 1 /\ Stops(ages, h) BY OldestStops
  <1> HIDE DEF h
  <1>2. Len(ages) \in Nat OBVIOUS
  <1>3. /\ SubSeq(ages, h, Len(ages)) \in Seq(Nat)
        /\ Len(SubSeq(ages, h, Len(ages))) = Len(ages) + 1 - h
        /\ \A i \in 1 .. Len(ages) + 1 - h : SubSeq(ages, h, Len(ages))[i] = ages[h + i - 1]
    BY <1>1, <1>2
  <1>4. Len(ages) + 1 - h >= 1 => ages[h + 1 - 1] <= Window BY <1>1, <1>2 DEF Stops
  <1> QED BY <1>1, <1>2, <1>3, <1>4 DEF InWindow, h

\* Where nothing is past the window at the front, nothing is popped.
LEMMA NothingPopped ==
  ASSUME NEW ages \in Seq(Nat), Len(ages) >= 1 => ages[1] <= Window
  PROVE  InWindow(ages) = ages
  <1>1. 1 \in 1 .. Len(ages) + 1 /\ Stops(ages, 1) BY DEF Stops
  <1>2. Oldest(ages) = 1 BY <1>1, OldestIs
  <1>3. SubSeq(ages, 1, Len(ages)) = ages OBVIOUS
  <1> QED BY <1>2, <1>3 DEF InWindow

LEMMA SameSeq ==
  ASSUME NEW a \in Seq(Nat), NEW b \in Seq(Nat), Len(a) = Len(b),
         \A i \in 1 .. Len(a) : a[i] = b[i]
  PROVE  a = b
  OBVIOUS

LEMMA OlderIs ==
  ASSUME NEW ages \in Seq(Nat)
  PROVE  /\ Older(ages) \in Seq(Nat) /\ Len(Older(ages)) = Len(ages)
         /\ \A i \in 1 .. Len(ages) :
              Older(ages)[i] = IF ages[i] > Window THEN ages[i] ELSE ages[i] + 1
  <1>1. Len(ages) \in Nat /\ \A i \in 1 .. Len(ages) : ages[i] \in Nat OBVIOUS
  <1>2. DOMAIN ages = 1 .. Len(ages) OBVIOUS
  <1> QED BY <1>1, <1>2 DEF Older

\* Forgetting before or after time passes leaves the same.
LEMMA OlderWindow ==
  ASSUME NEW ages \in Seq(Nat)
  PROVE  /\ Older(ages) \in Seq(Nat)
         /\ InWindow(Older(InWindow(ages))) = InWindow(Older(ages))
  <1> DEFINE h == Oldest(ages)
             w == InWindow(ages)
             o == Older(ages)
             p == Older(w)
             m == Oldest(o)
  <1>1. h \in 1 .. Len(ages) + 1 /\ Stops(ages, h) BY OldestStops
  <1>2. /\ w \in Seq(Nat) /\ Len(w) = Len(ages) + 1 - h
        /\ \A i \in 1 .. Len(w) : w[i] = ages[h + i - 1]
    BY LeftInWindow
  <1>3. Len(ages) \in Nat /\ \A i \in 1 .. Len(ages) : ages[i] \in Nat OBVIOUS
  <1>4. /\ o \in Seq(Nat) /\ Len(o) = Len(ages)
        /\ \A i \in 1 .. Len(ages) : o[i] = IF ages[i] > Window THEN ages[i] ELSE ages[i] + 1
    BY OlderIs
  <1>5. /\ p \in Seq(Nat) /\ Len(p) = Len(w)
        /\ \A i \in 1 .. Len(w) : p[i] = IF w[i] > Window THEN w[i] ELSE w[i] + 1
    <2> HIDE DEF w
    <2> QED BY <1>2, OlderIs
  <1>6. m \in 1 .. Len(o) + 1 /\ Stops(o, m) BY <1>4, OldestStops
  <1> HIDE DEF h, w, o, p, m
  <1>7. Len(w) \in Nat /\ \A i \in 1 .. Len(w) : h + i - 1 \in 1 .. Len(ages) /\ p[i] = o[h + i - 1]
    <2> SUFFICES ASSUME NEW i \in 1 .. Len(w)
                 PROVE  h + i - 1 \in 1 .. Len(ages) /\ p[i] = o[h + i - 1]
      BY <1>2
    <2>1. h + i - 1 \in 1 .. Len(ages) BY <1>1, <1>2, <1>3
    <2> QED BY <1>2, <1>4, <1>5, <2>1
  <1>8. h <= m
    <2> SUFFICES ASSUME m < h PROVE FALSE BY <1>1, <1>6
    <2>1. m \in 1 .. h - 1 /\ m \in 1 .. Len(ages) BY <1>1, <1>3, <1>4, <1>6
    <2>2. ages[m] > Window BY <1>1, <2>1 DEF Stops
    <2>3. o[m] = ages[m] BY <1>4, <2>1, <2>2
    <2>4. o[m] <= Window BY <1>4, <1>6, <2>1 DEF Stops
    <2> QED BY <1>3, <2>1, <2>2, <2>3, <2>4, LimiterAssumption
  <1> DEFINE k == m - h + 1
  <1>9. k \in 1 .. Len(p) + 1 /\ h + k - 1 = m BY <1>1, <1>2, <1>3, <1>4, <1>5, <1>6, <1>8
  <1>10. Stops(p, k)
    <2>1. ASSUME NEW j \in 1 .. k - 1 PROVE p[j] > Window
      <3>1. j \in 1 .. Len(w) /\ h + j - 1 \in 1 .. m - 1
        BY <1>1, <1>2, <1>3, <1>4, <1>6, <1>8
      <3>2. o[h + j - 1] > Window BY <1>6, <3>1 DEF Stops
      <3> QED BY <1>7, <3>1, <3>2
    <2>2. ASSUME k <= Len(p) PROVE p[k] <= Window
      <3>1. k \in 1 .. Len(w) /\ m <= Len(o) BY <1>1, <1>2, <1>3, <1>4, <1>5, <1>6, <1>8, <2>2
      <3>2. p[k] = o[m] BY <1>7, <1>9, <3>1
      <3>3. o[m] <= Window BY <1>6, <3>1 DEF Stops
      <3> QED BY <3>2, <3>3
    <2> QED BY <2>1, <2>2 DEF Stops
  <1> HIDE DEF k
  <1>11. Oldest(p) = k BY <1>5, <1>9, <1>10, OldestIs
  <1>12. /\ InWindow(p) \in Seq(Nat) /\ Len(InWindow(p)) = Len(p) + 1 - k
         /\ \A i \in 1 .. Len(InWindow(p)) : InWindow(p)[i] = p[k + i - 1]
    BY <1>5, <1>11, LeftInWindow
  <1>13. /\ InWindow(o) \in Seq(Nat) /\ Len(InWindow(o)) = Len(o) + 1 - m
         /\ \A i \in 1 .. Len(InWindow(o)) : InWindow(o)[i] = o[m + i - 1]
    BY <1>4, LeftInWindow DEF m
  <1>14. Len(InWindow(p)) = Len(InWindow(o)) /\ Len(w) = Len(InWindow(o)) + k - 1
    <2>1. /\ h \in Nat /\ m \in Nat /\ k \in Nat /\ Len(ages) \in Nat /\ h + k - 1 = m
          /\ Len(p) = Len(ages) + 1 - h /\ Len(o) = Len(ages) /\ Len(w) = Len(p)
      BY <1>1, <1>2, <1>3, <1>4, <1>5, <1>6, <1>9
    <2>2. Len(InWindow(p)) = Len(p) + 1 - k /\ Len(InWindow(o)) = Len(o) + 1 - m
      BY <1>12, <1>13
    <2> QED BY <2>1, <2>2
  <1>15. \A i \in 1 .. Len(InWindow(o)) : InWindow(p)[i] = InWindow(o)[i]
    <2> SUFFICES ASSUME NEW i \in 1 .. Len(InWindow(o)) PROVE InWindow(p)[i] = InWindow(o)[i]
      OBVIOUS
    <2>1. k + i - 1 \in 1 .. Len(w) /\ h + (k + i - 1) - 1 = m + i - 1
      <3>1. i \in 1 .. Len(InWindow(o)) /\ Len(InWindow(o)) \in Nat /\ Len(w) \in Nat
        BY <1>2, <1>13
      <3>2. h \in Nat /\ m \in Nat /\ k \in Nat /\ k >= 1 /\ h + k - 1 = m
        BY <1>1, <1>3, <1>4, <1>5, <1>6, <1>9
      <3> QED BY <1>14, <3>1, <3>2
    <2>2. p[k + i - 1] = o[m + i - 1] BY <1>7, <2>1
    <2> QED BY <1>12, <1>13, <1>14, <2>2
  <1>16. InWindow(p) = InWindow(o) BY <1>12, <1>13, <1>14, <1>15, SameSeq
  <1> QED BY <1>4, <1>16 DEF o, p, w

\* What counts as accepted is what is_allowed will find when it is asked next.
LimiterInv ==
  /\ timestamps \in Seq(Nat)
  /\ accepted = InWindow(timestamps)
  /\ Len(accepted) <= MaxRequests

LEMMA LimiterStep == LimiterInv /\ [LimiterNext]_limiterVars => LimiterInv'
  <1> SUFFICES ASSUME LimiterInv, [LimiterNext]_limiterVars PROVE LimiterInv' OBVIOUS
  <1> DEFINE recent == InWindow(timestamps)
  <1>1. /\ recent \in Seq(Nat) /\ Len(recent) \in Nat
        /\ Len(recent) >= 1 => recent[1] <= Window
    BY LeftInWindow DEF LimiterInv
  <1>2. InWindow(recent) = recent
    <2> HIDE DEF recent
    <2> QED BY <1>1, NothingPopped
  <1>3. CASE Ask
    <2>1. CASE Len(recent) >= MaxRequests
      <3>1. timestamps' = recent /\ accepted' = accepted BY <1>3, <2>1 DEF Ask
      <3> QED BY <1>1, <1>2, <3>1 DEF LimiterInv
    <2>2. CASE ~ (Len(recent) >= MaxRequests)
      <3>1. timestamps' = Append(recent, 0) /\ accepted' = Append(InWindow(accepted), 0)
        BY <1>3, <2>2 DEF Ask
      <3>2. accepted' = Append(recent, 0) BY <1>2, <3>1 DEF LimiterInv
      <3> HIDE DEF recent
      <3>3. /\ Append(recent, 0) \in Seq(Nat) /\ Len(Append(recent, 0)) = Len(recent) + 1
            /\ Append(recent, 0)[1] = IF Len(recent) >= 1 THEN recent[1] ELSE 0
        BY <1>1
      <3>4. Append(recent, 0)[1] <= Window BY <1>1, <3>3, LimiterAssumption
      <3>5. InWindow(Append(recent, 0)) = Append(recent, 0) BY <3>3, <3>4, NothingPopped
      <3>6. Len(recent) + 1 <= MaxRequests BY <1>1, <2>2, LimiterAssumption
      <3> QED BY <3>1, <3>2, <3>3, <3>5, <3>6 DEF LimiterInv
    <2> QED BY <2>1, <2>2
  <1>4. CASE HalfSecond
    <2>1. timestamps' = Older(timestamps) /\ accepted' = InWindow(Older(recent))
      BY <1>4 DEF HalfSecond, LimiterInv
    <2>2. timestamps' \in Seq(Nat) /\ accepted' = InWindow(timestamps')
      BY <2>1, OlderWindow DEF LimiterInv
    <2>3. Len(accepted') <= Len(recent)
      <3>1. /\ Older(recent) \in Seq(Nat) /\ Len(Older(recent)) = Len(recent)
        <4> HIDE DEF recent
        <4> QED BY <1>1, OlderIs
      <3>2. Oldest(Older(recent)) \in 1 .. Len(Older(recent)) + 1 BY <3>1, OldestStops
      <3>3. Len(InWindow(Older(recent))) = Len(Older(recent)) + 1 - Oldest(Older(recent))
        BY <3>1, LeftInWindow
      <3> HIDE DEF recent
      <3> QED BY <1>1, <2>1, <3>1, <3>2, <3>3
    <2>4. Len(accepted') \in Nat BY <2>2, LeftInWindow
    <2> QED BY <1>1, <2>2, <2>3, <2>4, LimiterAssumption DEF LimiterInv
  <1>5. CASE UNCHANGED limiterVars BY <1>5 DEF limiterVars, LimiterInv
  <1> QED BY <1>3, <1>4, <1>5 DEF LimiterNext

\* No window of SlidingWindowRateLimiter, wherever it begins, holds more accepted
\* requests than the limit.
THEOREM WindowHolds == LimiterSpec => []WindowLimit
  <1>1. LimiterInit => LimiterInv
    <2> SUFFICES ASSUME LimiterInit PROVE LimiterInv OBVIOUS
    <2>1. timestamps = <<>> /\ accepted = <<>> BY DEF LimiterInit
    <2>2. timestamps \in Seq(Nat) /\ Len(timestamps) = 0 BY <2>1
    <2>3. Len(timestamps) >= 1 => timestamps[1] <= Window BY <2>2
    <2>4. InWindow(timestamps) = timestamps BY <2>2, <2>3, NothingPopped
    <2> QED BY <2>1, <2>4, <2>2, <2>3, LimiterAssumption DEF LimiterInv
  <1>2. LimiterInv => WindowLimit BY DEF LimiterInv, WindowLimit
  <1> QED BY <1>1, <1>2, LimiterStep, PTL DEF LimiterSpec

-----------------------------------------------------------------------------
(***************************************************************************)
(* The caches with a time to live.                                         *)
(***************************************************************************)
\* An age within a bound.
Within(old, most) == old = Current \/ old <= most

\* A value on its way is outdated no longer than its load has taken; a stored
\* one no longer than its load and its time in the cache together.
LoadsYoung == \A t \in Reader : load[t] # NoRead =>
  /\ load[t].pc = "query" => load[t].old = Current
  /\ Within(load[t].old, load[t].spent)
EntriesYoung == \A c \in Cache : entry[c] # Empty =>
  Within(entry[c].old, TTL[c] - entry[c].left + IF c = "cohort" THEN 0 ELSE Slow)

TimedInv == TimedTypeOK /\ LoadsYoung /\ EntriesYoung /\ CohortFresh /\ FastFresh

\* A load, and an entry, with the fields as given.
LEMMA LoadFields ==
  ASSUME NEW l \in Load
  PROVE  /\ l.cache \in Cache /\ l.pc \in {"query", "store"} /\ l.old \in Age /\ l.spent \in 0..Slow
         /\ \A o \in Age : [l EXCEPT !.old = o] \in Load /\ [l EXCEPT !.old = o].old = o
  BY DEF Load

LEMMA Outdates ==
  ASSUME CacheAssumption, NEW old \in Age
  PROVE  /\ Outdate(old) \in Age /\ Ageing(old) \in Age
         /\ \A n \in Int : Within(old, n) => Within(Ageing(old), n + 1)
         /\ \A n \in Nat : Within(old, n) => Within(Outdate(old), n)
  BY DEF CacheAssumption, Age, Outdate, Ageing, Within

LEMMA TimedStarts ==
  ASSUME CacheAssumption, TimedInit PROVE TimedInv
  <1>1. TimedTypeOK BY DEF TimedInit, TimedTypeOK, CacheAssumption
  <1>2. LoadsYoung /\ EntriesYoung BY DEF TimedInit, LoadsYoung, EntriesYoung
  <1>3. CohortFresh /\ FastFresh BY DEF TimedInit, CohortFresh, FastFresh, Outdated
  <1> QED BY <1>1, <1>2, <1>3 DEF TimedInv

LEMMA LookupKeeps ==
  ASSUME CacheAssumption, TimedInv, NEW t \in Reader, NEW c \in Cache, Lookup(t, c)
  PROVE  TimedInv'
  <1>1. TimedTypeOK /\ UNCHANGED <<entry, load>> BY DEF TimedInv, Lookup
  <1>2. entry[c] \in Entry /\ entry[c].old \in Age /\ entry[c].left \in Int
    BY <1>1 DEF Lookup, Hit, TimedTypeOK, Entry
  <1>3. served' = [cache |-> c, old |-> entry[c].old] BY DEF Lookup
  <1>4. TimedTypeOK' BY <1>1, <1>2, <1>3 DEF TimedTypeOK
  <1>5. LoadsYoung' /\ EntriesYoung' BY <1>1 DEF TimedInv, LoadsYoung, EntriesYoung
  <1>6. Within(entry[c].old, TTL[c] - entry[c].left + IF c = "cohort" THEN 0 ELSE Slow)
    BY DEF TimedInv, EntriesYoung, Lookup, Hit
  <1>7. TTL[c] \in Nat /\ Slow \in Nat BY DEF CacheAssumption
  <1>8. CohortFresh'
    <2> SUFFICES ASSUME c = "cohort", entry[c].old # Current
                 PROVE  entry[c].old <= IF TTL["cohort"] > Slow THEN TTL["cohort"] - 1 ELSE Slow
      BY <1>3 DEF CohortFresh, Outdated
    <2>1. entry[c].left > 0 BY DEF Lookup, Hit
    <2>2. entry[c].old \in Nat /\ entry[c].old <= TTL[c] - entry[c].left
      BY <1>2, <1>6, <1>7 DEF Within, Age
    <2> QED BY <1>2, <1>7, <2>1, <2>2
  <1>9. FastFresh'
    <2> SUFFICES ASSUME c # "cohort", entry[c].old # Current PROVE entry[c].old <= TTL[c] + Slow
      BY <1>3 DEF FastFresh, Outdated
    <2>1. entry[c].left >= 0 BY DEF Lookup, Hit
    <2>2. entry[c].old \in Nat /\ entry[c].old <= TTL[c] - entry[c].left + Slow
      BY <1>2, <1>6, <1>7 DEF Within, Age
    <2> QED BY <1>2, <1>7, <2>1, <2>2
  <1> QED BY <1>4, <1>5, <1>8, <1>9 DEF TimedInv

\* The other steps of a reader: one load changes, at most one entry, and what
\* it hands over is as old as its load at most.
LEMMA ReaderKeeps ==
  ASSUME CacheAssumption, TimedInv, NEW t \in Reader, NEW l \in {NoRead} \cup Load,
         load' = [load EXCEPT ![t] = l],
         l # NoRead => /\ l.pc = "query" => l.old = Current
                       /\ Within(l.old, l.spent),
         NEW c \in Cache, NEW e \in {Empty} \cup Entry,
         entry' = [entry EXCEPT ![c] = e],
         e # Empty => /\ e.left \in -Slow - 1..TTL[c]
                      /\ Within(e.old, TTL[c] - e.left + IF c = "cohort" THEN 0 ELSE Slow),
         \/ served' = served
         \/ \E d \in Cache, o \in Age : served' = [cache |-> d, old |-> o] /\ Within(o, Slow)
  PROVE  TimedInv'
  <1>1. TimedTypeOK BY DEF TimedInv
  <1>2. TimedTypeOK' BY <1>1 DEF TimedTypeOK
  <1>3. LoadsYoung' BY <1>1 DEF TimedInv, TimedTypeOK, LoadsYoung
  <1>4. EntriesYoung' BY <1>1 DEF TimedInv, TimedTypeOK, EntriesYoung
  <1>5. CohortFresh' /\ FastFresh'
    <2>1. CASE served' = served BY <2>1 DEF TimedInv, CohortFresh, FastFresh, Outdated
    <2>2. ASSUME NEW d \in Cache, NEW o \in Age, served' = [cache |-> d, old |-> o], Within(o, Slow)
          PROVE  CohortFresh' /\ FastFresh'
      <3>1. o = Current \/ (o \in Nat /\ o <= Slow) BY <2>2 DEF Within, Age
      <3>2. \A k \in Cache : TTL[k] \in Nat BY DEF CacheAssumption
      <3>3. Slow \in Nat /\ \A k \in Cache : o # Current => o <= TTL[k] + Slow
        BY <3>1, <3>2 DEF CacheAssumption
      <3>4. o # Current => o <= IF TTL["cohort"] > Slow THEN TTL["cohort"] - 1 ELSE Slow
        BY <3>1, <3>2, <3>3 DEF Cache
      <3>5. served'.cache = d /\ served'.old = o BY <2>2
      <3>6. CohortFresh' BY <3>4, <3>5 DEF CohortFresh, Outdated
      <3>7. FastFresh' BY <3>3, <3>5 DEF FastFresh, Outdated, Cache
      <3> QED BY <3>6, <3>7
    <2> QED BY <2>1, <2>2
  <1> QED BY <1>2, <1>3, <1>4, <1>5 DEF TimedInv

\* An entry that is left alone.
LEMMA EntryStays ==
  ASSUME TimedInv, NEW c \in Cache
  PROVE  /\ entry[c] \in {Empty} \cup Entry
         /\ entry = [entry EXCEPT ![c] = entry[c]]
         /\ entry[c] # Empty =>
              /\ entry[c].left \in -Slow - 1..TTL[c]
              /\ Within(entry[c].old, TTL[c] - entry[c].left + IF c = "cohort" THEN 0 ELSE Slow)
  BY DEF TimedInv, TimedTypeOK, EntriesYoung

LEMMA MissKeeps ==
  ASSUME CacheAssumption, TimedInv, NEW t \in Reader, NEW c \in Cache, Miss(t, c)
  PROVE  TimedInv'
  <1> DEFINE l == [cache |-> c, pc |-> "query", old |-> Current, spent |-> 0]
             e == IF c = "cohort" THEN entry[c] ELSE Empty
  <1>1. l \in Load BY DEF Load, Age, CacheAssumption
  <1>2. load' = [load EXCEPT ![t] = l] /\ entry' = [entry EXCEPT ![c] = e] /\ served' = served
    BY DEF Miss
  <1>3. l.old = Current /\ Within(l.old, l.spent)
    <2>1. l.old = Current OBVIOUS
    <2> QED BY <2>1 DEF Within
  <1>4. e \in {Empty} \cup Entry /\ (e # Empty => e = entry[c]) BY EntryStays
  <1> HIDE DEF l, e
  <1> QED BY <1>1, <1>2, <1>3, <1>4, EntryStays, ReaderKeeps

LEMMA QueryKeeps ==
  ASSUME CacheAssumption, TimedInv, NEW t \in Reader,
         Query(t) \/ QueryFails(t) \/ QueryEmpty(t)
  PROVE  TimedInv'
  <1>1. TimedTypeOK /\ UNCHANGED <<entry, served>> /\ load[t] # NoRead
    BY DEF TimedInv, Query, QueryFails, QueryEmpty
  <1>2. load[t] \in Load BY <1>1 DEF TimedTypeOK
  <1>3. PICK c \in Cache : TRUE BY DEF Cache
  <1>4. entry' = [entry EXCEPT ![c] = entry[c]] BY <1>1, EntryStays
  <1>5. PICK l \in {NoRead} \cup Load :
          /\ load' = [load EXCEPT ![t] = l]
          /\ l # NoRead => (l.pc = "query" => l.old = Current) /\ Within(l.old, l.spent)
    <2>1. CASE Query(t)
      <3> DEFINE l == [load[t] EXCEPT !.pc = "store"]
      <3>1. l \in Load /\ l.pc = "store" /\ l.old = load[t].old /\ l.spent = load[t].spent
        BY <1>2 DEF Load
      <3>2. load' = [load EXCEPT ![t] = l] BY <1>1, <2>1 DEF Query, TimedTypeOK
      <3>3. Within(load[t].old, load[t].spent) BY <1>1 DEF TimedInv, LoadsYoung
      <3> HIDE DEF l
      <3> QED BY <3>1, <3>2, <3>3
    <2>2. CASE QueryFails(t)
      <3> DEFINE l == [[load[t] EXCEPT !.pc = "store"] EXCEPT !.old = 0]
      <3>1. l \in Load /\ l.pc = "store" /\ l.old = 0 /\ l.spent = load[t].spent
        BY <1>2 DEF Load, Age
      <3>2. load' = [load EXCEPT ![t] = l] BY <1>1, <2>2 DEF QueryFails, TimedTypeOK
      <3>3. 0 <= load[t].spent BY <1>2 DEF Load, CacheAssumption
      <3>4. Within(l.old, l.spent) BY <3>1, <3>3 DEF Within
      <3> HIDE DEF l
      <3> QED BY <3>1, <3>2, <3>4
    <2>3. CASE QueryEmpty(t) BY <2>3 DEF QueryEmpty
    <2> QED BY <2>1, <2>2, <2>3
  <1> QED BY <1>1, <1>3, <1>4, <1>5, EntryStays, ReaderKeeps

LEMMA StoreKeeps ==
  ASSUME CacheAssumption, TimedInv, NEW t \in Reader, Store(t)
  PROVE  TimedInv'
  <1> DEFINE c == load[t].cache
             o == load[t].old
             left == IF c = "cohort" THEN TTL[c] - load[t].spent ELSE TTL[c]
             e == [old |-> o, left |-> left]
  <1>1. load[t] \in Load BY DEF TimedInv, TimedTypeOK, Store
  <1>2. c \in Cache /\ o \in Age /\ load[t].spent \in 0..Slow BY <1>1 DEF Load
  <1>3. Within(o, load[t].spent) BY DEF TimedInv, LoadsYoung, Store
  <1>4. TTL[c] \in Nat /\ TTL[c] > 0 /\ Slow \in Nat BY <1>2 DEF CacheAssumption
  <1>5. left \in Int /\ left \in -Slow - 1..TTL[c] BY <1>2, <1>4
  <1>6. Within(o, Slow) BY <1>2, <1>3, <1>4 DEF Within, Age
  <1>7. Within(o, TTL[c] - left + IF c = "cohort" THEN 0 ELSE Slow)
    BY <1>2, <1>3, <1>4, <1>6 DEF Within, Age
  <1>8. /\ load' = [load EXCEPT ![t] = NoRead]
        /\ entry' = [entry EXCEPT ![c] = e]
        /\ served' = [cache |-> c, old |-> o]
    BY DEF Store
  <1>9. e \in Entry /\ e.old = o /\ e.left = left BY <1>2, <1>5 DEF Entry
  <1> HIDE DEF c, o, left, e
  <1> QED BY <1>2, <1>5, <1>6, <1>7, <1>8, <1>9, ReaderKeeps

LEMMA SaveKeeps ==
  ASSUME CacheAssumption, TimedInv, NEW c \in Cache, Save(c)
  PROVE  TimedInv'
  <1> DEFINE l(t) == IF load[t] # NoRead /\ load[t].cache = c /\ load[t].pc = "store"
                     THEN [load[t] EXCEPT !.old = Outdate(load[t].old)] ELSE load[t]
             e == IF c = "prefs" \/ entry[c] = Empty THEN Empty
                  ELSE [entry[c] EXCEPT !.old = Outdate(entry[c].old)]
  <1>1. TimedTypeOK /\ served' = served BY DEF TimedInv, Save
  <1>2. load' = [t \in Reader |-> l(t)] /\ entry' = [entry EXCEPT ![c] = e] BY DEF Save
  <1>3. \A t \in Reader : /\ l(t) \in {NoRead} \cup Load
                          /\ l(t) # NoRead => /\ l(t).pc = "query" => l(t).old = Current
                                              /\ Within(l(t).old, l(t).spent)
    <2> SUFFICES ASSUME NEW t \in Reader
                 PROVE  /\ l(t) \in {NoRead} \cup Load
                        /\ l(t) # NoRead => /\ l(t).pc = "query" => l(t).old = Current
                                            /\ Within(l(t).old, l(t).spent)
      OBVIOUS
    <2>1. /\ load[t] \in {NoRead} \cup Load
          /\ load[t] # NoRead => /\ load[t].pc = "query" => load[t].old = Current
                                 /\ Within(load[t].old, load[t].spent)
      BY <1>1 DEF TimedInv, LoadsYoung, TimedTypeOK
    <2>2. CASE l(t) = load[t] BY <2>1, <2>2
    <2>3. CASE load[t] # NoRead /\ load[t].pc = "store" /\ l(t) = [load[t] EXCEPT !.old = Outdate(load[t].old)]
      <3>1. load[t] \in Load /\ load[t].old \in Age /\ load[t].spent \in Nat
        BY <2>1, <2>3 DEF Load
      <3>2. Outdate(load[t].old) \in Age /\ Within(Outdate(load[t].old), load[t].spent)
        BY <2>1, <2>3, <3>1, Outdates
      <3>3. /\ l(t) \in Load /\ l(t).pc = "store" /\ l(t).spent = load[t].spent
            /\ l(t).old = Outdate(load[t].old)
        BY <2>3, <3>1, <3>2 DEF Load
      <3> HIDE DEF l
      <3> QED BY <3>2, <3>3
    <2> QED BY <2>2, <2>3
  <1>4. /\ e \in {Empty} \cup Entry
        /\ e # Empty => /\ e.left \in -Slow - 1..TTL[c]
                        /\ Within(e.old, TTL[c] - e.left + IF c = "cohort" THEN 0 ELSE Slow)
    <2>1. CASE e = Empty BY <2>1
    <2>2. CASE entry[c] # Empty /\ e = [entry[c] EXCEPT !.old = Outdate(entry[c].old)]
      <3>1. /\ entry[c] \in Entry /\ entry[c].old \in Age
            /\ entry[c].left \in -Slow - 1..TTL[c]
            /\ Within(entry[c].old, TTL[c] - entry[c].left + IF c = "cohort" THEN 0 ELSE Slow)
        BY <2>2, EntryStays DEF Entry
      <3>2. TTL[c] \in Nat /\ Slow \in Nat BY DEF CacheAssumption
      <3>3. TTL[c] - entry[c].left + (IF c = "cohort" THEN 0 ELSE Slow) \in Nat BY <3>1, <3>2
      <3>4. /\ Outdate(entry[c].old) \in Age
            /\ Within(Outdate(entry[c].old),
                      TTL[c] - entry[c].left + IF c = "cohort" THEN 0 ELSE Slow)
        BY <3>1, <3>3, Outdates
      <3>5. e \in Entry /\ e.left = entry[c].left /\ e.old = Outdate(entry[c].old)
        BY <2>2, <3>1, <3>4 DEF Entry
      <3> HIDE DEF e
      <3> QED BY <3>1, <3>4, <3>5
    <2> QED BY <2>1, <2>2
  <1> HIDE DEF l, e
  <1>5. TimedTypeOK' BY <1>1, <1>2, <1>3, <1>4 DEF TimedTypeOK
  <1>6. LoadsYoung' BY <1>2, <1>3 DEF LoadsYoung
  <1>7. EntriesYoung' BY <1>1, <1>2, <1>4 DEF TimedInv, TimedTypeOK, EntriesYoung
  <1>8. CohortFresh' /\ FastFresh' BY <1>1 DEF TimedInv, CohortFresh, FastFresh, Outdated
  <1> QED BY <1>5, <1>6, <1>7, <1>8 DEF TimedInv

LEMMA TickKeeps ==
  ASSUME CacheAssumption, TimedInv, CacheTick
  PROVE  TimedInv'
  <1> DEFINE old(t) == IF load[t].pc = "store" THEN Ageing(load[t].old) ELSE load[t].old
             l(t) == IF load[t] = NoRead THEN NoRead
                     ELSE [[load[t] EXCEPT !.spent = load[t].spent + 1] EXCEPT !.old = old(t)]
             e(c) == IF entry[c] = Empty \/ entry[c].left < 0 THEN entry[c]
                     ELSE [old |-> Ageing(entry[c].old), left |-> entry[c].left - 1]
  <1>1. TimedTypeOK /\ served' = Empty /\ Slow \in Nat
    BY DEF TimedInv, CacheTick, CacheAssumption
  <1>2. load' = [t \in Reader |-> l(t)]
    <2>1. \A t \in Reader : load[t] # NoRead => load[t] \in Load BY <1>1 DEF TimedTypeOK
    <2>2. ASSUME NEW t \in Reader, load[t] # NoRead
          PROVE  l(t) = [load[t] EXCEPT !.spent = @ + 1, !.old = IF load[t].pc = "store" THEN Ageing(@) ELSE @]
      BY <2>1, <2>2 DEF Load
    <2>3. load' = [t \in Reader |-> IF load[t] = NoRead THEN NoRead
                     ELSE [load[t] EXCEPT !.spent = @ + 1,
                                          !.old = IF load[t].pc = "store" THEN Ageing(@) ELSE @]]
      BY DEF CacheTick
    <2> QED BY <2>2, <2>3
  <1>3. entry' = [c \in Cache |-> e(c)] BY DEF CacheTick
  <1>4. \A t \in Reader : /\ l(t) \in {NoRead} \cup Load
                          /\ l(t) # NoRead => /\ l(t).pc = "query" => l(t).old = Current
                                              /\ Within(l(t).old, l(t).spent)
    <2> SUFFICES ASSUME NEW t \in Reader, load[t] # NoRead
                 PROVE  /\ l(t) \in Load
                        /\ l(t).pc = "query" => l(t).old = Current
                        /\ Within(l(t).old, l(t).spent)
      OBVIOUS
    <2>1. /\ load[t] \in Load /\ load[t].old \in Age /\ load[t].spent \in 0..Slow
          /\ load[t].pc = "query" => load[t].old = Current
          /\ load[t].pc \in {"query", "store"}
          /\ Within(load[t].old, load[t].spent)
      BY <1>1 DEF TimedInv, LoadsYoung, TimedTypeOK, Load
    <2>2. load[t].spent + 1 \in 0..Slow
      <3>1. load[t].spent < Slow BY DEF CacheTick
      <3> QED BY <1>1, <2>1, <3>1
    <2>3. old(t) \in Age /\ (load[t].pc = "query" => old(t) = Current)
      BY <2>1, Outdates
    <2>4. Within(old(t), load[t].spent + 1)
      <3>1. CASE load[t].pc = "store" BY <2>1, <3>1, Outdates
      <3>2. CASE load[t].pc = "query" BY <2>1, <3>2 DEF Within
      <3> QED BY <2>1, <3>1, <3>2
    <2> HIDE DEF old
    <2>5. /\ l(t) \in Load /\ l(t).pc = load[t].pc
          /\ l(t).spent = load[t].spent + 1 /\ l(t).old = old(t)
      BY <2>1, <2>2, <2>3 DEF Load
    <2> HIDE DEF l
    <2> QED BY <2>3, <2>4, <2>5
  <1>5. \A c \in Cache : /\ e(c) \in {Empty} \cup Entry
                         /\ e(c) # Empty =>
                              /\ e(c).left \in -Slow - 1..TTL[c]
                              /\ Within(e(c).old, TTL[c] - e(c).left + IF c = "cohort" THEN 0 ELSE Slow)
    <2> SUFFICES ASSUME NEW c \in Cache, entry[c] # Empty, entry[c].left >= 0
                 PROVE  /\ e(c) \in Entry
                        /\ e(c).left \in -Slow - 1..TTL[c]
                        /\ Within(e(c).old, TTL[c] - e(c).left + IF c = "cohort" THEN 0 ELSE Slow)
      <3>1. ASSUME NEW c \in Cache, entry[c] = Empty \/ ~ (entry[c].left >= 0)
            PROVE  e(c) = entry[c]
        <4>1. CASE entry[c] = Empty BY <4>1
        <4>2. CASE entry[c] # Empty /\ ~ (entry[c].left >= 0)
          <5>1. entry[c].left \in Int BY <4>2, EntryStays DEF Entry
          <5> QED BY <4>2, <5>1
        <4> QED BY <3>1, <4>1, <4>2
      <3> HIDE DEF e
      <3> QED BY <3>1, EntryStays
    <2> DEFINE n == TTL[c] - entry[c].left + IF c = "cohort" THEN 0 ELSE Slow
    <2>1. /\ entry[c] \in Entry /\ entry[c].old \in Age /\ entry[c].left \in Int
          /\ entry[c].left \in -Slow - 1..TTL[c] /\ Within(entry[c].old, n)
      BY EntryStays DEF Entry
    <2>2. TTL[c] \in Nat BY DEF CacheAssumption
    <2>3. n \in Int /\ TTL[c] - (entry[c].left - 1) + (IF c = "cohort" THEN 0 ELSE Slow) = n + 1
      BY <1>1, <2>1, <2>2
    <2>4. entry[c].left - 1 \in Int /\ entry[c].left - 1 \in -Slow - 1..TTL[c] BY <1>1, <2>1, <2>2
    <2>5. Ageing(entry[c].old) \in Age /\ Within(Ageing(entry[c].old), n + 1)
      <3> HIDE DEF n
      <3> QED BY <2>1, <2>3, Outdates
    <2>6. e(c) = [old |-> Ageing(entry[c].old), left |-> entry[c].left - 1] BY <2>1
    <2>7. e(c) \in Entry /\ e(c).left = entry[c].left - 1 /\ e(c).old = Ageing(entry[c].old)
      BY <2>4, <2>5, <2>6 DEF Entry
    <2> HIDE DEF e, n
    <2> QED BY <2>3, <2>4, <2>5, <2>7
  <1> HIDE DEF l, e
  <1>6. TimedTypeOK' BY <1>1, <1>2, <1>3, <1>4, <1>5 DEF TimedTypeOK
  <1>7. LoadsYoung' BY <1>2, <1>4 DEF LoadsYoung
  <1>8. EntriesYoung' BY <1>3, <1>5 DEF EntriesYoung
  <1>9. CohortFresh' /\ FastFresh' BY <1>1 DEF CohortFresh, FastFresh, Outdated
  <1> QED BY <1>6, <1>7, <1>8, <1>9 DEF TimedInv

LEMMA TimedSteps ==
  ASSUME CacheAssumption, TimedInv, [TimedNext]_timedVars
  PROVE  TimedInv'
  <1>1. CASE UNCHANGED timedVars
    BY <1>1 DEF timedVars, TimedInv, TimedTypeOK, LoadsYoung, EntriesYoung, CohortFresh,
                FastFresh, Outdated
  <1> QED BY <1>1, LookupKeeps, MissKeeps, QueryKeeps, StoreKeeps, SaveKeeps, TickKeeps
          DEF TimedNext

\* For every time to live and every load that takes at most Slow, no caller gets
\* embeddings of a class replaced a time to live ago, and preferences and period
\* times are outdated for their time to live and the time of a load at most,
\* whatever stores follow whatever saves.
THEOREM CachesSafe ==
  ASSUME CacheAssumption PROVE TimedSpec => []CachesFresh
  <1>1. TimedInit => TimedInv BY TimedStarts
  <1>2. TimedInv /\ [TimedNext]_timedVars => TimedInv' BY TimedSteps
  <1>3. TimedInv => CachesFresh BY DEF TimedInv, CachesFresh
  <1> QED BY <1>1, <1>2, <1>3, PTL DEF TimedSpec

-----------------------------------------------------------------------------
(***************************************************************************)
(* The connection pool.                                                    *)
(***************************************************************************)
PoolRecord == [idle : SUBSET Conn, used : SUBSET Conn, closed : BOOLEAN]

\* The pool keeps its sizes: this is what leaves a number for a new connection.
Fits ==
    /\ pool.idle \cap pool.used = {}
    /\ Cardinality(pool.idle) <= MinConn
    /\ Cardinality(pool.idle \cup pool.used) <= MaxConn
    /\ pool.closed => pool.idle = {} /\ pool.used = {}

\* Whoever looks for a connection has none.
Seeking(t) == pc[t] \in {"get", "direct", "init", "build", "last"}
SeekersHaveNone == \A t \in Worker : Seeking(t) => local[t] = NoConn

\* A statement runs at most twice, the second time for an answer that was lost.
Counted ==
    \A t \in Worker :
        /\ pc[t] = "run" => goal[t] \in {"execute", "again"}
        /\ goal[t] = "close" => pc[t] \in {"free", "return", "forget"}
        /\ goal[t] = "execute" /\ pc[t] \notin {"free", "return", "forget"} => ran[t] = 0
        /\ goal[t] = "execute" /\ pc[t] \in {"return", "forget"} => ran[t] <= 1
        /\ goal[t] = "again" /\ pc[t] # "free" => ran[t] <= 1

PoolInv == PoolTypeOK /\ Fits /\ SeekersHaveNone /\ Counted /\ OneUser

-----------------------------------------------------------------------------
\* Finite sets of numbers.
LEMMA LeastIn ==
  ASSUME NEW S \in SUBSET Nat, S # {}
  PROVE  Least(S) \in S /\ \A d \in S : Least(S) <= d
  <1> DEFINE R == {r \in Nat \X Nat : r[1] < r[2]}
  <1>1. \A x \in Nat, y \in Nat : <<x, y>> \in R <=> x < y OBVIOUS
  <1>2. IsWellFoundedOn(R, Nat) BY NatLessThanWellFounded DEF OpToRel
  <1> HIDE DEF R
  <1>3. PICK x \in S : \A y \in S : ~ (<<y, x>> \in R) BY <1>2, WFMin
  <1>4. \A d \in S : x <= d
    <2> SUFFICES ASSUME NEW d \in S PROVE x <= d
      OBVIOUS
    <2>1. x \in Nat /\ d \in Nat OBVIOUS
    <2>2. ~ (d < x) BY <1>1, <1>3, <2>1
    <2> QED BY <2>1, <2>2
  <1> QED BY <1>4 DEF Least

LEMMA ConnFinite ==
  ASSUME PoolAssumption
  PROVE  /\ IsFiniteSet(Conn) /\ Conn \subseteq Nat \ {0}
         /\ Cardinality(Worker) \in Nat
         /\ Cardinality(Conn) = MinConn + MaxConn + 2 * Cardinality(Worker)
  <1>1. Cardinality(Worker) \in Nat BY FS_CardinalityType DEF PoolAssumption
  <1>2. MinConn + MaxConn + 2 * Cardinality(Worker) \in Nat BY <1>1 DEF PoolAssumption
  <1>3. /\ IsFiniteSet(1 .. MinConn + MaxConn + 2 * Cardinality(Worker))
        /\ Cardinality(1 .. MinConn + MaxConn + 2 * Cardinality(Worker)) =
             MinConn + MaxConn + 2 * Cardinality(Worker)
    BY <1>2, FS_Interval
  <1> QED BY <1>1, <1>2, <1>3 DEF Conn

LEMMA PoolFinite ==
  ASSUME PoolAssumption, PoolTypeOK
  PROVE  /\ IsFiniteSet(pool.idle) /\ IsFiniteSet(pool.used)
         /\ IsFiniteSet(pool.idle \cup pool.used)
         /\ Cardinality(pool.idle) \in Nat /\ Cardinality(pool.used) \in Nat
         /\ Cardinality(pool.idle \cup pool.used) \in Nat
  <1>1. pool.idle \in SUBSET Conn /\ pool.used \in SUBSET Conn BY DEF PoolTypeOK
  <1>2. IsFiniteSet(pool.idle) /\ IsFiniteSet(pool.used) BY <1>1, ConnFinite, FS_Subset
  <1>3. IsFiniteSet(pool.idle \cup pool.used) BY <1>2, FS_Union
  <1> QED BY <1>2, <1>3, FS_CardinalityType

\* There are no more connections held than threads.
LEMMA HeldFew ==
  ASSUME PoolAssumption, PoolTypeOK
  PROVE  IsFiniteSet(Held) /\ Cardinality(Held) \in Nat /\ Cardinality(Held) <= Cardinality(Worker)
  <1> DEFINE T == {local[t] : t \in Worker}
  <1>1. local \in Surjection(Worker, T) BY DEF PoolTypeOK, Surjection
  <1>2. IsFiniteSet(T) /\ Cardinality(T) <= Cardinality(Worker)
    BY <1>1, FS_Surjection DEF PoolAssumption
  <1>3. Held \in SUBSET T BY DEF Held
  <1>4. IsFiniteSet(Held) /\ Cardinality(Held) <= Cardinality(T) BY <1>2, <1>3, FS_Subset
  <1>5. /\ Cardinality(Held) \in Nat /\ Cardinality(T) \in Nat /\ Cardinality(Worker) \in Nat
    BY <1>2, <1>4, FS_CardinalityType DEF PoolAssumption
  <1> QED BY <1>2, <1>4, <1>5

\* A number is always left for a new connection.
LEMMA FreshExists ==
  ASSUME PoolAssumption, PoolTypeOK, Fits, NEW t \in Worker
  PROVE  /\ Least(Fresh) \in Conn
         /\ Least(Fresh) \notin pool.idle \cup pool.used \cup Held
  <1> DEFINE Busy == (pool.idle \cup pool.used) \cup Held
  <1>1. /\ IsFiniteSet(Busy)
        /\ Cardinality(Busy) = Cardinality(pool.idle \cup pool.used) + Cardinality(Held)
                                 - Cardinality((pool.idle \cup pool.used) \cap Held)
    BY PoolFinite, HeldFew, FS_Union
  <1>2. Cardinality((pool.idle \cup pool.used) \cap Held) \in Nat /\ Cardinality(Busy) \in Nat
    BY <1>1, PoolFinite, FS_Intersection, FS_CardinalityType
  <1>3. Cardinality(Worker) >= 1
    BY FS_EmptySet, FS_CardinalityType DEF PoolAssumption
  <1>4. Cardinality(Busy) < Cardinality(Conn)
    <2>1. MinConn \in Nat /\ MaxConn \in Nat BY DEF PoolAssumption
    <2>2. Cardinality(pool.idle \cup pool.used) <= MaxConn BY DEF Fits
    <2> HIDE DEF Busy
    <2> QED BY <1>1, <1>2, <1>3, <2>1, <2>2, PoolFinite, HeldFew, ConnFinite
  <1>5. ~ (Conn \subseteq Busy)
    <2>1. Conn \in SUBSET Busy => Cardinality(Conn) <= Cardinality(Busy) BY <1>1, FS_Subset
    <2>2. Cardinality(Conn) \in Nat BY ConnFinite, FS_CardinalityType
    <2> HIDE DEF Busy
    <2> QED BY <1>2, <1>4, <2>1, <2>2
  <1>6. Fresh # {} BY <1>5 DEF Fresh
  <1>7. Fresh \in SUBSET Nat BY ConnFinite DEF Fresh
  <1>8. Least(Fresh) \in Fresh BY <1>6, <1>7, LeastIn
  <1> QED BY <1>8 DEF Fresh

-----------------------------------------------------------------------------
\* What the calls of the pool do.
LEMMA PutEffect ==
  ASSUME PoolAssumption, PoolTypeOK, Fits, NEW c \in Conn \cup {NoConn}
  PROVE  /\ Put(c) \in PoolRecord
         /\ Put(c).idle = IF Kept(c) THEN pool.idle \cup {c} ELSE pool.idle
         /\ Put(c).used = pool.used \ {c}
         /\ Put(c).closed = pool.closed
         /\ Kept(c) => c \in pool.used /\ c \in open /\ ~pool.closed
         /\ Cardinality(Put(c).idle) <= MinConn
         /\ Cardinality(Put(c).idle \cup Put(c).used) <= MaxConn
  <1>1. c \in pool.used => c \in Conn BY DEF PoolTypeOK
  <1>2. Kept(c) => c \in pool.used /\ c \in open /\ ~pool.closed BY DEF Kept, Keyed
  <1>3. pool.closed => pool.used \ {c} = pool.used BY DEF Fits
  <1>4. /\ Put(c) \in PoolRecord
        /\ Put(c).idle = IF Kept(c) THEN pool.idle \cup {c} ELSE pool.idle
        /\ Put(c).used = pool.used \ {c}
        /\ Put(c).closed = pool.closed
    BY <1>1, <1>2, <1>3 DEF PoolTypeOK, PoolRecord, Put
  <1>5. Cardinality(Put(c).idle) <= MinConn
    <2>1. CASE Kept(c)
      <3>1. Cardinality(pool.idle) < MinConn BY <2>1 DEF Kept
      <3>2. Cardinality(pool.idle \cup {c}) <= Cardinality(pool.idle) + 1
        <4>1. Cardinality(pool.idle \cup {c}) =
                IF c \in pool.idle THEN Cardinality(pool.idle) ELSE Cardinality(pool.idle) + 1
          BY PoolFinite, FS_AddElement
        <4> QED BY <4>1, PoolFinite
      <3>3. Cardinality(pool.idle \cup {c}) \in Nat
        BY PoolFinite, FS_AddElement, FS_CardinalityType
      <3> QED BY <1>4, <2>1, <3>1, <3>2, <3>3, PoolFinite DEF PoolAssumption
    <2>2. CASE ~ Kept(c) BY <1>4, <2>2 DEF Fits
    <2> QED BY <2>1, <2>2
  <1>6. Cardinality(Put(c).idle \cup Put(c).used) <= MaxConn
    <2>1. Put(c).idle \cup Put(c).used \in SUBSET (pool.idle \cup pool.used)
      BY <1>2, <1>4
    <2>2. /\ IsFiniteSet(Put(c).idle \cup Put(c).used)
          /\ Cardinality(Put(c).idle \cup Put(c).used) <= Cardinality(pool.idle \cup pool.used)
      BY <2>1, PoolFinite, FS_Subset
    <2>3. Cardinality(Put(c).idle \cup Put(c).used) \in Nat BY <2>2, FS_CardinalityType
    <2> QED BY <2>2, <2>3, PoolFinite DEF Fits, PoolAssumption
  <1> QED BY <1>2, <1>4, <1>5, <1>6

\* A connection that is given out was idle, or is new and nobody else's.
LEMMA GetEffect ==
  ASSUME PoolAssumption, PoolTypeOK, Fits, NEW t \in Worker, CanGet, GetConn(t)
  PROVE  \E c \in Conn :
           /\ local' = [local EXCEPT ![t] = c]
           /\ direct' = [direct EXCEPT ![t] = FALSE]
           /\ pool' \in PoolRecord
           /\ pool'.idle = pool.idle \ {c} /\ pool'.used = pool.used \cup {c}
           /\ ~pool'.closed
           /\ \/ c \in pool.idle /\ open' = open /\ alive' = alive
              \/ /\ c \notin pool.idle \cup pool.used \cup Held
                 /\ open' = open \cup {c} /\ alive' = alive \cup {c}
           /\ Fits'
  <1>1. CASE pool.idle # {}
    <2>1. PICK c \in pool.idle :
             /\ pool' = [pool EXCEPT !.idle = @ \ {c}, !.used = @ \cup {c}]
             /\ local' = [local EXCEPT ![t] = c]
      BY <1>1 DEF GetConn
    <2>2. c \in Conn BY DEF PoolTypeOK
    <2>3. /\ pool' \in PoolRecord
          /\ pool'.idle = pool.idle \ {c} /\ pool'.used = pool.used \cup {c}
          /\ ~pool'.closed
      BY <2>1, <2>2 DEF PoolTypeOK, PoolRecord, CanGet
    <2>4. Fits'
      <3>1. pool'.idle \in SUBSET pool.idle
            /\ pool'.idle \cup pool'.used = pool.idle \cup pool.used
            /\ pool'.idle \cap pool'.used = {}
        BY <2>3 DEF Fits
      <3>2. Cardinality(pool'.idle) <= Cardinality(pool.idle) /\ IsFiniteSet(pool'.idle)
        BY <3>1, PoolFinite, FS_Subset
      <3>3. Cardinality(pool'.idle) \in Nat BY <3>2, FS_CardinalityType
      <3>4. Cardinality(pool'.idle) <= MinConn BY <3>2, <3>3, PoolFinite DEF Fits, PoolAssumption
      <3>5. Cardinality(pool'.idle \cup pool'.used) <= MaxConn BY <3>1 DEF Fits
      <3> QED BY <2>3, <3>1, <3>4, <3>5 DEF Fits
    <2> QED BY <1>1, <2>1, <2>2, <2>3, <2>4 DEF GetConn
  <1>2. CASE pool.idle = {}
    <2> DEFINE c == Least(Fresh)
    <2>1. c \in Conn /\ c \notin pool.idle \cup pool.used \cup Held BY FreshExists
    <2>2. /\ pool' = [pool EXCEPT !.used = @ \cup {c}]
          /\ local' = [local EXCEPT ![t] = c]
          /\ open' = open \cup {c} /\ alive' = alive \cup {c}
          /\ direct' = [direct EXCEPT ![t] = FALSE]
      BY <1>2 DEF GetConn
    <2> HIDE DEF c
    <2>3. /\ pool' \in PoolRecord
          /\ pool'.idle = pool.idle \ {c} /\ pool'.used = pool.used \cup {c}
          /\ ~pool'.closed
      BY <1>2, <2>1, <2>2 DEF PoolTypeOK, PoolRecord, CanGet
    <2>4. Fits'
      <3>1. pool'.idle = {} /\ pool'.idle \cup pool'.used = pool.used \cup {c}
        BY <1>2, <2>3
      <3>2. Cardinality(pool.used) # MaxConn BY <1>2 DEF CanGet
      <3>3. Cardinality(pool.used) <= MaxConn
        <4>1. pool.idle \cup pool.used = pool.used BY <1>2
        <4> QED BY <4>1 DEF Fits
      <3>4. Cardinality(pool.used \cup {c}) = Cardinality(pool.used) + 1
        BY <2>1, PoolFinite, FS_AddElement
      <3>5. Cardinality(pool.used \cup {c}) <= MaxConn
        BY <3>2, <3>3, <3>4, PoolFinite DEF PoolAssumption
      <3>6. Cardinality(pool'.idle) <= MinConn
        BY <3>1, FS_EmptySet DEF PoolAssumption
      <3> QED BY <2>3, <3>1, <3>5, <3>6 DEF Fits
    <2> QED BY <2>1, <2>2, <2>3, <2>4
  <1> QED BY <1>1, <1>2

-----------------------------------------------------------------------------
\* The inductive invariant.
LEMMA InitInv == PoolAssumption /\ PoolInit => PoolInv
  <1> SUFFICES ASSUME PoolAssumption, PoolInit PROVE PoolInv
    OBVIOUS
  <1>1. 1 .. MinConn \subseteq Conn
    BY FS_CardinalityType DEF PoolAssumption, Conn
  <1>2. PoolTypeOK
    <2>1. pool \in [idle : SUBSET Conn, used : SUBSET Conn, closed : BOOLEAN]
      BY <1>1 DEF PoolInit, Opened
    <2>2. outages \in 0 .. MaxOutages BY DEF PoolInit, PoolAssumption
    <2>3. try \in [Worker -> 1 .. Tries] BY DEF PoolInit, Tries
    <2>4. open \subseteq Conn /\ alive \subseteq open BY <1>1 DEF PoolInit
    <2>5. /\ local \in [Worker -> Conn \cup {NoConn}] /\ rows \in [Worker -> Conn \cup {NoConn}]
          /\ ran \in [Worker -> 0 .. 2]
          /\ goal \in [Worker -> {"execute", "again", "fetch", "close"}]
      BY DEF PoolInit
    <2>6. pc \in [Worker -> {"free", "connect", "get", "direct", "init", "build", "last",
                            "run", "return", "forget"}]
      BY DEF PoolInit
    <2>7. direct \in [Worker -> BOOLEAN] /\ poolLock \in BOOLEAN /\ up \in BOOLEAN
      BY DEF PoolInit
    <2> QED BY <2>1, <2>2, <2>3, <2>4, <2>5, <2>6, <2>7 DEF PoolTypeOK
  <1>3. Fits
    <2>1. IsFiniteSet(1 .. MinConn) /\ Cardinality(1 .. MinConn) = MinConn
      BY FS_Interval DEF PoolAssumption
    <2>2. pool.idle = 1 .. MinConn /\ pool.used = {} /\ pool.closed = FALSE
      BY DEF PoolInit, Opened
    <2>3. (1 .. MinConn) \cup {} = 1 .. MinConn OBVIOUS
    <2> QED BY <2>1, <2>2, <2>3 DEF Fits, PoolAssumption
  <1>4. SeekersHaveNone BY DEF PoolInit, SeekersHaveNone, Seeking
  <1>5. Counted BY DEF PoolInit, Counted
  <1>6. OneUser BY DEF PoolInit, OneUser, Holding
  <1> QED BY <1>2, <1>3, <1>4, <1>5, <1>6 DEF PoolInv

\* Steps that leave pool and threads' connections alone.
Calm ==
    \/ \E t \in Worker :
          \/ Reuse(t) \/ GetFails(t) \/ DirectFails(t) \/ Execute(t) \/ Run(t) \/ RunBroken(t)
          \/ RunRefused(t) \/ RunUnheard(t) \/ Fetch(t) \/ Close(t)
    \/ Outage \/ Restored

LEMMA CalmInv == ASSUME PoolAssumption, PoolInv, Calm PROVE PoolInv'
  <1>0. PoolTypeOK /\ Fits /\ SeekersHaveNone /\ Counted /\ OneUser BY DEF PoolInv
  <1>1. pool' = pool /\ local' = local /\ direct' = direct
    BY DEF Calm, Reuse, GetFails, DirectFails, Execute, Run, RunBroken, RunRefused, RunUnheard,
           Fetch, Close, Outage, Restored
  <1>2. Fits' BY <1>0, <1>1 DEF Fits
  <1>3. PoolTypeOK'
    <2>1. ASSUME NEW t \in Worker, Reuse(t) \/ GetFails(t) \/ DirectFails(t)
          PROVE  PoolTypeOK'
      BY <1>0, <2>1 DEF Reuse, GetFails, DirectFails, Connected, PoolTypeOK, Tries
    <2>2. ASSUME NEW t \in Worker, Execute(t) \/ Fetch(t) \/ Close(t)
          PROVE  PoolTypeOK'
      BY <1>0, <2>2 DEF Execute, Fetch, Close, PoolTypeOK
    <2>3. ASSUME NEW t \in Worker, Run(t) \/ RunUnheard(t)
          PROVE  PoolTypeOK'
      <3>1. ran[t] + 1 \in 0 .. 2 BY <1>0, <2>3 DEF Counted, PoolTypeOK, Run, RunUnheard
      <3> QED BY <1>0, <2>3, <3>1 DEF Run, RunUnheard, Failed, PoolTypeOK
    <2>4. ASSUME NEW t \in Worker, RunBroken(t) \/ RunRefused(t)
          PROVE  PoolTypeOK'
      BY <1>0, <2>4 DEF RunBroken, RunRefused, Failed, PoolTypeOK
    <2>5. CASE Outage \/ Restored
      <3>1. outages' \in 0 .. MaxOutages
        BY <1>0, <2>5 DEF Outage, Restored, PoolTypeOK, PoolAssumption
      <3> QED BY <1>0, <2>5, <3>1 DEF Outage, Restored, PoolTypeOK
    <2> QED BY <2>1, <2>2, <2>3, <2>4, <2>5 DEF Calm
  <1>4. SeekersHaveNone'
    <2>1. \A t \in Worker : Seeking(t)' => Seeking(t)
      BY <1>0 DEF PoolTypeOK, Seeking, Connected, Failed, Calm, Reuse, GetFails, DirectFails, Execute,
                  Run, RunBroken, RunRefused, RunUnheard, Fetch, Close, Outage, Restored
    <2> QED BY <1>0, <1>1, <2>1 DEF SeekersHaveNone
  <1>5. Counted'
    <2>1. ASSUME NEW t \in Worker, Reuse(t) \/ GetFails(t) \/ DirectFails(t)
          PROVE  Counted'
      BY <1>0, <2>1 DEF Reuse, GetFails, DirectFails, Connected, PoolTypeOK, Counted
    <2>2. ASSUME NEW t \in Worker, Execute(t) \/ Fetch(t) \/ Close(t)
          PROVE  Counted'
      BY <1>0, <2>2 DEF Execute, Fetch, Close, PoolTypeOK, Counted
    <2>3. ASSUME NEW t \in Worker, Run(t) \/ RunUnheard(t)
          PROVE  Counted'
      BY <1>0, <2>3 DEF Run, RunUnheard, Failed, PoolTypeOK, Counted
    <2>4. ASSUME NEW t \in Worker, RunBroken(t) \/ RunRefused(t)
          PROVE  Counted'
      BY <1>0, <2>4 DEF RunBroken, RunRefused, Failed, PoolTypeOK, Counted
    <2>5. CASE Outage \/ Restored
      BY <1>0, <2>5 DEF Outage, Restored, Counted
    <2> QED BY <2>1, <2>2, <2>3, <2>4, <2>5 DEF Calm
  <1>6. OneUser'
    <2>1. \A t \in Worker : pc[t] = "forget" => pc'[t] = "forget"
      BY <1>0 DEF PoolTypeOK, Connected, Failed, Calm, Reuse, GetFails, DirectFails, Execute,
                  Run, RunBroken, RunRefused, RunUnheard, Fetch, Close, Outage, Restored
    <2>2. Holding' \subseteq Holding BY <1>1, <2>1 DEF Holding
    <2> QED BY <1>0, <1>1, <2>2 DEF OneUser
  <1> QED BY <1>2, <1>3, <1>4, <1>5, <1>6 DEF PoolInv

\* A thread is given a connection: by the pool, or by the server directly.
GivenTo(t) ==
    \/ Get(t) \/ Direct(t)
    \/ LastGet(t) /\ CanGet

LEMMA GivenEffect ==
  ASSUME PoolAssumption, PoolInv, NEW t \in Worker, GivenTo(t)
  PROVE  \E c \in Conn :
           /\ local' = [local EXCEPT ![t] = c]
           /\ pc' = [pc EXCEPT ![t] = Connected(t)]
           /\ pool' \in PoolRecord /\ Fits'
           /\ pool'.idle = pool.idle \ {c}
           /\ \/ c \in pool.idle
              \/ c \notin pool.idle \cup pool.used \cup Held
           /\ \/ open' = open /\ alive' = alive
              \/ open' = open \cup {c} /\ alive' = alive \cup {c}
           /\ direct' \in [Worker -> BOOLEAN]
           /\ \A u \in Worker \ {t} : direct'[u] = direct[u]
           /\ pool'.used \subseteq pool.used \cup {c}
           /\ direct'[t] => c \notin pool'.used
           /\ pool'.closed = pool.closed
           /\ Seeking(t) /\ pc[t] # "build"
           /\ UNCHANGED <<goal, try, ran, rows, poolLock, up, outages>>
  <1>0. PoolTypeOK /\ Fits BY DEF PoolInv
  <1>1. CASE Get(t) \/ (LastGet(t) /\ CanGet)
    <2>1. GetConn(t) /\ CanGet BY <1>1 DEF Get, LastGet
    <2>2. PICK c \in Conn :
            /\ local' = [local EXCEPT ![t] = c]
            /\ direct' = [direct EXCEPT ![t] = FALSE]
            /\ pool' \in PoolRecord
            /\ pool'.idle = pool.idle \ {c} /\ pool'.used = pool.used \cup {c}
            /\ ~pool'.closed
            /\ \/ c \in pool.idle /\ open' = open /\ alive' = alive
               \/ /\ c \notin pool.idle \cup pool.used \cup Held
                  /\ open' = open \cup {c} /\ alive' = alive \cup {c}
            /\ Fits'
      BY <1>0, <2>1, GetEffect
    <2>3. direct' \in [Worker -> BOOLEAN] BY <1>0, <2>2 DEF PoolTypeOK
    <2>4. Seeking(t) /\ pc[t] # "build" BY <1>1 DEF Get, LastGet, Seeking
    <2>5. pc' = [pc EXCEPT ![t] = Connected(t)] /\ UNCHANGED <<goal, try, ran, rows, poolLock, up, outages>>
      BY <1>1 DEF Get, LastGet
    <2>6. \/ c \in pool.idle
          \/ c \notin pool.idle \cup pool.used \cup Held
      BY <2>2
    <2>7. \/ open' = open /\ alive' = alive
          \/ open' = open \cup {c} /\ alive' = alive \cup {c}
      BY <2>2
    <2>8. /\ \A u \in Worker \ {t} : direct'[u] = direct[u]
          /\ direct'[t] = FALSE
          /\ pool'.closed = pool.closed
      BY <1>0, <2>1, <2>2 DEF PoolTypeOK, PoolRecord, CanGet
    <2> QED BY <2>2, <2>3, <2>4, <2>5, <2>6, <2>7, <2>8
  <1>2. CASE Direct(t)
    <2> DEFINE c == Least(Fresh)
    <2>1. c \in Conn /\ c \notin pool.idle \cup pool.used \cup Held BY <1>0, FreshExists
    <2>2. /\ local' = [local EXCEPT ![t] = c]
          /\ open' = open \cup {c} /\ alive' = alive \cup {c}
          /\ direct' = [direct EXCEPT ![t] = TRUE]
          /\ pc' = [pc EXCEPT ![t] = Connected(t)]
          /\ pc[t] = "direct"
          /\ UNCHANGED <<pool, goal, try, ran, rows, poolLock, up, outages>>
      BY <1>2 DEF Direct
    <2> HIDE DEF c
    <2>3. pool' \in PoolRecord /\ Fits' BY <1>0, <2>2 DEF PoolTypeOK, PoolRecord, Fits
    <2>4. pool'.idle = pool.idle \ {c} BY <2>1, <2>2
    <2>5. direct' \in [Worker -> BOOLEAN] BY <1>0, <2>2 DEF PoolTypeOK
    <2>6. Seeking(t) /\ pc[t] # "build" BY <2>2 DEF Seeking
    <2>7. /\ \A u \in Worker \ {t} : direct'[u] = direct[u]
          /\ pool'.used \subseteq pool.used \cup {c} /\ c \notin pool'.used
          /\ pool'.closed = pool.closed
      BY <1>0, <2>1, <2>2 DEF PoolTypeOK
    <2> QED BY <2>1, <2>2, <2>3, <2>4, <2>5, <2>6, <2>7
  <1> QED BY <1>1, <1>2 DEF GivenTo

LEMMA GivenInv == ASSUME PoolAssumption, PoolInv, NEW t \in Worker, GivenTo(t) PROVE PoolInv'
  <1>0. PoolTypeOK /\ Fits /\ SeekersHaveNone /\ Counted /\ OneUser BY DEF PoolInv
  <1>1. PICK c \in Conn :
           /\ local' = [local EXCEPT ![t] = c]
           /\ pc' = [pc EXCEPT ![t] = Connected(t)]
           /\ pool' \in PoolRecord /\ Fits'
           /\ pool'.idle = pool.idle \ {c}
           /\ \/ c \in pool.idle
              \/ c \notin pool.idle \cup pool.used \cup Held
           /\ \/ open' = open /\ alive' = alive
              \/ open' = open \cup {c} /\ alive' = alive \cup {c}
           /\ direct' \in [Worker -> BOOLEAN]
           /\ \A u \in Worker \ {t} : direct'[u] = direct[u]
           /\ pool'.used \subseteq pool.used \cup {c}
           /\ direct'[t] => c \notin pool'.used
           /\ pool'.closed = pool.closed
           /\ Seeking(t) /\ pc[t] # "build"
           /\ UNCHANGED <<goal, try, ran, rows, poolLock, up, outages>>
    BY GivenEffect
  <1>2. PoolTypeOK'
    BY <1>0, <1>1 DEF PoolTypeOK, PoolRecord, Connected
  <1>3. SeekersHaveNone'
    BY <1>0, <1>1 DEF PoolTypeOK, SeekersHaveNone, Seeking, Connected
  <1>4. Counted'
    BY <1>0, <1>1 DEF PoolTypeOK, Counted, Seeking, Connected
  <1>5. OneUser'
    <2>1. Holding' \subseteq Holding \cup {t} BY <1>0, <1>1 DEF Holding, PoolTypeOK
    <2>2. \A u \in Holding' \ {t} : local'[u] = local[u] /\ u \in Holding
      BY <1>0, <1>1, <2>1 DEF PoolTypeOK, Holding
    <2>3. \A u \in Holding' \ {t} : local[u] \notin pool.idle /\ local[u] \in Held
      BY <1>0, <2>2 DEF OneUser, Holding, Held
    <2>4. \A u \in Holding' \ {t} : local'[u] # c BY <1>1, <2>2, <2>3
    <2>5. local'[t] = c BY <1>0, <1>1 DEF PoolTypeOK
    <2>6. \A u \in Holding' : local'[u] \notin pool'.idle BY <1>1, <2>2, <2>3, <2>5
    <2>7. \A u, v \in Holding' : u # v => local'[u] # local'[v]
      BY <1>0, <2>2, <2>4, <2>5 DEF OneUser
    <2> QED BY <2>6, <2>7 DEF OneUser
  <1> QED BY <1>1, <1>2, <1>3, <1>4, <1>5 DEF PoolInv

\* A thread gives its connection up: to the pool, or to nobody.
Releases(t) == Discard(t) \/ Return(t) \/ Forget(t) \/ ThreadEnds(t)

LEMMA PutHolds ==
  ASSUME PoolAssumption, PoolInv, NEW t \in Worker, Discard(t) \/ Return(t)
  PROVE  /\ pool' \in PoolRecord /\ Fits'
         /\ pool'.closed = pool.closed
         /\ pool'.idle \subseteq pool.idle \cup {local[t]}
         /\ pool'.used \subseteq pool.used
         /\ ~direct[t] => pool'.used = pool.used \ {local[t]}
  <1>0. PoolTypeOK /\ Fits BY DEF PoolInv
  <1>1. local[t] \in Conn \cup {NoConn} BY <1>0 DEF PoolTypeOK
  <1>2. CASE direct[t]
    <2>1. pool' = pool BY <1>2 DEF Discard, Return
    <2> QED BY <1>0, <1>2, <2>1 DEF PoolTypeOK, PoolRecord, Fits
  <1>3. CASE ~direct[t]
    <2> DEFINE p == Put(local[t])
    <2>1. pool' = p BY <1>3 DEF Discard, Return
    <2>2. /\ p \in PoolRecord
          /\ p.idle = IF Kept(local[t]) THEN pool.idle \cup {local[t]} ELSE pool.idle
          /\ p.used = pool.used \ {local[t]}
          /\ p.closed = pool.closed
          /\ Kept(local[t]) => local[t] \in pool.used /\ local[t] \in open /\ ~pool.closed
          /\ Cardinality(p.idle) <= MinConn
          /\ Cardinality(p.idle \cup p.used) <= MaxConn
      BY <1>0, <1>1, PutEffect
    <2> HIDE DEF p
    <2>3. p.idle \cap p.used = {} BY <1>0, <2>2 DEF Fits
    <2>4. p.closed => p.idle = {} /\ p.used = {} BY <1>0, <2>2 DEF Fits
    <2>5. Fits' BY <2>1, <2>2, <2>3, <2>4 DEF Fits
    <2> QED BY <1>3, <2>1, <2>2, <2>5
  <1> QED BY <1>2, <1>3

LEMMA ReleaseInv == ASSUME PoolAssumption, PoolInv, NEW t \in Worker, Releases(t) PROVE PoolInv'
  <1>0. PoolTypeOK /\ Fits /\ SeekersHaveNone /\ Counted /\ OneUser BY DEF PoolInv
  <1>1. CASE Discard(t)
    <2>1. /\ pool' \in PoolRecord /\ Fits' /\ pool'.idle \subseteq pool.idle
      <3>1. pool'.idle \subseteq pool.idle
        BY <1>1 DEF Discard, Put, Kept, Keyed
      <3> QED BY <1>1, <3>1, PutHolds
    <2>2. PoolTypeOK' BY <1>0, <1>1, <2>1 DEF Discard, PoolTypeOK, PoolRecord, Tries
    <2>3. SeekersHaveNone' BY <1>0, <1>1 DEF Discard, PoolTypeOK, SeekersHaveNone, Seeking
    <2>4. Counted' BY <1>0, <1>1 DEF Discard, PoolTypeOK, Counted
    <2>5. Holding' \subseteq Holding /\ \A u \in Holding' : local'[u] = local[u]
      BY <1>0, <1>1 DEF Discard, PoolTypeOK, Holding
    <2>6. OneUser' BY <1>0, <2>1, <2>5 DEF OneUser
    <2> QED BY <2>1, <2>2, <2>3, <2>4, <2>6 DEF PoolInv
  <1>2. CASE Return(t)
    <2>1. /\ pool' \in PoolRecord /\ Fits'
          /\ pool'.idle \subseteq pool.idle \cup {local[t]}
      BY <1>2, PutHolds
    <2>2. PoolTypeOK' BY <1>0, <1>2, <2>1 DEF Return, PoolTypeOK, PoolRecord
    <2>3. SeekersHaveNone' BY <1>0, <1>2 DEF Return, PoolTypeOK, SeekersHaveNone, Seeking
    <2>4. Counted' BY <1>0, <1>2 DEF Return, PoolTypeOK, Counted
    <2>5. Holding' \subseteq Holding \ {t} /\ local' = local
      BY <1>0, <1>2 DEF Return, PoolTypeOK, Holding
    <2>6. \A u \in Holding' : local[u] # local[t]
      BY <1>0, <1>2, <2>5 DEF OneUser, Holding, Return
    <2>7. OneUser' BY <1>0, <2>1, <2>5, <2>6 DEF OneUser
    <2> QED BY <2>1, <2>2, <2>3, <2>4, <2>7 DEF PoolInv
  <1>3. CASE Forget(t) \/ ThreadEnds(t)
    <2>1. pool' = pool BY <1>3 DEF Forget, ThreadEnds
    <2>2. Fits' BY <1>0, <2>1 DEF Fits
    <2>3. PoolTypeOK' BY <1>0, <1>3 DEF Forget, ThreadEnds, PoolTypeOK
    <2>4. SeekersHaveNone'
      BY <1>0, <1>3 DEF Forget, ThreadEnds, PoolTypeOK, SeekersHaveNone, Seeking
    <2>5. Counted' BY <1>0, <1>3 DEF Forget, ThreadEnds, PoolTypeOK, Counted
    <2>6. Holding' \subseteq Holding /\ \A u \in Holding' : local'[u] = local[u]
      BY <1>0, <1>3 DEF Forget, ThreadEnds, PoolTypeOK, Holding
    <2>7. OneUser' BY <1>0, <2>1, <2>6 DEF OneUser
    <2> QED BY <2>2, <2>3, <2>4, <2>5, <2>7 DEF PoolInv
  <1> QED BY <1>1, <1>2, <1>3 DEF Releases

\* The pool is replaced, or the last attempt to get a connection fails.
Replaces(t) == CloseAll(t) \/ Build(t) \/ (LastGet(t) /\ ~CanGet)

\* What a new pool starts with.
LEMMA BuiltEffect ==
  ASSUME PoolAssumption, PoolTypeOK, NEW t \in Worker, Build(t), up
  PROVE  \E new \in SUBSET Fresh :
           /\ pool' = [idle |-> new, used |-> {}, closed |-> FALSE]
           /\ open' = open \cup new /\ alive' = alive \cup new
           /\ pc' = [pc EXCEPT ![t] = "last"]
           /\ pool' \in PoolRecord /\ Fits'
  <1>1. PICK new \in SUBSET Fresh :
          /\ Cardinality(new) = MinConn
          /\ pool' = [idle |-> new, used |-> {}, closed |-> FALSE]
          /\ open' = open \cup new /\ alive' = alive \cup new
          /\ pc' = [pc EXCEPT ![t] = "last"]
    BY DEF Build
  <1>2. new \in SUBSET Conn BY DEF Fresh
  <1>3. pool'.idle = new /\ pool'.used = {} /\ pool'.closed = FALSE BY <1>1
  <1>4. pool' \in PoolRecord BY <1>1, <1>2 DEF PoolRecord
  <1>5. new \cup {} = new OBVIOUS
  <1>6. Fits' BY <1>1, <1>3, <1>5 DEF Fits, PoolAssumption
  <1> QED BY <1>1, <1>4, <1>6

LEMMA ReplaceInv == ASSUME PoolAssumption, PoolInv, NEW t \in Worker, Replaces(t) PROVE PoolInv'
  <1>0. PoolTypeOK /\ Fits /\ SeekersHaveNone /\ Counted /\ OneUser BY DEF PoolInv
  <1>1. CASE CloseAll(t)
    <2>1. pool' = [idle |-> {}, used |-> {}, closed |-> TRUE] BY <1>1 DEF CloseAll
    <2>2. Fits'
      <3>1. pool'.idle = {} /\ pool'.used = {} BY <2>1
      <3>2. pool'.idle \cup pool'.used = {} BY <3>1
      <3> QED BY <3>1, <3>2, FS_EmptySet DEF Fits, PoolAssumption
    <2>3. PoolTypeOK' BY <1>0, <1>1 DEF CloseAll, PoolTypeOK
    <2>4. SeekersHaveNone' BY <1>0, <1>1 DEF CloseAll, PoolTypeOK, SeekersHaveNone, Seeking
    <2>5. Counted' BY <1>0, <1>1 DEF CloseAll, PoolTypeOK, Counted
    <2>6. Holding' \subseteq Holding /\ local' = local
      BY <1>0, <1>1 DEF CloseAll, PoolTypeOK, Holding
    <2>7. OneUser' BY <1>0, <2>1, <2>6 DEF OneUser
    <2> QED BY <2>2, <2>3, <2>4, <2>5, <2>7 DEF PoolInv
  <1>2. CASE Build(t) /\ up
    <2>1. PICK new \in SUBSET Fresh :
            /\ pool' = [idle |-> new, used |-> {}, closed |-> FALSE]
            /\ open' = open \cup new /\ alive' = alive \cup new
            /\ pc' = [pc EXCEPT ![t] = "last"]
            /\ pool' \in PoolRecord /\ Fits'
      BY <1>0, <1>2, BuiltEffect
    <2>2. new \subseteq Conn /\ new \cap Held = {} BY DEF Fresh
    <2>3. /\ pc[t] = "build" /\ poolLock' = FALSE
          /\ UNCHANGED <<local, direct, goal, try, ran, rows, up, outages>>
      BY <1>2 DEF Build
    <2>4. PoolTypeOK' BY <1>0, <2>1, <2>2, <2>3 DEF PoolTypeOK, PoolRecord
    <2>5. SeekersHaveNone' BY <1>0, <2>1, <2>3 DEF PoolTypeOK, SeekersHaveNone, Seeking
    <2>6. Counted' BY <1>0, <2>1, <2>3 DEF PoolTypeOK, Counted
    <2>7. Holding' \subseteq Holding /\ local' = local
      BY <1>0, <2>1, <2>3 DEF PoolTypeOK, Holding
    <2>8. \A u \in Holding' : local[u] \in Held BY <2>7 DEF Holding, Held
    <2>9. OneUser' BY <1>0, <2>1, <2>2, <2>7, <2>8 DEF OneUser
    <2> QED BY <2>1, <2>4, <2>5, <2>6, <2>9 DEF PoolInv
  <1>3. CASE (Build(t) /\ ~up) \/ (LastGet(t) /\ ~CanGet)
    <2>1. /\ pc' = [pc EXCEPT ![t] = "free"]
          /\ pc[t] \in {"build", "last"}
          /\ poolLock' \in BOOLEAN
          /\ UNCHANGED <<pool, open, alive, local, direct, goal, try, ran, rows, up, outages>>
      BY <1>0, <1>3 DEF Build, LastGet, PoolTypeOK
    <2>2. Fits' BY <1>0, <2>1 DEF Fits
    <2>3. PoolTypeOK' BY <1>0, <2>1 DEF PoolTypeOK
    <2>4. SeekersHaveNone' BY <1>0, <2>1 DEF PoolTypeOK, SeekersHaveNone, Seeking
    <2>5. Counted' BY <1>0, <2>1 DEF PoolTypeOK, Counted
    <2>6. Holding' \subseteq Holding /\ local' = local
      BY <1>0, <2>1 DEF PoolTypeOK, Holding
    <2>7. OneUser' BY <1>0, <2>1, <2>6 DEF OneUser
    <2> QED BY <2>2, <2>3, <2>4, <2>5, <2>7 DEF PoolInv
  <1> QED BY <1>1, <1>2, <1>3 DEF Replaces

LEMMA NextInv == ASSUME PoolAssumption, PoolInv, [PoolNext]_poolVars PROVE PoolInv'
  <1>1. ASSUME UNCHANGED poolVars PROVE PoolInv'
    BY <1>1 DEF poolVars, PoolInv, PoolTypeOK, Fits, SeekersHaveNone, Seeking, Counted, OneUser,
                Holding
  <1>2. ASSUME PoolNext PROVE PoolInv'
    <2>1. \/ Calm
          \/ \E t \in Worker : GivenTo(t) \/ Releases(t) \/ Replaces(t)
      BY <1>2 DEF PoolNext, Calm, GivenTo, Releases, Replaces
    <2> QED BY <2>1, CalmInv, GivenInv, ReleaseInv, ReplaceInv
  <1> QED BY <1>1, <1>2

-----------------------------------------------------------------------------
\* Each thread's program counter, goal and connection stay what they can be, and
\* so does the pool (ConnectionPool of psycopg2, _get_conn, _init_pool).
THEOREM PoolTypeCorrect ==
  ASSUME PoolAssumption PROVE PoolSpec => []PoolTypeOK
  <1>1. PoolInit => PoolInv BY InitInv
  <1>2. PoolInv /\ [PoolNext]_poolVars => PoolInv' BY NextInv
  <1>3. PoolInv => PoolTypeOK BY DEF PoolInv
  <1> QED BY <1>1, <1>2, <1>3, PTL DEF PoolSpec

\* A connection has one user, through outages and pools that are replaced while
\* other threads still use connections of the old one.
THEOREM OneUserSafe ==
  ASSUME PoolAssumption PROVE PoolSpec => []OneUser
  <1>1. PoolInit => PoolInv BY InitInv
  <1>2. PoolInv /\ [PoolNext]_poolVars => PoolInv' BY NextInv
  <1>3. PoolInv => OneUser BY DEF PoolInv
  <1> QED BY <1>1, <1>2, <1>3, PTL DEF PoolSpec

-----------------------------------------------------------------------------
\* What is open or taken from the pool waits in it or is held by a thread; a
\* thread that is about to forget its connection leaves it settled, and a
\* connection of its own takes no place of the pool.
Settled(t) ==
    \/ local[t] \in pool.idle
    \/ local[t] \notin open \cup pool.used
    \/ \E u \in Holding : local[u] = local[t]

Traced ==
    /\ open \cup pool.used \subseteq pool.idle \cup Held
    /\ \A t \in Worker : pc[t] = "forget" => Settled(t)
    /\ \A t \in Holding : direct[t] => local[t] \notin pool.used
    /\ \A t \in Worker : pc[t] = "build" => poolLock /\ pool.closed
    /\ \A t, u \in Worker : pc[t] = "build" /\ pc[u] = "build" => t = u

LeakInv == PoolInv /\ Traced

LEMMA InitTraced == PoolAssumption /\ PoolInit => Traced
  BY DEF PoolInit, Opened, Traced, Holding

LEMMA CalmTraced == ASSUME PoolAssumption, LeakInv, Calm PROVE Traced'
  <1>0. PoolTypeOK /\ Traced BY DEF LeakInv, PoolInv
  <1>1. pool' = pool /\ local' = local /\ direct' = direct /\ open' \subseteq open /\ poolLock' = poolLock
    BY DEF Calm, Reuse, GetFails, DirectFails, Execute, Run, RunBroken, RunRefused, RunUnheard,
           Fetch, Close, Outage, Restored
  <1>2. \A t \in Worker : /\ pc[t] = "forget" <=> pc'[t] = "forget"
                          /\ pc'[t] = "build" => pc[t] = "build"
    BY <1>0 DEF PoolTypeOK, Connected, Failed, Calm, Reuse, GetFails, DirectFails, Execute,
                Run, RunBroken, RunRefused, RunUnheard, Fetch, Close, Outage, Restored
  <1>3. Held' = Held /\ Holding' = Holding BY <1>1, <1>2 DEF Held, Holding
  <1> QED BY <1>0, <1>1, <1>2, <1>3 DEF Traced, Settled

LEMMA GivenTraced == ASSUME PoolAssumption, LeakInv, NEW t \in Worker, GivenTo(t) PROVE Traced'
  <1>0. PoolTypeOK /\ Traced /\ SeekersHaveNone BY DEF LeakInv, PoolInv
  <1>1. PICK c \in Conn :
           /\ local' = [local EXCEPT ![t] = c]
           /\ pc' = [pc EXCEPT ![t] = Connected(t)]
           /\ pool' \in PoolRecord /\ Fits'
           /\ pool'.idle = pool.idle \ {c}
           /\ \/ c \in pool.idle
              \/ c \notin pool.idle \cup pool.used \cup Held
           /\ \/ open' = open /\ alive' = alive
              \/ open' = open \cup {c} /\ alive' = alive \cup {c}
           /\ direct' \in [Worker -> BOOLEAN]
           /\ \A u \in Worker \ {t} : direct'[u] = direct[u]
           /\ pool'.used \subseteq pool.used \cup {c}
           /\ direct'[t] => c \notin pool'.used
           /\ pool'.closed = pool.closed
           /\ Seeking(t) /\ pc[t] # "build"
           /\ UNCHANGED <<goal, try, ran, rows, poolLock, up, outages>>
    BY GivenEffect, <1>0 DEF LeakInv
  <1>2. c # NoConn BY ConnFinite DEF NoConn
  <1>3. /\ local'[t] = c /\ pc'[t] \in {"free", "run"}
        /\ \A u \in Worker \ {t} : local'[u] = local[u] /\ pc'[u] = pc[u]
    BY <1>0, <1>1 DEF PoolTypeOK, Connected
  <1>4. local[t] = NoConn BY <1>0, <1>1 DEF SeekersHaveNone
  <1>5. Held' = Held \cup {c}
    <2>1. Held \cup {c} \subseteq Held' BY <1>2, <1>3, <1>4 DEF Held
    <2>2. Held' \subseteq Held \cup {c} BY <1>3 DEF Held
    <2> QED BY <2>1, <2>2
  <1>6. Holding' = Holding \cup {t} BY <1>2, <1>3, <1>4 DEF Holding
  <1>7. open' \cup pool'.used \subseteq pool'.idle \cup Held' BY <1>0, <1>1, <1>5 DEF Traced
  <1>8. ASSUME NEW u \in Worker, pc'[u] = "forget" PROVE Settled(u)'
    <2>1. u # t /\ pc[u] = "forget" /\ local'[u] = local[u] BY <1>3, <1>8
    <2>2. Settled(u) BY <1>0, <2>1 DEF Traced
    <2>3. CASE local[u] = c BY <1>3, <1>6, <2>1, <2>3 DEF Settled
    <2>4. CASE local[u] # c
      <3>1. CASE local[u] \in pool.idle BY <1>1, <2>1, <2>4, <3>1 DEF Settled
      <3>2. CASE local[u] \notin open \cup pool.used BY <1>1, <2>1, <2>4, <3>2 DEF Settled
      <3>3. CASE \E v \in Holding : local[v] = local[u]
        <4>1. PICK v \in Holding : local[v] = local[u] BY <3>3
        <4>2. v # t /\ v \in Holding' BY <1>4, <1>6, <4>1 DEF Holding
        <4>3. local'[v] = local'[u] BY <1>3, <2>1, <4>1, <4>2 DEF Holding
        <4> QED BY <4>2, <4>3 DEF Settled
      <3> QED BY <2>2, <3>1, <3>2, <3>3 DEF Settled
    <2> QED BY <2>3, <2>4
  <1>9. ASSUME NEW u \in Holding', direct'[u] PROVE local'[u] \notin pool'.used
    <2>1. CASE u = t BY <1>1, <1>3, <1>9, <2>1
    <2>2. CASE u # t
      <3>1. u \in Holding /\ local'[u] = local[u] /\ direct[u]
        BY <1>1, <1>3, <1>6, <1>9, <2>2 DEF Holding
      <3>2. local[u] \notin pool.used BY <1>0, <3>1 DEF Traced
      <3>3. local[u] # c
        <4>1. local[u] \notin pool.idle BY <3>1 DEF LeakInv, PoolInv, OneUser
        <4>2. local[u] \in Held BY <3>1 DEF Holding, Held
        <4> QED BY <1>1, <4>1, <4>2
      <3> QED BY <1>1, <3>1, <3>2, <3>3
    <2> QED BY <2>1, <2>2
  <1>10. /\ \A u \in Worker : pc'[u] = "build" => poolLock' /\ pool'.closed
         /\ \A u, v \in Worker : pc'[u] = "build" /\ pc'[v] = "build" => u = v
    BY <1>0, <1>1, <1>3 DEF Traced
  <1> QED BY <1>7, <1>8, <1>9, <1>10 DEF Traced

LEMMA ReleaseTraced ==
  ASSUME PoolAssumption, LeakInv, NEW t \in Worker, Discard(t) \/ Return(t) \/ Forget(t)
  PROVE  Traced'
  <1>0. PoolTypeOK /\ Fits /\ Traced BY DEF LeakInv, PoolInv
  <1>1. CASE Discard(t)
    <2>1. /\ pool'.closed = pool.closed
          /\ pool'.used \subseteq pool.used
          /\ ~direct[t] => pool'.used = pool.used \ {local[t]}
      BY <1>1, PutHolds DEF LeakInv
    <2>2. pool'.idle = pool.idle
      BY <1>0, <1>1 DEF Discard, Put, Kept, Keyed, PoolTypeOK
    <2>3. /\ local' = [local EXCEPT ![t] = NoConn] /\ pc' = [pc EXCEPT ![t] = "get"]
          /\ pc[t] = "connect" /\ local[t] \notin open
          /\ UNCHANGED <<open, direct, poolLock>>
      BY <1>1 DEF Discard
    <2>4. /\ local'[t] = NoConn /\ pc'[t] = "get"
          /\ \A u \in Worker \ {t} : local'[u] = local[u] /\ pc'[u] = pc[u]
      BY <1>0, <2>3 DEF PoolTypeOK
    <2>5. Held \subseteq Held' \cup {local[t]} BY <2>4 DEF Held
    <2>6. Holding' = Holding \ {t} BY <2>4 DEF Holding
    <2>7. local[t] \notin pool'.used
      <3>1. CASE direct[t]
        <4>1. CASE local[t] = NoConn
          BY <1>0, <2>1, <4>1, ConnFinite DEF PoolTypeOK, NoConn
        <4>2. CASE local[t] # NoConn
          <5>1. t \in Holding BY <2>3, <4>2 DEF Holding
          <5> QED BY <1>0, <2>1, <3>1, <5>1 DEF Traced
        <4> QED BY <4>1, <4>2
      <3>2. CASE ~direct[t] BY <2>1, <3>2
      <3> QED BY <3>1, <3>2
    <2>8. open' \cup pool'.used \subseteq pool'.idle \cup Held'
      BY <1>0, <2>1, <2>2, <2>3, <2>5, <2>7 DEF Traced
    <2>9. ASSUME NEW u \in Worker, pc'[u] = "forget" PROVE Settled(u)'
      <3>1. u # t /\ pc[u] = "forget" /\ local'[u] = local[u] BY <2>4, <2>9
      <3>2. Settled(u) BY <1>0, <3>1 DEF Traced
      <3>3. CASE local[u] \in pool.idle BY <2>2, <3>1, <3>3 DEF Settled
      <3>4. CASE local[u] \notin open \cup pool.used BY <2>1, <2>3, <3>1, <3>4 DEF Settled
      <3>5. CASE local[u] = local[t] BY <2>3, <2>7, <3>1, <3>5 DEF Settled
      <3>6. CASE local[u] # local[t] /\ \E v \in Holding : local[v] = local[u]
        <4>1. PICK v \in Holding : local[v] = local[u] BY <3>6
        <4>2. v # t /\ v \in Holding' /\ v \in Worker BY <2>6, <3>6, <4>1 DEF Holding
        <4>3. local'[v] = local'[u] BY <2>4, <3>1, <4>1, <4>2
        <4> QED BY <4>2, <4>3 DEF Settled
      <3> QED BY <3>2, <3>3, <3>4, <3>5, <3>6 DEF Settled
    <2>10. \A u \in Holding' : direct'[u] => local'[u] \notin pool'.used
      BY <1>0, <2>1, <2>3, <2>4, <2>6 DEF Traced, Holding
    <2>11. /\ \A u \in Worker : pc'[u] = "build" => poolLock' /\ pool'.closed
           /\ \A u, v \in Worker : pc'[u] = "build" /\ pc'[v] = "build" => u = v
      BY <1>0, <2>1, <2>3, <2>4 DEF Traced
    <2> QED BY <2>8, <2>9, <2>10, <2>11 DEF Traced
  <1>2. CASE Return(t)
    <2>1. /\ pool'.closed = pool.closed
          /\ pool'.used \subseteq pool.used
          /\ ~direct[t] => pool'.used = pool.used \ {local[t]}
      BY <1>2, PutHolds DEF LeakInv
    <2>2. /\ pool.idle \subseteq pool'.idle
          /\ (~direct[t] /\ Kept(local[t])) => local[t] \in pool'.idle
      BY <1>0, <1>2 DEF Return, Put, PoolTypeOK
    <2>3. /\ local' = local /\ pc' = [pc EXCEPT ![t] = "forget"]
          /\ pc[t] = "return"
          /\ open' \subseteq open
          /\ ~(~direct[t] /\ Kept(local[t])) => local[t] \notin open'
          /\ UNCHANGED <<direct, poolLock>>
      BY <1>2 DEF Return
    <2>4. /\ pc'[t] = "forget" /\ \A u \in Worker \ {t} : pc'[u] = pc[u]
      BY <1>0, <2>3 DEF PoolTypeOK
    <2>5. Held' = Held /\ Holding' = Holding \ {t} BY <2>3, <2>4 DEF Held, Holding
    <2>6. open' \cup pool'.used \subseteq pool'.idle \cup Held'
      BY <1>0, <2>1, <2>2, <2>3, <2>5 DEF Traced
    <2>7. local[t] \notin pool'.used
      <3>1. CASE direct[t]
        <4>1. CASE local[t] = NoConn
          BY <1>0, <2>1, <4>1, ConnFinite DEF PoolTypeOK, NoConn
        <4>2. CASE local[t] # NoConn
          <5>1. t \in Holding BY <2>3, <4>2 DEF Holding
          <5> QED BY <1>0, <2>1, <3>1, <5>1 DEF Traced
        <4> QED BY <4>1, <4>2
      <3>2. CASE ~direct[t] BY <2>1, <3>2
      <3> QED BY <3>1, <3>2
    <2>8. local[t] \in pool'.idle \/ local[t] \notin open' \cup pool'.used
      BY <2>2, <2>3, <2>7
    <2>9. ASSUME NEW u \in Worker, pc'[u] = "forget" PROVE Settled(u)'
      <3>1. CASE local[u] = local[t] BY <2>3, <2>8, <3>1 DEF Settled
      <3>2. CASE local[u] # local[t]
        <4>1. pc[u] = "forget" BY <2>4, <2>9, <3>2
        <4>2. Settled(u) BY <1>0, <4>1 DEF Traced
        <4>3. CASE local[u] \in pool.idle BY <2>2, <2>3, <4>3 DEF Settled
        <4>4. CASE local[u] \notin open \cup pool.used BY <2>1, <2>3, <4>4 DEF Settled
        <4>5. CASE \E v \in Holding : local[v] = local[u]
          BY <2>3, <2>5, <3>2, <4>5 DEF Settled
        <4> QED BY <4>2, <4>3, <4>4, <4>5 DEF Settled
      <3> QED BY <3>1, <3>2
    <2>10. \A u \in Holding' : direct'[u] => local'[u] \notin pool'.used
      BY <1>0, <2>1, <2>3, <2>5 DEF Traced
    <2>11. /\ \A u \in Worker : pc'[u] = "build" => poolLock' /\ pool'.closed
           /\ \A u, v \in Worker : pc'[u] = "build" /\ pc'[v] = "build" => u = v
      BY <1>0, <2>1, <2>3, <2>4 DEF Traced
    <2> QED BY <2>6, <2>9, <2>10, <2>11 DEF Traced
  <1>3. CASE Forget(t)
    <2>1. /\ local' = [local EXCEPT ![t] = NoConn]
          /\ pc[t] = "forget"
          /\ UNCHANGED <<pool, open, direct, poolLock>>
      BY <1>3 DEF Forget
    <2>2. /\ local'[t] = NoConn /\ pc'[t] \in {"connect", "free"}
          /\ \A u \in Worker \ {t} : local'[u] = local[u] /\ pc'[u] = pc[u]
      BY <1>0, <1>3 DEF Forget, PoolTypeOK
    <2>3. Holding' = Holding BY <2>1, <2>2 DEF Holding
    <2>4. \A u \in Holding : u # t /\ u \in Worker /\ local'[u] = local[u]
      BY <2>1, <2>2 DEF Holding
    <2>5. Held \subseteq Held' \cup {local[t]} BY <2>2 DEF Held
    <2>6. local[t] \in open \cup pool.used => local[t] \in pool.idle \cup Held'
      <3>1. Settled(t) BY <1>0, <2>1 DEF Traced
      <3>2. (\E u \in Holding : local[u] = local[t]) => local[t] \in Held'
        BY <2>4 DEF Held, Holding
      <3> QED BY <3>1, <3>2 DEF Settled
    <2>7. open' \cup pool'.used \subseteq pool'.idle \cup Held'
      BY <1>0, <2>1, <2>5, <2>6 DEF Traced
    <2>8. ASSUME NEW u \in Worker, pc'[u] = "forget" PROVE Settled(u)'
      <3>1. u # t /\ pc[u] = "forget" /\ local'[u] = local[u] BY <2>2, <2>8
      <3>2. Settled(u) BY <1>0, <3>1 DEF Traced
      <3> QED BY <2>1, <2>3, <2>4, <3>1, <3>2 DEF Settled
    <2>9. \A u \in Holding' : direct'[u] => local'[u] \notin pool'.used
      BY <1>0, <2>1, <2>3, <2>4 DEF Traced
    <2>10. /\ \A u \in Worker : pc'[u] = "build" => poolLock' /\ pool'.closed
           /\ \A u, v \in Worker : pc'[u] = "build" /\ pc'[v] = "build" => u = v
      BY <1>0, <2>1, <2>2 DEF Traced
    <2> QED BY <2>7, <2>8, <2>9, <2>10 DEF Traced
  <1> QED BY <1>1, <1>2, <1>3

LEMMA ReplaceTraced ==
  ASSUME PoolAssumption, LeakInv, NEW t \in Worker, Replaces(t)
  PROVE  Traced'
  <1>0. PoolTypeOK /\ Fits /\ Traced BY DEF LeakInv, PoolInv
  <1>1. CASE CloseAll(t)
    <2>1. /\ pool'.idle = {} /\ pool'.used = {} /\ pool'.closed
          /\ open' = open \ (pool.idle \cup pool.used)
          /\ poolLock' /\ ~poolLock
          /\ pc[t] = "init" /\ pc' = [pc EXCEPT ![t] = "build"]
          /\ UNCHANGED <<local, direct>>
      BY <1>1 DEF CloseAll
    <2>2. pc'[t] = "build" /\ \A u \in Worker \ {t} : pc'[u] = pc[u]
      BY <1>0, <2>1 DEF PoolTypeOK
    <2>3. Held' = Held /\ Holding' = Holding BY <2>1, <2>2 DEF Held, Holding
    <2>4. open' \cup pool'.used \subseteq pool'.idle \cup Held'
      BY <1>0, <2>1, <2>3 DEF Traced
    <2>5. \A u \in Worker : pc'[u] = "forget" => Settled(u)'
      BY <1>0, <2>1, <2>2, <2>3 DEF Traced, Settled
    <2>6. /\ \A u \in Holding' : direct'[u] => local'[u] \notin pool'.used
          /\ \A u \in Worker : pc'[u] = "build" => poolLock' /\ pool'.closed
          /\ \A u, v \in Worker : pc'[u] = "build" /\ pc'[v] = "build" => u = v
      BY <1>0, <2>1, <2>2 DEF Traced
    <2> QED BY <2>4, <2>5, <2>6 DEF Traced
  <1>2. CASE Build(t) /\ up
    <2>1. PICK new \in SUBSET Fresh :
            /\ pool' = [idle |-> new, used |-> {}, closed |-> FALSE]
            /\ open' = open \cup new /\ alive' = alive \cup new
            /\ pc' = [pc EXCEPT ![t] = "last"]
            /\ pool' \in PoolRecord /\ Fits'
      BY <1>0, <1>2, BuiltEffect
    <2>2. pc[t] = "build" /\ UNCHANGED <<local, direct>> BY <1>2 DEF Build
    <2>3. pc'[t] = "last" /\ \A u \in Worker \ {t} : pc'[u] = pc[u]
      BY <1>0, <2>1 DEF PoolTypeOK
    <2>4. pool.idle = {} /\ pool.used = {} BY <1>0, <2>2 DEF Traced, Fits
    <2>5. pool'.idle = new /\ pool'.used = {} BY <2>1
    <2>6. Held' = Held /\ Holding' = Holding BY <2>2, <2>3 DEF Held, Holding
    <2>7. open' \cup pool'.used \subseteq pool'.idle \cup Held'
      BY <1>0, <2>1, <2>4, <2>5, <2>6 DEF Traced
    <2>8. ASSUME NEW u \in Worker, pc'[u] = "forget" PROVE Settled(u)'
      <3>1. pc[u] = "forget" BY <2>3, <2>8
      <3>2. Settled(u) BY <1>0, <3>1 DEF Traced
      <3>3. CASE local[u] \notin open \cup pool.used
        BY <2>1, <2>2, <2>5, <3>3 DEF Settled
      <3>4. CASE \E v \in Holding : local[v] = local[u]
        BY <2>2, <2>6, <3>4 DEF Settled
      <3> QED BY <2>4, <3>2, <3>3, <3>4 DEF Settled
    <2>9. \A u \in Worker : pc'[u] # "build" BY <1>0, <2>2, <2>3 DEF Traced
    <2> QED BY <2>5, <2>7, <2>8, <2>9 DEF Traced
  <1>3. CASE (Build(t) /\ ~up) \/ (LastGet(t) /\ ~CanGet)
    <2>1. /\ pc' = [pc EXCEPT ![t] = "free"]
          /\ pc[t] \in {"build", "last"}
          /\ poolLock' = IF pc[t] = "build" THEN FALSE ELSE poolLock
          /\ UNCHANGED <<pool, open, local, direct>>
      BY <1>3 DEF Build, LastGet
    <2>2. pc'[t] = "free" /\ \A u \in Worker \ {t} : pc'[u] = pc[u]
      BY <1>0, <2>1 DEF PoolTypeOK
    <2>3. Held' = Held /\ Holding' = Holding BY <2>1, <2>2 DEF Held, Holding
    <2>4. /\ \A u \in Worker : pc'[u] = "build" => poolLock' /\ pool'.closed
          /\ \A u, v \in Worker : pc'[u] = "build" /\ pc'[v] = "build" => u = v
      BY <1>0, <2>1, <2>2 DEF Traced
    <2>5. \A u \in Worker : pc'[u] = "forget" => Settled(u)'
      BY <1>0, <2>1, <2>2, <2>3 DEF Traced, Settled
    <2> QED BY <1>0, <2>1, <2>3, <2>4, <2>5 DEF Traced
  <1> QED BY <1>1, <1>2, <1>3 DEF Replaces

LEMMA NextTraced ==
  ASSUME PoolAssumption, "ends" \notin PoolFaults, LeakInv, [PoolNext]_poolVars
  PROVE  Traced'
  <1>1. ASSUME UNCHANGED poolVars PROVE Traced'
    BY <1>1 DEF poolVars, LeakInv, Traced, Settled, Held, Holding
  <1>2. ASSUME PoolNext PROVE Traced'
    <2>1. \/ Calm
          \/ \E t \in Worker : \/ GivenTo(t) \/ Replaces(t)
                               \/ Discard(t) \/ Return(t) \/ Forget(t)
      BY <1>2 DEF PoolNext, Calm, GivenTo, Replaces, ThreadEnds
    <2> QED BY <2>1, CalmTraced, GivenTraced, ReleaseTraced, ReplaceTraced
  <1> QED BY <1>1, <1>2

LEMMA TracedNoLeak == ASSUME PoolAssumption, LeakInv PROVE NoLeak
  <1>0. PoolTypeOK /\ Fits /\ Traced BY DEF LeakInv, PoolInv
  <1>1. Cardinality(pool.used) <= Cardinality(pool.idle \cup pool.used)
    BY <1>0, PoolFinite, FS_Subset
  <1>2. Cardinality(pool.used) <= MaxConn
    BY <1>0, <1>1, PoolFinite DEF Fits, PoolAssumption
  <1> QED BY <1>0, <1>2 DEF NoLeak, Fits, Traced

\* As long as no thread of the executor ends, no connection and no place of the
\* pool is lost: there are never more than minconn connections idle, maxconn taken,
\* and one for each thread.
THEOREM NoLeakSafe ==
  ASSUME PoolAssumption, "ends" \notin PoolFaults PROVE PoolSpec => []NoLeak
  <1>1. PoolInit => LeakInv BY InitInv, InitTraced DEF LeakInv
  <1>2. LeakInv /\ [PoolNext]_poolVars => LeakInv' BY NextInv, NextTraced DEF LeakInv
  <1>3. LeakInv => NoLeak BY TracedNoLeak
  <1> QED BY <1>1, <1>2, <1>3, PTL DEF PoolSpec

-----------------------------------------------------------------------------
\* A statement that is to run has not run.
Unrun == \A t \in Worker : /\ ran[t] <= 1
                           /\ goal[t] \in {"execute", "again"} /\ pc[t] # "free" => ran[t] = 0

OnceInv == PoolInv /\ Unrun

LEMMA NextUnrun ==
  ASSUME PoolAssumption, "unheard" \notin PoolFaults, OnceInv, [PoolNext]_poolVars
  PROVE  Unrun'
  <1>0. PoolTypeOK /\ Counted /\ Unrun BY DEF OnceInv, PoolInv
  <1>1. ASSUME UNCHANGED poolVars PROVE Unrun'
    BY <1>0, <1>1 DEF poolVars, Unrun
  <1>2. CASE Outage \/ Restored BY <1>0, <1>2 DEF Outage, Restored, Unrun
  <1>3. ASSUME NEW t \in Worker, Reuse(t) \/ Discard(t) \/ GetFails(t) \/ DirectFails(t)
        PROVE  Unrun'
    BY <1>0, <1>3 DEF Reuse, Discard, GetFails, DirectFails, Connected, PoolTypeOK, Unrun
  <1>4. ASSUME NEW t \in Worker, Get(t) \/ Direct(t) \/ LastGet(t)
        PROVE  Unrun'
    BY <1>0, <1>4 DEF Get, Direct, LastGet, Connected, PoolTypeOK, Unrun
  <1>5. ASSUME NEW t \in Worker, CloseAll(t) \/ Build(t)
        PROVE  Unrun'
    BY <1>0, <1>5 DEF CloseAll, Build, PoolTypeOK, Unrun
  <1>6. ASSUME NEW t \in Worker, Execute(t) \/ Fetch(t) \/ Close(t)
        PROVE  Unrun'
    BY <1>0, <1>6 DEF Execute, Fetch, Close, PoolTypeOK, Unrun
  <1>7. ASSUME NEW t \in Worker, Run(t)
        PROVE  Unrun'
    BY <1>0, <1>7 DEF Run, PoolTypeOK, Counted, Unrun
  <1>8. ASSUME NEW t \in Worker, RunBroken(t) \/ RunRefused(t)
        PROVE  Unrun'
    BY <1>0, <1>8 DEF RunBroken, RunRefused, Failed, PoolTypeOK, Unrun
  <1>9. ASSUME NEW t \in Worker, Return(t) \/ Forget(t) \/ ThreadEnds(t)
        PROVE  Unrun'
    BY <1>0, <1>9 DEF Return, Forget, ThreadEnds, PoolTypeOK, Unrun
  <1>10. \A t \in Worker : ~ RunUnheard(t) BY DEF RunUnheard
  <1> QED BY <1>1, <1>2, <1>3, <1>4, <1>5, <1>6, <1>7, <1>8, <1>9, <1>10 DEF PoolNext

\* As long as no answer of the server is lost, a statement is executed at most
\* once, repeated or not.
THEOREM ExecutedOnceSafe ==
  ASSUME PoolAssumption, "unheard" \notin PoolFaults PROVE PoolSpec => []ExecutedOnce
  <1>1. PoolInit => OnceInv BY InitInv DEF OnceInv, Unrun, PoolInit
  <1>2. OnceInv /\ [PoolNext]_poolVars => OnceInv' BY NextInv, NextUnrun DEF OnceInv
  <1>3. OnceInv => ExecutedOnce BY DEF OnceInv, Unrun, ExecutedOnce
  <1> QED BY <1>1, <1>2, <1>3, PTL DEF PoolSpec

-----------------------------------------------------------------------------
(***************************************************************************)
(* AttendanceWindows, for any lists of slots, boundaries, windows and      *)
(* dates: the slots in force are a prefix of a list that was accepted, and *)
(* windows of a date are accepted only beside the slots in force.          *)
(***************************************************************************)
\* A list of slots that keeps its own rules, whatever the order of its groups.
ListApart(s) ==
    /\ \A i, j \in DOMAIN s : i # j => ~Overlap(s[i], s[j])
    /\ \A i, j \in DOMAIN s :
          s[i].half = s[j].half /\ s[i].type = "check_in" /\ s[j].type = "check_out" => s[i].from < s[j].from
    /\ \A d \in Dates, i \in DOMAIN s : custom[d] # NoWindows => ClearOf(s[i], custom[d])

\* The three groups and the two comparisons between them leave no pair of slots out.
LEMMA ValidApart ==
  ASSUME WindowSettings, NEW list \in SlotLists, NEW b, SlotsValid(list, b)
  PROVE  ListApart(list)
  <1> DEFINE Half == {"first", "second", "day"}
  <1>1. DOMAIN list \subseteq Int
    <2>1. DOMAIN list = 1 .. Len(list) BY DEF WindowSettings
    <2> QED BY <2>1
  <1>2. \A i \in DOMAIN list : list[i].half \in Half /\ list[i].from \in Int /\ list[i].len \in 1 .. MaxDuration
    <2> DEFINE Rec == [type : {"check_in", "check_out"}, half : Half, from : Int, len : Int]
    <2>1. list \in Seq(Rec) BY DEF WindowSettings
    <2> HIDE DEF Rec
    <2>2. \A i \in DOMAIN list : list[i] \in Rec BY <2>1
    <2>3. \A i \in DOMAIN list : list[i].half \in Half /\ list[i].from \in Int BY <2>2 DEF Rec
    <2> QED BY <2>3 DEF SlotsValid
  <1>3. \A i, j \in DOMAIN list : Overlap(list[i], list[j]) => Overlap(list[j], list[i]) BY DEF Overlap
  <1>4. \A i, j \in DOMAIN list : i # j => ~Overlap(list[i], list[j])
    <2> SUFFICES ASSUME NEW i \in DOMAIN list, NEW j \in DOMAIN list, i # j PROVE ~Overlap(list[i], list[j])
      OBVIOUS
    <2>1. CASE list[i].half = list[j].half
      <3>1. GroupValid(list, list[i].half) BY <1>2 DEF SlotsValid
      <3>2. i < j \/ j < i BY <1>1
      <3>3. i < j => ~Overlap(list[i], list[j]) BY <2>1, <3>1 DEF GroupValid
      <3>4. j < i => ~Overlap(list[j], list[i]) BY <2>1, <3>1 DEF GroupValid
      <3> QED BY <1>3, <3>2, <3>3, <3>4
    <2>2. CASE list[i].half # list[j].half
      <3>1. \/ list[i].half = "first" /\ list[j].half = "second"
            \/ list[j].half = "first" /\ list[i].half = "second"
            \/ list[i].half = "day" /\ list[j].half # "day"
            \/ list[j].half = "day" /\ list[i].half # "day"
        BY <1>2, <2>2
      <3>2. ~Overlap(list[i], list[j]) \/ ~Overlap(list[j], list[i]) BY <3>1 DEF SlotsValid
      <3> QED BY <1>3, <3>2
    <2> QED BY <2>1, <2>2
  <1>5. ASSUME NEW i \in DOMAIN list, NEW j \in DOMAIN list, list[i].half = list[j].half,
               list[i].type = "check_in", list[j].type = "check_out"
        PROVE  list[i].from < list[j].from
    <2>1. GroupValid(list, list[i].half) BY <1>2 DEF SlotsValid
    <2>2. Ends(list[i]) <= list[j].from BY <1>5, <2>1 DEF GroupValid
    <2> QED BY <1>2, <2>2, WindowSettings DEF Ends, WindowSettings
  <1>6. \A d \in Dates, i \in DOMAIN list : custom[d] # NoWindows => ClearOf(list[i], custom[d])
    BY DEF SlotsValid
  <1> QED BY <1>4, <1>5, <1>6 DEF ListApart

\* The rules hold for what is left of a list when a save is cut short.
LEMMA PrefixApart ==
  ASSUME NEW list, NEW n \in Nat, WindowSettings, list \in SlotLists, n <= Len(list), ListApart(list)
  PROVE  ListApart(SubSeq(list, 1, n))
  <1> DEFINE s == SubSeq(list, 1, n)
  <1>1. DOMAIN s \subseteq DOMAIN list /\ \A i \in DOMAIN s : s[i] = list[i]
    BY DEF WindowSettings
  <1> HIDE DEF s
  <1>2. ListApart(s) BY <1>1 DEF ListApart
  <1> QED BY <1>2 DEF s

LEMMA SaveApart ==
  ASSUME WindowSettings, SlotsApart, NEW list \in SlotLists, NEW b, NEW x,
         NEW done \in 1 .. 11 + Len(list), SaveSlots(list, b, x, done)
  PROVE  SlotsApart'
  <1>1. custom' = custom BY DEF SaveSlots
  <1>2. CASE ExtraValid(x) /\ SlotsValid(list, b) /\ done > 4
    <2> DEFINE n == IF done - 5 < Len(list) THEN done - 5 ELSE Len(list)
    <2>1. Len(list) \in Nat BY DEF WindowSettings
    <2>2. n \in Nat /\ n <= Len(list) BY <1>2, <2>1
    <2>3. slots' = SubSeq(list, 1, n) BY <1>2 DEF SaveSlots
    <2> HIDE DEF n
    <2>4. ListApart(SubSeq(list, 1, n)) BY <1>2, <2>2, ValidApart, PrefixApart
    <2>5. ListApart(slots') BY <2>3, <2>4
    <2> QED BY <1>1, <2>5 DEF ListApart, SlotsApart
  <1>3. CASE ~(ExtraValid(x) /\ SlotsValid(list, b) /\ done > 4)
    <2>1. slots' = slots BY <1>3 DEF SaveSlots
    <2> QED BY <1>1, <2>1 DEF SlotsApart
  <1> QED BY <1>2, <1>3

\* Whatever is saved, cut short, refused or set for a date, in any order: no two
\* enabled slots overlap, check-in comes before check-out, and a slot keeps
\* clear of the windows of every date that has its own.
THEOREM SlotsApartSafe == ASSUME WindowSettings PROVE WinSpec => []SlotsApart
  <1>1. WinInit => SlotsApart BY DEF WinInit, SlotsApart
  <1>2. SlotsApart /\ [WinNext]_winVars => SlotsApart'
    <2> SUFFICES ASSUME SlotsApart, [WinNext]_winVars PROVE SlotsApart'
      OBVIOUS
    <2>1. ASSUME NEW list \in SlotLists, NEW b, NEW x, NEW done \in 1 .. 11 + Len(list),
                 SaveSlots(list, b, x, done)
          PROVE  SlotsApart'
      BY <2>1, SaveApart
    <2>2. ASSUME NEW on \in BOOLEAN, SetHalfDay(on) PROVE SlotsApart'
      BY <2>2 DEF SetHalfDay, SlotsApart
    <2>3. ASSUME NEW dates \in SUBSET Dates, NEW w \in CclWindows, SaveCustomDates(dates, w) PROVE SlotsApart'
      BY <2>3 DEF SaveCustomDates, WindowsValid, SlotsApart
    <2>4. ASSUME NEW d \in Dates, DeleteCustomDate(d) PROVE SlotsApart'
      BY <2>4 DEF DeleteCustomDate, SlotsApart
    <2>5. ASSUME NEW w \in CclWindows, NEW done \in 1 .. 6, SaveCcl(w, done) PROVE SlotsApart'
      BY <2>5 DEF SaveCcl, SlotsApart
    <2>6. CASE UNCHANGED winVars BY <2>6 DEF winVars, SlotsApart
    <2> QED BY <2>1, <2>2, <2>3, <2>4, <2>5, <2>6 DEF WinNext
  <1> QED BY <1>1, <1>2, PTL DEF WinSpec

-----------------------------------------------------------------------------
(* The least recently used cache (LRUCache). *)

\* Sequences of keys without repetition that fit the cache.
FitsCache(s) ==
  /\ s \in Seq(Key) /\ Len(s) <= MaxSize
  /\ \A i, j \in 1 .. Len(s) : s[i] = s[j] => i = j
ByUse(s, u) == \A i, j \in 1 .. Len(s) : i < j => u[s[i]] <= u[s[j]]
LruInv ==
  /\ FitsCache(order) /\ FitsCache(disk)
  /\ DOMAIN times = ToSet(order)
  /\ now \in Nat /\ used \in [Key -> Nat] /\ \A k \in Key : used[k] <= now
  /\ ByUse(order, used)

LEMMA MembersOf ==
    ASSUME NEW s \in Seq(Key)
    PROVE  /\ Len(s) \in Nat /\ DOMAIN s = 1 .. Len(s) /\ ToSet(s) = {s[i] : i \in 1 .. Len(s)}
           /\ ToSet(s) \subseteq Key
  BY LenProperties DEF ToSet

\* A shorter sequence with the members of another in their order.
PartOf(t, s) ==
  /\ t \in Seq(Key)
  /\ \E h \in [1 .. Len(t) -> 1 .. Len(s)] :
       /\ \A i \in 1 .. Len(t) : t[i] = s[h[i]]
       /\ \A i, j \in 1 .. Len(t) : i < j => h[i] < h[j]

LEMMA PartKeeps ==
    ASSUME MaxSize \in Nat, NEW s, FitsCache(s), NEW t, PartOf(t, s), Len(t) <= Len(s)
    PROVE  /\ FitsCache(t)
           /\ \A u \in [Key -> Nat] : ByUse(s, u) => ByUse(t, u)
  <1>1. t \in Seq(Key) /\ s \in Seq(Key) /\ Len(t) \in Nat /\ Len(s) \in Nat BY DEF PartOf, FitsCache
  <1>2. PICK h \in [1 .. Len(t) -> 1 .. Len(s)] :
          /\ \A i \in 1 .. Len(t) : t[i] = s[h[i]]
          /\ \A i, j \in 1 .. Len(t) : i < j => h[i] < h[j]
    BY DEF PartOf
  <1>3. ASSUME NEW i \in 1 .. Len(t), NEW j \in 1 .. Len(t), t[i] = t[j] PROVE i = j
    <2>1. h[i] = h[j] BY <1>2, <1>3 DEF FitsCache
    <2>2. ~(i < j) /\ ~(j < i)
      <3>1. h[i] \in Nat /\ h[j] \in Nat BY <1>1
      <3> QED BY <1>2, <2>1, <3>1
    <2> QED BY <1>1, <2>2
  <1>4. ASSUME NEW u \in [Key -> Nat], ByUse(s, u) PROVE ByUse(t, u)
    <2> SUFFICES ASSUME NEW i \in 1 .. Len(t), NEW j \in 1 .. Len(t), i < j PROVE u[t[i]] <= u[t[j]]
      BY DEF ByUse
    <2>1. h[i] \in 1 .. Len(s) /\ h[j] \in 1 .. Len(s) /\ h[i] < h[j] /\ t[i] = s[h[i]] /\ t[j] = s[h[j]]
      BY <1>2
    <2> QED BY <1>4, <2>1 DEF ByUse
  <1>5. Len(t) <= MaxSize BY <1>1 DEF FitsCache
  <1> QED BY <1>1, <1>3, <1>4, <1>5 DEF FitsCache

\* The sequence without a key.
LEMMA GoneKey ==
    ASSUME NEW s, FitsCache(s), NEW k
    PROVE  /\ PartOf(Gone(s, k), s)
           /\ Len(Gone(s, k)) = IF k \in ToSet(s) THEN Len(s) - 1 ELSE Len(s)
           /\ ToSet(Gone(s, k)) = ToSet(s) \ {k}
  <1>1. s \in Seq(Key) /\ Len(s) \in Nat /\ ToSet(s) = {s[i] : i \in 1 .. Len(s)} /\ DOMAIN s = 1 .. Len(s)
    BY MembersOf DEF FitsCache
  <1>2. CASE k \notin ToSet(s)
    <2>1. Gone(s, k) = s BY <1>2 DEF Gone
    <2> DEFINE h == [i \in 1 .. Len(s) |-> i]
    <2>2. /\ h \in [1 .. Len(s) -> 1 .. Len(s)]
          /\ \A i \in 1 .. Len(s) : s[i] = s[h[i]]
          /\ \A i, j \in 1 .. Len(s) : i < j => h[i] < h[j]
      OBVIOUS
    <2> HIDE DEF h
    <2>3. PartOf(s, s) BY <1>1, <2>2 DEF PartOf
    <2> QED BY <1>2, <2>1, <2>3
  <1>3. CASE k \in ToSet(s)
    <2> DEFINE m == CHOOSE i \in DOMAIN s : s[i] = k
               t == RemoveAt(s, m)
    <2>1. m \in 1 .. Len(s) /\ s[m] = k BY <1>1, <1>3
    <2>2. Gone(s, k) = t BY <1>3 DEF Gone
    <2> HIDE DEF m
    <2>3. /\ t \in Seq(Key) /\ Len(t) = Len(s) - 1
          /\ \A n \in 1 .. Len(t) : t[n] = IF n < m THEN s[n] ELSE s[n + 1]
      BY <1>1, <2>1, RemovedAt
    <2> HIDE DEF t
    <2> DEFINE h == [i \in 1 .. Len(t) |-> IF i < m THEN i ELSE i + 1]
    <2>4. /\ h \in [1 .. Len(t) -> 1 .. Len(s)]
          /\ \A i \in 1 .. Len(t) : h[i] # m /\ t[i] = s[h[i]]
          /\ \A i, j \in 1 .. Len(t) : i < j => h[i] < h[j]
      BY <1>1, <2>1, <2>3
    <2>5. \A j \in 1 .. Len(s) : j # m => \E i \in 1 .. Len(t) : h[i] = j
      <3> SUFFICES ASSUME NEW j \in 1 .. Len(s), j # m PROVE \E i \in 1 .. Len(t) : h[i] = j OBVIOUS
      <3>1. CASE j < m BY <1>1, <2>1, <2>3, <3>1
      <3>2. CASE j > m
        <4>1. j - 1 \in 1 .. Len(t) /\ ~(j - 1 < m) BY <1>1, <2>1, <2>3, <3>2
        <4>2. h[j - 1] = j BY <4>1
        <4> QED BY <4>1, <4>2
      <3> QED BY <2>1, <3>1, <3>2
    <2> HIDE DEF h
    <2>6. PartOf(t, s) BY <2>3, <2>4 DEF PartOf
    <2>7. ToSet(t) = {t[i] : i \in 1 .. Len(t)} BY <2>3, MembersOf
    <2>8. ASSUME NEW x \in ToSet(t) PROVE x \in ToSet(s) \ {k}
      <3>1. PICK i \in 1 .. Len(t) : x = t[i] BY <2>7
      <3>2. x = s[h[i]] /\ h[i] \in 1 .. Len(s) /\ h[i] # m BY <2>4, <3>1
      <3>3. x # k BY <2>1, <3>2 DEF FitsCache
      <3> QED BY <1>1, <3>2, <3>3
    <2>9. ASSUME NEW x \in ToSet(s) \ {k} PROVE x \in ToSet(t)
      <3>1. PICK j \in 1 .. Len(s) : x = s[j] BY <1>1
      <3>2. j # m BY <2>1, <3>1
      <3>3. PICK i \in 1 .. Len(t) : h[i] = j BY <2>5, <3>2
      <3>4. t[i] = x BY <2>4, <3>1, <3>3
      <3> QED BY <2>7, <3>4
    <2> QED BY <1>3, <2>2, <2>3, <2>6, <2>8, <2>9
  <1> QED BY <1>2, <1>3

LEMMA TailKeys ==
    ASSUME NEW s, FitsCache(s), s # <<>>
    PROVE  /\ PartOf(Tail(s), s) /\ Len(Tail(s)) = Len(s) - 1
           /\ ToSet(Tail(s)) = ToSet(s) \ {Head(s)}
  <1>1. s \in Seq(Key) /\ Len(s) \in Nat /\ ToSet(s) = {s[i] : i \in 1 .. Len(s)} BY MembersOf DEF FitsCache
  <1> DEFINE t == Tail(s)
  <1>2. Len(s) # 0 BY <1>1, EmptySeq
  <1>3. Head(s) = s[1] /\ t \in Seq(Key) /\ Len(t) = Len(s) - 1 /\ \A i \in 1 .. Len(t) : t[i] = s[i + 1]
    BY <1>1, <1>2, HeadTailProperties
  <1> HIDE DEF t
  <1> DEFINE h == [i \in 1 .. Len(t) |-> i + 1]
  <1>4. /\ h \in [1 .. Len(t) -> 1 .. Len(s)]
        /\ \A i \in 1 .. Len(t) : h[i] # 1 /\ t[i] = s[h[i]]
        /\ \A i, j \in 1 .. Len(t) : i < j => h[i] < h[j]
    BY <1>1, <1>3
  <1>5. \A j \in 1 .. Len(s) : j # 1 => j - 1 \in 1 .. Len(t) /\ h[j - 1] = j BY <1>1, <1>3
  <1> HIDE DEF h
  <1>6. PartOf(t, s) BY <1>3, <1>4 DEF PartOf
  <1>7. ToSet(t) = {t[i] : i \in 1 .. Len(t)} BY <1>3, MembersOf
  <1>8. 1 \in 1 .. Len(s) BY <1>1, <1>2
  <1>9. ASSUME NEW x \in ToSet(t) PROVE x \in ToSet(s) \ {s[1]}
    <2>1. PICK i \in 1 .. Len(t) : x = t[i] BY <1>7
    <2>2. x = s[h[i]] /\ h[i] \in 1 .. Len(s) /\ h[i] # 1 BY <1>4, <2>1
    <2>3. x # s[1] BY <1>8, <2>2 DEF FitsCache
    <2> QED BY <1>1, <2>2, <2>3
  <1>10. ASSUME NEW x \in ToSet(s) \ {s[1]} PROVE x \in ToSet(t)
    <2>1. PICK j \in 1 .. Len(s) : x = s[j] BY <1>1
    <2>2. j # 1 BY <2>1
    <2>3. j - 1 \in 1 .. Len(t) /\ t[j - 1] = x BY <1>4, <1>5, <2>1, <2>2
    <2> QED BY <1>7, <2>3
  <1> QED BY <1>3, <1>6, <1>9, <1>10 DEF t

\* A key is put at the end of a sequence that has room for it.
LEMMA EndKeys ==
    ASSUME LRUAssumption, NEW s, FitsCache(s), NEW k \in Key, k \in ToSet(s) \/ Len(s) < MaxSize,
           NEW u \in [Key -> Nat], NEW n \in Nat, \A x \in Key : u[x] <= n, ByUse(s, u)
    PROVE  /\ FitsCache(ToEnd(s, k)) /\ ToSet(ToEnd(s, k)) = ToSet(s) \cup {k}
           /\ ByUse(ToEnd(s, k), [u EXCEPT ![k] = n])
  <1> DEFINE g == Gone(s, k)
             t == Append(g, k)
  <1>1. MaxSize \in Nat /\ Len(s) \in Nat /\ Len(s) <= MaxSize /\ s \in Seq(Key) BY DEF LRUAssumption, FitsCache
  <1>2. PartOf(g, s) /\ Len(g) = (IF k \in ToSet(s) THEN Len(s) - 1 ELSE Len(s)) /\ ToSet(g) = ToSet(s) \ {k}
    BY GoneKey
  <1>3. g \in Seq(Key) /\ Len(g) \in Nat BY <1>2 DEF PartOf
  <1>4. Len(g) <= Len(s) /\ Len(g) + 1 <= MaxSize BY <1>1, <1>2, <1>3
  <1>5. FitsCache(g) /\ ByUse(g, u) BY <1>1, <1>2, <1>4, PartKeeps
  <1> HIDE DEF g
  <1>6. /\ t \in Seq(Key) /\ Len(t) = Len(g) + 1 /\ t[Len(g) + 1] = k
        /\ \A i \in 1 .. Len(g) : t[i] = g[i]
    BY <1>3, AppendProperties
  <1> HIDE DEF t
  <1>7. ToSet(g) = {g[i] : i \in 1 .. Len(g)} /\ ToSet(t) = {t[i] : i \in 1 .. Len(t)} BY <1>3, <1>6, MembersOf
  <1>8. \A i \in 1 .. Len(g) : g[i] # k BY <1>2, <1>7
  <1>9. FitsCache(t)
    <2>1. ASSUME NEW i \in 1 .. Len(t), NEW j \in 1 .. Len(t), t[i] = t[j] PROVE i = j
      <3>1. i \in 1 .. Len(g) \/ i = Len(g) + 1 BY <1>3, <1>6
      <3>2. j \in 1 .. Len(g) \/ j = Len(g) + 1 BY <1>3, <1>6
      <3> QED BY <1>5, <1>6, <1>8, <2>1, <3>1, <3>2 DEF FitsCache
    <2> QED BY <1>4, <1>6, <2>1 DEF FitsCache
  <1>10. ToSet(t) = ToSet(g) \cup {k}
    <2>1. ASSUME NEW x \in ToSet(t) PROVE x \in ToSet(g) \cup {k}
      <3>1. PICK i \in 1 .. Len(t) : x = t[i] BY <1>7
      <3>2. i \in 1 .. Len(g) \/ i = Len(g) + 1 BY <1>3, <1>6
      <3> QED BY <1>6, <1>7, <3>1, <3>2
    <2>2. ASSUME NEW x \in ToSet(g) PROVE x \in ToSet(t)
      <3>1. PICK i \in 1 .. Len(g) : x = g[i] BY <1>7
      <3>2. i \in 1 .. Len(t) /\ t[i] = x BY <1>3, <1>6, <3>1
      <3> QED BY <1>7, <3>2
    <2>3. k \in ToSet(t)
      <3>1. Len(g) + 1 \in 1 .. Len(t) BY <1>3, <1>6
      <3> QED BY <1>6, <1>7, <3>1
    <2> QED BY <2>1, <2>2, <2>3
  <1>11. ByUse(t, [u EXCEPT ![k] = n])
    <2> DEFINE v == [u EXCEPT ![k] = n]
    <2>1. v[k] = n /\ \A x \in Key : (x # k => v[x] = u[x]) /\ v[x] <= n BY <1>1
    <2> HIDE DEF v
    <2>2. ASSUME NEW i \in 1 .. Len(t), NEW j \in 1 .. Len(t), i < j PROVE v[t[i]] <= v[t[j]]
      <3>1. t[i] \in Key /\ t[j] \in Key BY <1>6
      <3>2. i \in 1 .. Len(g) BY <1>3, <1>6, <2>2
      <3>3. CASE j = Len(g) + 1 BY <1>6, <2>1, <3>1, <3>3
      <3>4. CASE j \in 1 .. Len(g)
        <4>1. t[i] = g[i] /\ t[j] = g[j] /\ g[i] # k /\ g[j] # k BY <1>6, <1>8, <3>2, <3>4
        <4>2. u[g[i]] <= u[g[j]] BY <1>5, <2>2, <3>2, <3>4 DEF ByUse
        <4> QED BY <2>1, <3>1, <4>1, <4>2
      <3> QED BY <1>3, <1>6, <3>3, <3>4
    <2> QED BY <2>2 DEF ByUse, v
  <1>12. t = ToEnd(s, k) BY DEF ToEnd, t, g
  <1> QED BY <1>2, <1>9, <1>10, <1>11, <1>12

\* What is written to the file.
LEMMA FileKeys ==
    ASSUME MaxSize \in Nat, NEW s, FitsCache(s), NEW S
    PROVE  FitsCache(KeysIn(s, S))
  <1> DEFINE n == Len(s)
             Go(x, i) == IF s[i] \in S THEN Append(x, s[i]) ELSE x
             D == Seq(Key)
             q == [x \in D \X Nat |-> IF x[2] \in 1 .. n THEN Go(x[1], x[2]) ELSE x[1]]
             E(f) == [i \in 0 .. n |-> IF i = 0 THEN <<>>
                                       ELSE IF s[i] \in S THEN Append(f[i - 1], s[i]) ELSE f[i - 1]]
             g == CHOOSE f : f = E(f)
  <1>1. s \in Seq(Key) /\ n \in Nat /\ n <= MaxSize /\ \A i \in 1 .. n : s[i] \in Key BY DEF FitsCache
  <1>2. <<>> \in D OBVIOUS
  <1>3. \A x \in D, i \in 1 .. n : Go(x, i) \in D BY <1>1
  <1>4. KeysIn(s, S) = g[n] BY DEF KeysIn
  <1>5. \A f : E(f) = [i \in 0 .. n |-> IF i = 0 THEN <<>> ELSE Go(f[i - 1], i)] OBVIOUS
  <1>6. \A x, i : Go(x, i) = x \/ Go(x, i) = Append(x, s[i]) OBVIOUS
  <1> HIDE DEF n, Go, E, D
  <1>7. q \in [D \X Nat -> D] BY <1>3
  <1>8. \A x \in D, i \in 1 .. n : q[<<x, i>>] = Go(x, i) BY <1>1
  <1> HIDE DEF q
  <1>9. Reaches(n, D, <<>>, q) BY <1>1, <1>2, <1>7, RecursionExists
  <1>10. PICK f \in [0 .. n -> D] : \A i \in 0 .. n : f[i] = IF i = 0 THEN <<>> ELSE q[<<f[i - 1], i>>]
    BY <1>9 DEF Reaches
  <1>11. \A i \in 0 .. n : f[i] = IF i = 0 THEN <<>> ELSE Go(f[i - 1], i)
    <2> TAKE i \in 0 .. n
    <2>1. f[i] = IF i = 0 THEN <<>> ELSE q[<<f[i - 1], i>>] BY <1>10
    <2>2. i # 0 => i - 1 \in 0 .. n /\ i \in 1 .. n BY <1>1
    <2>3. i # 0 => f[i - 1] \in D BY <2>2
    <2> QED BY <1>8, <2>1, <2>2, <2>3
  <1>12. f = E(f) BY <1>5, <1>11
  <1>13. g = E(g) BY <1>12
  <1> HIDE DEF g
  <1>14. g[0] = <<>> /\ \A i \in 1 .. n : g[i] = Go(g[i - 1], i) BY <1>1, <1>5, <1>13
  \* After i keys: at most i, without repetition, each one of the first i.
  <1> DEFINE Good(x, i) == /\ x \in Seq(Key) /\ Len(x) <= i
                           /\ \A a, b \in 1 .. Len(x) : x[a] = x[b] => a = b
                           /\ \A a \in 1 .. Len(x) : \E j \in 1 .. i : x[a] = s[j]
             I == {i \in 0 .. n : Good(g[i], i)}
  <1>15. 0 \in I
    <2>1. Len(<<>>) = 0 /\ <<>> \in Seq(Key) OBVIOUS
    <2>2. Good(<<>>, 0) BY <2>1
    <2>3. g[0] = <<>> /\ 0 \in 0 .. n BY <1>1, <1>14
    <2> HIDE DEF Good
    <2> QED BY <2>2, <2>3
  <1>16. ASSUME NEW i \in 1 .. n, i - 1 \in I PROVE i \in I
    <2> DEFINE x == g[i - 1]
    <2>1. Good(x, i - 1) /\ i \in 0 .. n BY <1>1, <1>16
    <2>2. g[i] = x \/ g[i] = Append(x, s[i]) BY <1>6, <1>14
    <2> HIDE DEF x
    <2>3. Len(x) \in Nat /\ x \in Seq(Key) /\ Len(x) <= i - 1 BY <2>1
    <2>4. CASE g[i] = x
      <3>1. Good(x, i) BY <1>1, <2>1, <2>3
      <3> QED BY <2>1, <2>4, <3>1
    <2>5. CASE g[i] = Append(x, s[i])
      <3> DEFINE y == Append(x, s[i])
      <3>1. s[i] \in Key BY <1>1
      <3>2. /\ y \in Seq(Key) /\ Len(y) = Len(x) + 1 /\ y[Len(x) + 1] = s[i]
            /\ \A a \in 1 .. Len(x) : y[a] = x[a]
        BY <2>3, <3>1, AppendProperties
      <3> HIDE DEF y
      <3>3. \A a \in 1 .. Len(x) : x[a] # s[i]
        <4> SUFFICES ASSUME NEW a \in 1 .. Len(x), x[a] = s[i] PROVE FALSE OBVIOUS
        <4>1. PICK j \in 1 .. i - 1 : x[a] = s[j] BY <2>1
        <4>2. j \in 1 .. n /\ j # i BY <1>1
        <4> QED BY <4>1, <4>2 DEF FitsCache, n
      <3>4. \A a \in 1 .. Len(y) : a \in 1 .. Len(x) \/ a = Len(x) + 1 BY <2>3, <3>2
      <3>5. \A a, b \in 1 .. Len(y) : y[a] = y[b] => a = b BY <2>1, <3>2, <3>3, <3>4
      <3>6. \A a \in 1 .. Len(y) : \E j \in 1 .. i : y[a] = s[j]
        <4> TAKE a \in 1 .. Len(y)
        <4>1. CASE a = Len(x) + 1 BY <3>2, <4>1
        <4>2. CASE a \in 1 .. Len(x)
          <5>1. PICK j \in 1 .. i - 1 : x[a] = s[j] BY <2>1, <4>2
          <5>2. j \in 1 .. i BY <1>1
          <5> QED BY <3>2, <4>2, <5>1, <5>2
        <4> QED BY <3>4, <4>1, <4>2
      <3>7. Len(y) <= i BY <1>1, <2>3, <3>2
      <3>8. Good(y, i) BY <3>2, <3>5, <3>6, <3>7
      <3> QED BY <2>1, <2>5, <3>8 DEF y
    <2> QED BY <2>2, <2>4, <2>5
  <1> HIDE DEF I
  <1>17. \A i \in 0 .. n : i \in I BY <1>1, <1>15, <1>16, UpTo
  <1>18. Good(g[n], n)
    <2>1. n \in I BY <1>1, <1>17
    <2> HIDE DEF Good
    <2> QED BY <2>1 DEF I
  <1>19. Len(g[n]) <= MaxSize
    <2>1. Len(g[n]) \in Nat /\ Len(g[n]) <= n BY <1>18
    <2> QED BY <1>1, <2>1
  <1> QED BY <1>4, <1>18, <1>19 DEF FitsCache

LEMMA LruStep ==
    ASSUME LRUAssumption, LruInv, [LruNext]_lruVars
    PROVE  LruInv'
  <1>1. MaxSize \in Nat /\ order \in Seq(Key) /\ Len(order) \in Nat /\ ToSet(order) \subseteq Key /\ now \in Nat
    BY MembersOf DEF LRUAssumption, LruInv, FitsCache
  \* A key is renewed.
  <1>2. ASSUME NEW k \in Key, NEW s, FitsCache(s), ByUse(s, used), k \in ToSet(s) \/ Len(s) < MaxSize,
               order' = ToEnd(s, k), DOMAIN times' = ToSet(s) \cup {k}, used' = [used EXCEPT ![k] = now],
               now' = now, FitsCache(disk')
        PROVE  LruInv'
    <2>1. FitsCache(order') /\ ToSet(order') = ToSet(s) \cup {k} /\ ByUse(order', used')
      BY <1>1, <1>2, EndKeys DEF LruInv
    <2>2. used' \in [Key -> Nat] /\ \A x \in Key : used'[x] <= now' BY <1>1, <1>2 DEF LruInv
    <2> QED BY <1>1, <1>2, <2>1, <2>2 DEF LruInv
  \* A key is taken out.
  <1>3. ASSUME NEW k \in Key, order' = Gone(order, k), times' = Without({k}), UNCHANGED <<disk, now, used>>
        PROVE  LruInv'
    <2>1. FitsCache(order) /\ ByUse(order, used) BY DEF LruInv
    <2>2. PartOf(order', order) /\ Len(order') <= Len(order) /\ ToSet(order') = ToSet(order) \ {k}
      <3>1. /\ PartOf(order', order) /\ ToSet(order') = ToSet(order) \ {k}
            /\ Len(order') = IF k \in ToSet(order) THEN Len(order) - 1 ELSE Len(order)
        BY <1>3, <2>1, GoneKey
      <3> QED BY <1>1, <3>1
    <2>3. FitsCache(order') /\ ByUse(order', used) BY <1>1, <2>1, <2>2, PartKeeps DEF LruInv
    <2>4. DOMAIN times' = DOMAIN times \ {k} BY <1>3 DEF Without
    <2> QED BY <1>3, <2>2, <2>3, <2>4 DEF LruInv
  <1>4. ASSUME NEW k \in Key, GetKey(k) PROVE LruInv'
    <2>1. CASE Expired(k) BY <1>3, <1>4, <2>1 DEF GetKey
    <2>2. CASE ~Expired(k)
      <3>1. /\ k \in ToSet(order) /\ order' = ToEnd(order, k) /\ times' = Touched(times, k)
            /\ used' = [used EXCEPT ![k] = now] /\ now' = now /\ disk' = disk
        BY <1>4, <2>2 DEF GetKey, Keys
      <3>2. DOMAIN times' = ToSet(order) \cup {k} BY <3>1 DEF Touched, LruInv
      <3>3. FitsCache(order) /\ ByUse(order, used) /\ FitsCache(disk') BY <3>1 DEF LruInv
      <3> QED BY <1>2, <3>1, <3>2, <3>3
    <2> QED BY <2>1, <2>2
  <1>5. ASSUME NEW k \in Key, PutKey(k) PROVE LruInv'
    <2> DEFINE full == k \notin Keys /\ Len(order) >= MaxSize
               kept == IF full THEN Tail(order) ELSE order
    <2>1. /\ order' = ToEnd(kept, k)
          /\ times' = Touched(Without(IF full THEN {Head(order)} ELSE {}), k)
          /\ disk' = IF Persists THEN KeysIn(order', {x \in Key : x = k \/ ~Expired(x)}) ELSE disk
          /\ used' = [used EXCEPT ![k] = now] /\ now' = now
      BY <1>5 DEF PutKey
    <2>2. /\ FitsCache(kept) /\ ByUse(kept, used) /\ (k \in ToSet(kept) \/ Len(kept) < MaxSize)
          /\ DOMAIN times' = ToSet(kept) \cup {k}
      <3>1. CASE full
        <4>1. order # <<>>
          <5>1. Len(order) # 0 BY <1>1, <3>1 DEF LRUAssumption
          <5> QED BY <5>1
        <4>2. /\ PartOf(kept, order) /\ Len(kept) = Len(order) - 1
              /\ ToSet(kept) = ToSet(order) \ {Head(order)}
          BY <3>1, <4>1, TailKeys DEF LruInv
        <4>3. kept \in Seq(Key) /\ Len(kept) \in Nat BY <4>2 DEF PartOf
        <4>4. Len(kept) < MaxSize /\ Len(kept) <= Len(order) BY <1>1, <4>2, <4>3 DEF LruInv, FitsCache
        <4>5. FitsCache(kept) /\ ByUse(kept, used) BY <1>1, <4>2, <4>4, PartKeeps DEF LruInv
        <4>6. DOMAIN times' = (ToSet(order) \ {Head(order)}) \cup {k}
          BY <2>1, <3>1 DEF Touched, Without, LruInv
        <4> QED BY <4>2, <4>4, <4>5, <4>6
      <3>2. CASE ~full
        <4>1. kept = order BY <3>2
        <4>2. k \in ToSet(order) \/ Len(order) < MaxSize BY <1>1, <3>2 DEF Keys
        <4>3. DOMAIN times' = ToSet(order) \cup {k} BY <2>1, <3>2 DEF Touched, Without, LruInv
        <4> QED BY <4>1, <4>2, <4>3 DEF LruInv
      <3> QED BY <3>1, <3>2
    <2> HIDE DEF kept, full
    <2>3. FitsCache(order')
      BY <1>1, <2>1, <2>2, EndKeys DEF LruInv
    <2>4. FitsCache(disk') BY <1>1, <2>1, <2>3, FileKeys DEF LruInv
    <2> QED BY <1>2, <2>1, <2>2, <2>4
  <1>6. ASSUME NEW k \in Key, RemoveKey(k) PROVE LruInv' BY <1>3, <1>6 DEF RemoveKey
  <1>7. CASE Clear
    <2>1. order' = <<>> /\ UNCHANGED <<disk, now, used>> /\ DOMAIN times' = DOMAIN times \ Key
      BY <1>7 DEF Clear, Without
    <2>2. DOMAIN times' = {} /\ ToSet(<<>>) = {} BY <1>1, <2>1 DEF LruInv, ToSet
    <2>3. FitsCache(<<>>) BY <1>1 DEF FitsCache
    <2> QED BY <2>1, <2>2, <2>3 DEF LruInv, ByUse
  <1>8. CASE LruTick BY <1>8 DEF LruTick, LruInv
  <1>9. CASE Restart
    <2>1. /\ order' = IF Expires THEN <<>> ELSE disk
          /\ times' = [k \in ToSet(order') |-> now]
          /\ used' = [k \in Key |-> IF k \in ToSet(order') THEN now ELSE 0]
          /\ disk' = disk /\ now' = now
      BY <1>9 DEF Restart
    <2>2. FitsCache(<<>>) BY <1>1 DEF FitsCache
    <2>3. FitsCache(order') BY <2>1, <2>2 DEF LruInv
    <2>4. used' \in [Key -> Nat] /\ \A k \in Key : used'[k] <= now' BY <1>1, <2>1
    <2>5. ToSet(order') = {order'[i] : i \in 1 .. Len(order')} /\ ToSet(order') \subseteq Key
      BY <2>3, MembersOf DEF FitsCache
    <2>6. \A i \in 1 .. Len(order') : used'[order'[i]] = now BY <2>1, <2>5
    <2>7. ByUse(order', used') BY <1>1, <2>6 DEF ByUse
    <2>8. DOMAIN times' = ToSet(order') BY <2>1
    <2> QED BY <1>1, <2>1, <2>3, <2>4, <2>7, <2>8 DEF LruInv
  <1>10. CASE UNCHANGED lruVars BY <1>10 DEF lruVars, LruInv
  <1> QED BY <1>4, <1>5, <1>6, <1>7, <1>8, <1>9, <1>10 DEF LruNext

\* The cache never holds more than max_size keys nor one twice, and its order is
\* that of use, so that what a full cache evicts was not used more recently than
\* anything it keeps (LRUCache.get, put, remove, clear and a new process).
THEOREM LruSafe ==
    ASSUME LRUAssumption
    PROVE  LruSpec => [](LruTypeOK /\ LeastRecentFirst)
  <1>1. LruInit => LruInv
    <2> SUFFICES ASSUME LruInit PROVE LruInv OBVIOUS
    <2>1. order = <<>> /\ disk = <<>> /\ DOMAIN times = {} /\ now = 1 /\ used = [k \in Key |-> 0] BY DEF LruInit
    <2>2. FitsCache(<<>>) /\ ToSet(<<>>) = {} BY DEF FitsCache, ToSet, LRUAssumption
    <2>3. used \in [Key -> Nat] /\ \A k \in Key : used[k] <= now BY <2>1
    <2> QED BY <2>1, <2>2, <2>3 DEF LruInv, ByUse
  <1>2. LruInv /\ [LruNext]_lruVars => LruInv' BY LruStep
  <1>3. LruInv => LruTypeOK /\ LeastRecentFirst
    <2> SUFFICES ASSUME LruInv PROVE LruTypeOK /\ LeastRecentFirst OBVIOUS
    <2>1. /\ DOMAIN order = 1 .. Len(order) /\ ToSet(order) \subseteq Key /\ ToSet(disk) \subseteq Key
      BY MembersOf DEF LruInv, FitsCache
    <2>2. LruTypeOK BY <2>1 DEF LruInv, FitsCache, LruTypeOK, Keys, IsInjective
    <2>3. LeastRecentFirst BY <2>1 DEF LruInv, ByUse, LeastRecentFirst
    <2> QED BY <2>2, <2>3
  <1> QED BY <1>1, <1>2, <1>3, PTL DEF LruSpec
=============================================================================
