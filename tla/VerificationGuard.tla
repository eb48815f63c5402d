---------------------------- MODULE VerificationGuard ----------------------------
(***************************************************************************)
(* The lockout of one person: failed face verifications are counted in     *)
(* memory, at the limit a lock is stored and a timer started which removes *)
(* lock and count.  Handlers on the event loop and the one verification    *)
(* that the per-user semaphore admits to a pool thread use the same two    *)
(* caches, one locked operation at a time.                                 *)
(***************************************************************************)
EXTENDS Integers, FiniteSets

CONSTANTS Limit,     \* MAX_FAILED_ATTEMPTS
          Duration,  \* LOCKOUT_DURATION_MINUTES, in ticks of the clock
          Waiting,   \* bound: requests under way before the semaphore
          Unset      \* no lock, no timer

ASSUME GuardAssumption ==
  /\ Limit \in Nat \ {0} /\ Duration \in Nat \ {0} /\ Waiting \in Nat \ {0}
  /\ Unset \notin Nat

VARIABLES count,     \* _failed_attempts
          lock,      \* _lockout_storage: ticks until the lock ends
          timer,     \* _lockout_timers: ticks until the timer fires
          firing,    \* the callback remove_lockout of a timer that fired
          proc,      \* the two threads: what each does next and the count it read
          passed,    \* handlers that passed the first check
          queued     \* handlers that wait for the semaphore

vars == <<count, lock, timer, firing, proc, passed, queued>>

Thread == {"loop", "pool"}
Step == {"idle", "check", "expire", "ok", "read", "put", "lock", "arm", "work", "clear"}
Locked == lock \in 1..Duration
At(t, pc) == proc[t].pc = pc
Goto(t, pc) == proc' = [proc EXCEPT ![t].pc = pc]
Finish(t) == proc' = [proc EXCEPT ![t] = [pc |-> "idle", n |-> 0]]
\* bound: counts beyond this one behave like it
FailBound == 2 * Limit
Bounded(n) == IF n > FailBound THEN FailBound ELSE n

Init ==
  /\ count = 0 /\ lock = Unset /\ timer = Unset /\ firing = "no"
  /\ proc = [t \in Thread |-> [pc |-> "idle", n |-> 0]]
  /\ passed = 0 /\ queued = 0

\* A request for attendance arrives: the handler asks check_lockout first.
Request ==
  /\ At("loop", "idle") /\ passed < Waiting
  /\ Goto("loop", "check")
  /\ UNCHANGED <<count, lock, timer, firing, passed, queued>>

CheckLockout(t) ==
  /\ At(t, "check")
  /\ CASE lock = Unset -> Goto(t, "ok")
       [] lock = 0 -> Goto(t, "expire")
       [] OTHER -> Finish(t)
  /\ UNCHANGED <<count, lock, timer, firing, passed, queued>>

RemoveExpired(t) ==
  /\ At(t, "expire") /\ lock' = Unset /\ Goto(t, "ok")
  /\ UNCHANGED <<count, timer, firing, passed, queued>>

Pass ==
  /\ At("loop", "ok") /\ passed' = passed + 1 /\ Finish("loop")
  /\ UNCHANGED <<count, lock, timer, firing, queued>>

\* Geofence or WiFi refuse a handler: it records a failure on the event loop.
Refuse ==
  /\ At("loop", "idle") /\ passed > 0 /\ passed' = passed - 1 /\ Goto("loop", "read")
  /\ UNCHANGED <<count, lock, timer, firing, queued>>

\* Everything in order: the handler waits for the person's semaphore.
Queue ==
  /\ At("loop", "idle") /\ passed > 0 /\ queued < Waiting
  /\ passed' = passed - 1 /\ queued' = queued + 1
  /\ UNCHANGED <<count, lock, timer, firing, proc>>

\* acquire_user_lock: one verification at a time enters the pool.
Enter ==
  /\ At("pool", "idle") /\ queued > 0 /\ queued' = queued - 1 /\ Goto("pool", "check")
  /\ UNCHANGED <<count, lock, timer, firing, passed>>

\* The check at the head of the verification, and the one behind a failure.
Proceed ==
  /\ At("pool", "ok")
  /\ IF proc["pool"].n = 0 THEN Goto("pool", "work") ELSE Finish("pool")
  /\ UNCHANGED <<count, lock, timer, firing, passed, queued>>

\* The verification: the face does not match (or the geofence refuses), it
\* matches, or the image is no use and nothing is recorded.
Mismatch ==
  /\ At("pool", "work") /\ Goto("pool", "read")
  /\ UNCHANGED <<count, lock, timer, firing, passed, queued>>

Match ==
  /\ At("pool", "work") /\ count' = 0 /\ Finish("pool")
  /\ UNCHANGED <<lock, timer, firing, passed, queued>>

Unusable ==
  /\ At("pool", "work") /\ Finish("pool")
  /\ UNCHANGED <<count, lock, timer, firing, passed, queued>>

\* record_failed_attempt: read the count, write it plus one, and at the limit
\* trigger the lockout.
ReadCount(t) ==
  /\ At(t, "read")
  /\ proc' = [proc EXCEPT ![t] = [pc |-> "put", n |-> Bounded(count + 1)]]
  /\ UNCHANGED <<count, lock, timer, firing, passed, queued>>

PutCount(t) ==
  /\ At(t, "put") /\ count' = proc[t].n
  /\ IF proc[t].n >= Limit THEN Goto(t, "lock")
     ELSE IF t = "pool" THEN Goto(t, "check") ELSE Finish(t)
  /\ UNCHANGED <<lock, timer, firing, passed, queued>>

\* trigger_lockout: store the lock, then replace the timer.
PutLock(t) ==
  /\ At(t, "lock") /\ lock' = Duration /\ Goto(t, "arm")
  /\ UNCHANGED <<count, timer, firing, passed, queued>>

\* Slip: the old timer is cancelled and no new one started.
ArmCancelsOnly(t) ==
  /\ At(t, "arm") /\ timer' = (IF timer = Unset THEN Duration ELSE Unset)
  /\ IF t = "pool" THEN Goto(t, "check") ELSE Finish(t)
  /\ UNCHANGED <<count, lock, firing, passed, queued>>

Arm(t) ==
  /\ At(t, "arm") /\ timer' = Duration
  /\ IF t = "pool" THEN Goto(t, "check") ELSE Finish(t)
  /\ UNCHANGED <<count, lock, firing, passed, queued>>

\* A tick of the clock.
Less(x) == IF x = Unset \/ x = 0 THEN x ELSE x - 1
Tick ==
  /\ lock' = Less(lock) /\ timer' = Less(timer)
  /\ UNCHANGED <<count, firing, proc, passed, queued>>

\* The timer's thread calls remove_lockout: from here on cancel() is too late.
Fire ==
  /\ timer = 0 /\ firing = "no" /\ timer' = Unset /\ firing' = "lock"
  /\ UNCHANGED <<count, lock, proc, passed, queued>>

RemoveLock ==
  /\ firing = "lock" /\ lock' = Unset /\ firing' = "count"
  /\ UNCHANGED <<count, timer, proc, passed, queued>>

RemoveCount ==
  /\ firing = "count" /\ count' = 0 /\ firing' = "no"
  /\ UNCHANGED <<lock, timer, proc, passed, queued>>

\* clear_cache: an administrator empties both caches, the timers stay.
ClearLocks ==
  /\ At("loop", "idle") /\ lock' = Unset /\ Goto("loop", "clear")
  /\ UNCHANGED <<count, timer, firing, passed, queued>>

ClearCounts ==
  /\ At("loop", "clear") /\ count' = 0 /\ Finish("loop")
  /\ UNCHANGED <<lock, timer, firing, passed, queued>>

Next ==
  \/ Request \/ Pass \/ Refuse \/ Queue \/ Enter \/ Proceed
  \/ Mismatch \/ Match \/ Unusable
  \/ \E t \in Thread :
       \/ CheckLockout(t) \/ RemoveExpired(t)
       \/ ReadCount(t) \/ PutCount(t) \/ PutLock(t) \/ Arm(t)
  \/ Tick \/ Fire \/ RemoveLock \/ RemoveCount \/ ClearLocks \/ ClearCounts

\* The steps a thread takes within an operation.
Continue(t) ==
  \/ CheckLockout(t) \/ RemoveExpired(t)
  \/ ReadCount(t) \/ PutCount(t) \/ PutLock(t) \/ Arm(t)
  \/ t = "loop" /\ (Pass \/ ClearCounts)
  \/ t = "pool" /\ Proceed

\* A thread that started an operation goes on, time passes and timers fire.
Fairness ==
  /\ WF_vars(Tick) /\ WF_vars(Fire) /\ WF_vars(RemoveLock \/ RemoveCount)
  /\ \A t \in Thread : WF_vars(Continue(t))
Spec == Init /\ [][Next]_vars
FairSpec == Spec /\ Fairness

-----------------------------------------------------------------------------
\* Every variable has its type.
TypeOK ==
  /\ count \in 0..FailBound /\ lock \in {Unset} \cup 0..Duration /\ timer \in {Unset} \cup 0..Duration
  /\ firing \in {"no", "lock", "count"}
  /\ proc \in [Thread -> [pc : Step, n : 0..FailBound]]
  /\ passed \in 0..Waiting /\ queued \in 0..Waiting

Quiet == \A t \in Thread : proc[t].pc \notin {"put", "lock", "arm"}

\* Nobody is left with a count at the limit: whenever the count stands at the
\* limit and no failure is being recorded, a timer or its callback will reset it
\* (otherwise each single failure would lock the person again for ever).
ResetComing == count >= Limit /\ Quiet => timer # Unset \/ firing # "no"

\* A lock in force disappears before its time only through the callback of an
\* earlier timer, a check that read the lock before it, or an administrator;
\* never because of a success or another request.
LiftedOnlyBy ==
  Locked /\ lock' = Unset =>
    \/ firing = "lock" \/ proc'["loop"].pc = "clear"
    \/ \E t \in Thread : At(t, "expire")

\* record_failed_attempt: each failure raises the count by one.
CountsEvery ==
  [][\A t \in Thread : At(t, "put") /\ ~At(t, "put")' => count' = Bounded(count + 1)]_vars

=============================================================================
