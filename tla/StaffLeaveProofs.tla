-------------------------- MODULE StaffLeaveProofs --------------------------
(***************************************************************************)
(* Proofs about StaffLeave, for every set of requests, colleagues, slots   *)
(* and days and any number of interrupted handlers.                        *)
(*                                                                         *)
(* What the running handler still has to do (job) is only safe because of  *)
(* what it has already done: the request is still waiting while slots are  *)
(* handed over, the decision is on the row before its audit row and its    *)
(* consequences are written.  JobOK says so; Base adds the types and two   *)
(* facts about nominees, and is inductive.  Each safety property is then   *)
(* inductive relative to Base, and each step maps to a step of             *)
(* LeaveLifecycle or to a stutter.                                         *)
(*                                                                         *)
(* Proofs about StaffSchedule, for any teachers, classes and timetables:   *)
(* the views of a date tell one story, and reminders leave nobody out.     *)
(***************************************************************************)
EXTENDS StaffLeave, StaffSchedule, SetSums

\* A request that waits for an answer has someone to give it.
NomineeOK ==
    \A q \in Requests : wf[q] = "AWAITING_ALTERNATE" => alternate[q] \in Staff

\* An acceptance has moved its request on.
AcceptedMoved ==
    \A q \in Requests : altst[q] = "ACCEPTED" =>
        wf[q] \notin {"NONE", "AWAITING_ALTERNATE"}

\* What the row already says when a handler owes an audit row for it.
WhatHolds(q, what) ==
    /\ what = "ADMIN_APPROVED" => wf[q] = "APPROVED"
    /\ what = "ADMIN_REJECTED" => wf[q] = "REJECTED"
    /\ what = "CANCELLED" => wf[q] = "CANCELLED"
    /\ what = "HOD_REJECTED" => hod[q] = "REJECTED" /\ wf[q] = "AWAITING_HOD_ADMIN"
    /\ what = "ALTERNATE_ACCEPTED" => altst[q] = "ACCEPTED"

\* What a running handler relies on, at each of its statements.
JobOK ==
    /\ job.pc \notin {"idle", "expired"} => job.q \in Requests /\ WhatHolds(job.q, job.what)
    /\ job.pc = "audit" => job.what \in Actions
    /\ job.pc = "assign" =>
          /\ Answerable(job.q)
          /\ \A k \in SlotsOf[job.q] :
                k \in job.slots \/ <<job.q, alternate[job.q], k>> \in active
    /\ job.pc = "revoke" => job.what \in {"HOD_REJECTED", "ADMIN_REJECTED"}
    /\ job.pc = "reject" =>
          /\ job.what = "HOD_REJECTED"
          /\ \A x \in active : x[1] # job.q
    /\ job.pc \in {"credit", "deduct"} => job.what = "ADMIN_APPROVED"
    /\ job.pc = "credit" => job.days \subseteq DaysOf[job.q]

\* The inductive invariant.
Base == TypeOK /\ NomineeOK /\ AcceptedMoved /\ JobOK

\* While nothing was interrupted, slots are held by the nominee who accepted,
\* or is being handed them now.
SoleCover ==
    faults = 0 => \A x \in active :
        /\ x[2] = alternate[x[1]]
        /\ altst[x[1]] = "ACCEPTED" \/ (job.pc = "assign" /\ job.q = x[1])

-----------------------------------------------------------------------------
\* Nothing is submitted and nothing runs at first, so Base holds.
LEMMA BaseInit == Init => Base
  <1> SUFFICES ASSUME Init PROVE Base OBVIOUS
  <1> USE RequestsAssumption, BoundsAssumption, NullsAssumption
  <1>1. TypeOK BY DEF Init, TypeOK, Job, Idle, Workflow, Answers, Verdicts
  <1>2. NomineeOK /\ AcceptedMoved BY DEF Init, NomineeOK, AcceptedMoved
  <1>3. JobOK BY DEF Init, JobOK, Idle
  <1> QED BY <1>1, <1>2, <1>3 DEF Base

\* An endpoint keeps the types: it writes members of the status sets only.
LEMMA EndpointType ==
    ASSUME Base, NEW q \in Requests, Endpoint(q)
    PROVE  TypeOK'
  <1> USE RequestsAssumption, NullsAssumption
  <1> USE DEF Base, TypeOK, Job, Idle, Workflow, Answers, Verdicts, Actions,
              Owes, Answerable, row, effect
  <1>1. ASSUME NEW a \in Staff \cup {NoStaff}, Submit(q, a) PROVE TypeOK'
    BY <1>1 DEF Submit
  <1>2. CASE RespondTooLate(q) BY <1>2 DEF RespondTooLate
  <1>3. CASE Decline(q) BY <1>3 DEF Decline
  <1>4. CASE Accept(q) BY <1>4 DEF Accept
  <1>5. ASSUME NEW a \in Staff, Renominate(q, a) PROVE TypeOK'
    BY <1>5 DEF Renominate
  <1>6. CASE Cancel(q) BY <1>6 DEF Cancel
  <1>7. ASSUME NEW v \in {"APPROVED", "REJECTED"}, HodAct(q, v) PROVE TypeOK'
    BY <1>7 DEF HodAct
  <1>8. ASSUME NEW v \in {"APPROVED", "REJECTED"}, AdminAct(q, v) PROVE TypeOK'
    BY <1>8 DEF AdminAct
  <1> QED BY <1>1, <1>2, <1>3, <1>4, <1>5, <1>6, <1>7, <1>8 DEF Endpoint

\* So do the statements that follow it, the expiry task, and interruptions.
LEMMA JobType ==
    ASSUME Base, JobStep \/ Expire \/ Interrupted
    PROVE  TypeOK'
  <1> USE RequestsAssumption, BoundsAssumption, NullsAssumption
  <1> USE DEF Base, TypeOK, Job, Idle, Workflow, Answers, Verdicts, Actions,
              Answerable, row, effect
  <1>1. CASE AssignSlot
    <2>1. job.q \in Requests /\ alternate[job.q] \in Staff
      BY <1>1 DEF AssignSlot, JobOK, NomineeOK
    <2>2. PICK k \in job.slots :
            /\ active' = active \cup {<<job.q, alternate[job.q], k>>}
            /\ job' = [job EXCEPT !.slots = @ \ {k}]
      BY <1>1 DEF AssignSlot
    <2>3. k \in Slots /\ job.slots \ {k} \in SUBSET Slots OBVIOUS
    <2>4. job' \in Job BY <2>2, <2>3
    <2>5. active' \in SUBSET (Requests \X Staff \X Slots) BY <2>1, <2>2, <2>3
    <2> QED BY <1>1, <2>4, <2>5 DEF AssignSlot
  <1>2. CASE AcceptDone BY <1>2 DEF AcceptDone
  <1>3. CASE WriteAudit
    <2>1. job.q \in Requests /\ job.what \in Actions BY <1>3 DEF WriteAudit, JobOK
    <2>2. audit' \in [Requests -> SUBSET Actions] BY <1>3, <2>1 DEF WriteAudit
    <2>3. job' \in Job BY <1>3, <2>1 DEF WriteAudit, AfterAudit
    <2> QED BY <1>3, <2>2, <2>3 DEF WriteAudit
  <1>4. CASE Revoke BY <1>4 DEF Revoke
  <1>5. CASE HodReject BY <1>5 DEF HodReject
  <1>6. CASE CreditDay
    <2>1. job.q \in Requests BY <1>6 DEF CreditDay, JobOK
    <2>2. PICK d \in job.days :
            /\ day' = [day EXCEPT ![<<RequesterOf[job.q], d>>] = job.q]
            /\ job' = [job EXCEPT !.days = @ \ {d}]
      BY <1>6 DEF CreditDay
    <2>3. job.days \ {d} \in SUBSET Days OBVIOUS
    <2>4. job' \in Job BY <2>2, <2>3
    <2>5. day' \in [Staff \X Days -> Requests \cup {NoRequest}] BY <2>1, <2>2
    <2> QED BY <1>6, <2>4, <2>5 DEF CreditDay
  <1>7. CASE CreditDone BY <1>7 DEF CreditDone
  <1>8. CASE Deduct
    <2>1. job.q \in Requests BY <1>8 DEF Deduct, JobOK
    <2>2. RequesterOf[job.q] \in Staff /\ CostOf[job.q] \in Nat BY <2>1
    <2>3. balance[RequesterOf[job.q]] \in Nat BY <2>2
    <2>4. (IF CostOf[job.q] <= balance[RequesterOf[job.q]]
             THEN balance[RequesterOf[job.q]] - CostOf[job.q] ELSE 0) \in Nat
      BY <2>2, <2>3
    <2>5. balance' \in [Staff -> Nat] BY <1>8, <2>2, <2>4 DEF Deduct
    <2> QED BY <1>8, <2>5 DEF Deduct
  <1>9. CASE ExpireAudit BY <1>9 DEF ExpireAudit
  <1>10. CASE Expire BY <1>10 DEF Expire, Overdue
  <1>11. CASE Interrupted BY <1>11 DEF Interrupted
  <1> QED BY <1>1, <1>2, <1>3, <1>4, <1>5, <1>6, <1>7, <1>8, <1>9, <1>10, <1>11
          DEF JobStep

\* An endpoint starts when nothing runs, and leaves behind a job that its own
\* row justifies.
LEMMA EndpointRest ==
    ASSUME Base, NEW q \in Requests, Endpoint(q)
    PROVE  NomineeOK' /\ AcceptedMoved' /\ JobOK'
  <1> USE RequestsAssumption, NullsAssumption
  <1> USE DEF Base, TypeOK, NomineeOK, AcceptedMoved, JobOK, WhatHolds, Idle,
              Workflow, Answers, Verdicts, Actions, Owes, Answerable, row, effect
  <1>1. ASSUME NEW a \in Staff \cup {NoStaff}, Submit(q, a)
        PROVE  NomineeOK' /\ AcceptedMoved' /\ JobOK'
    BY <1>1 DEF Submit
  <1>2. CASE RespondTooLate(q) BY <1>2 DEF RespondTooLate
  <1>3. CASE Decline(q) BY <1>3 DEF Decline
  <1>4. CASE Accept(q) BY <1>4 DEF Accept
  <1>5. ASSUME NEW a \in Staff, Renominate(q, a)
        PROVE  NomineeOK' /\ AcceptedMoved' /\ JobOK'
    BY <1>5 DEF Renominate
  <1>6. CASE Cancel(q) BY <1>6 DEF Cancel
  <1>7. ASSUME NEW v \in {"APPROVED", "REJECTED"}, HodAct(q, v)
        PROVE  NomineeOK' /\ AcceptedMoved' /\ JobOK'
    BY <1>7 DEF HodAct
  <1>8. ASSUME NEW v \in {"APPROVED", "REJECTED"}, AdminAct(q, v)
        PROVE  NomineeOK' /\ AcceptedMoved' /\ JobOK'
    BY <1>8 DEF AdminAct
  <1> QED BY <1>1, <1>2, <1>3, <1>4, <1>5, <1>6, <1>7, <1>8 DEF Endpoint

\* Each later statement leaves to the next one what that one relies on.
LEMMA JobRest ==
    ASSUME Base, JobStep \/ Expire \/ Interrupted
    PROVE  NomineeOK' /\ AcceptedMoved' /\ JobOK'
  <1> USE RequestsAssumption, NullsAssumption
  <1> USE DEF Base, NomineeOK, AcceptedMoved, JobOK, WhatHolds, Answerable, row, effect
  <1> TypeOK BY DEF Base
  <1>1. CASE AssignSlot
    <2>1. PICK k \in job.slots :
            /\ active' = active \cup {<<job.q, alternate[job.q], k>>}
            /\ job' = [job EXCEPT !.slots = @ \ {k}]
      BY <1>1 DEF AssignSlot
    <2>2. /\ job'.pc = "assign" /\ job'.q = job.q /\ job'.what = job.what
          /\ job'.slots = job.slots \ {k}
      BY <1>1, <2>1 DEF AssignSlot, TypeOK, Job
    <2> QED BY <1>1, <2>1, <2>2 DEF AssignSlot
  <1>2. CASE AcceptDone
    <2>1. job.q \in Requests BY <1>2 DEF AcceptDone
    <2>2. /\ job'.pc = "audit" /\ job'.q = job.q /\ job'.what = "ALTERNATE_ACCEPTED"
      BY <1>2 DEF AcceptDone, TypeOK, Job
    <2>3. altst'[job.q] = "ACCEPTED" /\ wf'[job.q] = "AWAITING_HOD_ADMIN"
      BY <1>2, <2>1 DEF AcceptDone, TypeOK
    <2> QED BY <1>2, <2>1, <2>2, <2>3 DEF AcceptDone, TypeOK, Actions
  <1>3. CASE WriteAudit
    <2>1. job.q \in Requests /\ job.what \in Actions /\ WhatHolds(job.q, job.what)
      BY <1>3 DEF WriteAudit
    <2> QED BY <1>3, <2>1 DEF WriteAudit, AfterAudit, Idle, TypeOK, Job, Actions
  <1>4. CASE Revoke BY <1>4 DEF Revoke, Idle, TypeOK, Job
  <1>5. CASE HodReject BY <1>5 DEF HodReject, Idle, TypeOK
  <1>6. CASE CreditDay
    <2>1. PICK d \in job.days : job' = [job EXCEPT !.days = @ \ {d}]
      BY <1>6 DEF CreditDay
    <2>2. /\ job'.pc = "credit" /\ job'.q = job.q /\ job'.what = job.what
          /\ job'.days = job.days \ {d}
      BY <1>6, <2>1 DEF CreditDay, TypeOK, Job
    <2> QED BY <1>6, <2>2 DEF CreditDay
  <1>7. CASE CreditDone
    <2>1. job'.pc = "deduct" /\ job'.q = job.q /\ job'.what = job.what
      BY <1>7 DEF CreditDone, TypeOK, Job
    <2> QED BY <1>7, <2>1 DEF CreditDone
  <1>8. CASE Deduct BY <1>8 DEF Deduct, Idle
  <1>9. CASE ExpireAudit
    <2>1. job'.pc \in {"idle", "expired"} BY <1>9 DEF ExpireAudit, Idle, TypeOK, Job
    <2> QED BY <1>9, <2>1 DEF ExpireAudit
  <1>10. CASE Expire
    <2>1. job'.pc = "expired" BY <1>10 DEF Expire, Idle
    <2>2. \A q \in Requests : altst'[q] = "ACCEPTED" => altst[q] = "ACCEPTED"
      BY <1>10 DEF Expire
    <2> QED BY <1>10, <2>1, <2>2 DEF Expire
  <1>11. CASE Interrupted
    <2>1. job'.pc = "idle" BY <1>11 DEF Interrupted, Idle
    <2> QED BY <1>11, <2>1 DEF Interrupted
  <1> QED BY <1>1, <1>2, <1>3, <1>4, <1>5, <1>6, <1>7, <1>8, <1>9, <1>10, <1>11
          DEF JobStep

\* Every step preserves Base; a passing deadline disturbs nothing it speaks of.
LEMMA BaseStep == Base /\ [Next]_vars => Base'
  <1> SUFFICES ASSUME Base, [Next]_vars PROVE Base' OBVIOUS
  <1>1. ASSUME NEW q \in Requests, Endpoint(q) PROVE Base'
    BY <1>1, EndpointType, EndpointRest DEF Base
  <1>2. ASSUME NEW q \in Requests, DeadlinePasses(q) PROVE Base'
    <2>1. TypeOK' BY <1>2 DEF DeadlinePasses, Base, TypeOK, row, effect
    <2>2. NomineeOK' /\ AcceptedMoved'
      BY <1>2 DEF DeadlinePasses, Base, NomineeOK, AcceptedMoved, row, effect
    <2>3. JobOK'
      BY <1>2 DEF DeadlinePasses, Base, JobOK, WhatHolds, Answerable, row, effect
    <2> QED BY <2>1, <2>2, <2>3 DEF Base
  <1>3. CASE JobStep \/ Expire \/ Interrupted
    BY <1>3, JobType, JobRest DEF Base
  <1>4. CASE UNCHANGED vars
    BY <1>4 DEF vars, row, effect, Base, TypeOK, NomineeOK, AcceptedMoved, JobOK,
                WhatHolds, Answerable
  <1> QED BY <1>1, <1>2, <1>3, <1>4 DEF Next

\* Base holds throughout: no handler of staff_leave_service.py ever works on a
\* request whose row does not justify what it is doing.
THEOREM BaseHolds == Spec => []Base
  <1> QED BY BaseInit, BaseStep, PTL DEF Spec

\* Statuses, assignments, attendance marks and balances (never below zero)
\* keep their types.
THEOREM LeaveTypeCorrect == Spec => []TypeOK
  <1>1. Base => TypeOK BY DEF Base
  <1> QED BY <1>1, BaseHolds, PTL

-----------------------------------------------------------------------------
\* Slots of an accepted request are all handed over before it moves on, and
\* taken back only after a rejection is on its row.
LEMMA CoverStep == Base /\ AcceptedIsCovered /\ [Next]_vars => AcceptedIsCovered'
  <1> SUFFICES ASSUME Base, AcceptedIsCovered, [Next]_vars PROVE AcceptedIsCovered' OBVIOUS
  <1> USE RequestsAssumption, NullsAssumption
  <1> USE DEF Base, TypeOK, AcceptedIsCovered, AcceptedMoved, JobOK, WhatHolds, Cover, row, effect
  <1>1. ASSUME NEW q \in Requests, NEW a \in Staff \cup {NoStaff}, Submit(q, a)
        PROVE  AcceptedIsCovered'
    BY <1>1 DEF Submit, Owes
  <1>2. ASSUME NEW q \in Requests, RespondTooLate(q) PROVE AcceptedIsCovered'
    BY <1>2 DEF RespondTooLate, Owes, Answerable
  <1>3. ASSUME NEW q \in Requests, Decline(q) PROVE AcceptedIsCovered'
    BY <1>3 DEF Decline, Owes, Answerable
  <1>4. ASSUME NEW q \in Requests, Accept(q) PROVE AcceptedIsCovered'
    BY <1>4 DEF Accept, Answerable
  <1>5. ASSUME NEW q \in Requests, NEW a \in Staff, Renominate(q, a)
        PROVE  AcceptedIsCovered'
    BY <1>5 DEF Renominate, Owes
  <1>6. ASSUME NEW q \in Requests, Cancel(q) PROVE AcceptedIsCovered'
    BY <1>6 DEF Cancel, Owes
  <1>7. ASSUME NEW q \in Requests, NEW v \in {"APPROVED", "REJECTED"}, HodAct(q, v)
        PROVE  AcceptedIsCovered'
    BY <1>7 DEF HodAct, Owes
  <1>8. ASSUME NEW q \in Requests, NEW v \in {"APPROVED", "REJECTED"}, AdminAct(q, v)
        PROVE  AcceptedIsCovered'
    BY <1>8 DEF AdminAct, Owes
  <1>9. ASSUME NEW q \in Requests, DeadlinePasses(q) PROVE AcceptedIsCovered'
    BY <1>9 DEF DeadlinePasses
  <1>10. CASE AssignSlot BY <1>10 DEF AssignSlot
  <1>11. CASE AcceptDone BY <1>11 DEF AcceptDone
  <1>12. CASE WriteAudit BY <1>12 DEF WriteAudit
  <1>13. CASE Revoke BY <1>13 DEF Revoke
  <1>14. CASE HodReject BY <1>14 DEF HodReject
  <1>15. CASE CreditDay BY <1>15 DEF CreditDay
  <1>16. CASE CreditDone BY <1>16 DEF CreditDone
  <1>17. CASE Deduct BY <1>17 DEF Deduct
  <1>18. CASE ExpireAudit BY <1>18 DEF ExpireAudit
  <1>19. CASE Expire BY <1>19 DEF Expire, Overdue
  <1>20. CASE Interrupted BY <1>20 DEF Interrupted
  <1>21. CASE UNCHANGED vars BY <1>21 DEF vars
  <1> QED BY <1>1, <1>2, <1>3, <1>4, <1>5, <1>6, <1>7, <1>8, <1>9, <1>10, <1>11,
            <1>12, <1>13, <1>14, <1>15, <1>16, <1>17, <1>18, <1>19, <1>20, <1>21
          DEF Next, Endpoint, JobStep

\* No statement rewrites a status that an audit row has recorded as final.
LEMMA TrailStep == Base /\ TrailTruthful /\ [Next]_vars => TrailTruthful'
  <1> SUFFICES ASSUME Base, TrailTruthful, [Next]_vars PROVE TrailTruthful' OBVIOUS
  <1> USE RequestsAssumption, NullsAssumption
  <1> USE DEF Base, TypeOK, TrailTruthful, AcceptedMoved, JobOK, WhatHolds, Answerable, row, effect
  <1>1. ASSUME NEW q \in Requests, NEW a \in Staff \cup {NoStaff}, Submit(q, a)
        PROVE  TrailTruthful'
    BY <1>1 DEF Submit, Owes
  <1>2. ASSUME NEW q \in Requests, RespondTooLate(q) PROVE TrailTruthful'
    BY <1>2 DEF RespondTooLate, Owes, Answerable
  <1>3. ASSUME NEW q \in Requests, Decline(q) PROVE TrailTruthful'
    BY <1>3 DEF Decline, Owes, Answerable
  <1>4. ASSUME NEW q \in Requests, Accept(q) PROVE TrailTruthful'
    BY <1>4 DEF Accept, Answerable
  <1>5. ASSUME NEW q \in Requests, NEW a \in Staff, Renominate(q, a)
        PROVE  TrailTruthful'
    BY <1>5 DEF Renominate, Owes
  <1>6. ASSUME NEW q \in Requests, Cancel(q) PROVE TrailTruthful'
    BY <1>6 DEF Cancel, Owes
  <1>7. ASSUME NEW q \in Requests, NEW v \in {"APPROVED", "REJECTED"}, HodAct(q, v)
        PROVE  TrailTruthful'
    BY <1>7 DEF HodAct, Owes
  <1>8. ASSUME NEW q \in Requests, NEW v \in {"APPROVED", "REJECTED"}, AdminAct(q, v)
        PROVE  TrailTruthful'
    BY <1>8 DEF AdminAct, Owes
  <1>9. ASSUME NEW q \in Requests, DeadlinePasses(q) PROVE TrailTruthful'
    BY <1>9 DEF DeadlinePasses
  <1>10. CASE AssignSlot BY <1>10 DEF AssignSlot
  <1>11. CASE AcceptDone BY <1>11 DEF AcceptDone
  <1>12. CASE WriteAudit BY <1>12 DEF WriteAudit
  <1>13. CASE Revoke BY <1>13 DEF Revoke
  <1>14. CASE HodReject BY <1>14 DEF HodReject
  <1>15. CASE CreditDay BY <1>15 DEF CreditDay
  <1>16. CASE CreditDone BY <1>16 DEF CreditDone
  <1>17. CASE Deduct BY <1>17 DEF Deduct
  <1>18. CASE ExpireAudit BY <1>18 DEF ExpireAudit
  <1>19. CASE Expire BY <1>19 DEF Expire, Overdue
  <1>20. CASE Interrupted BY <1>20 DEF Interrupted
  <1>21. CASE UNCHANGED vars BY <1>21 DEF vars
  <1> QED BY <1>1, <1>2, <1>3, <1>4, <1>5, <1>6, <1>7, <1>8, <1>9, <1>10, <1>11,
            <1>12, <1>13, <1>14, <1>15, <1>16, <1>17, <1>18, <1>19, <1>20, <1>21
          DEF Next, Endpoint, JobStep

\* The HOD's rejection sets the workflow status after the slots are gone, and
\* slots are handed over only to requests that wait for an answer.
LEMMA RejectedStep == Base /\ RejectedIsUncovered /\ [Next]_vars => RejectedIsUncovered'
  <1> SUFFICES ASSUME Base, RejectedIsUncovered, [Next]_vars PROVE RejectedIsUncovered' OBVIOUS
  <1> USE RequestsAssumption, NullsAssumption
  <1> USE DEF Base, TypeOK, RejectedIsUncovered, JobOK, WhatHolds, Cover, Answerable, row, effect
  <1>1. ASSUME NEW q \in Requests, NEW a \in Staff \cup {NoStaff}, Submit(q, a)
        PROVE  RejectedIsUncovered'
    BY <1>1 DEF Submit, Owes
  <1>2. ASSUME NEW q \in Requests, RespondTooLate(q) PROVE RejectedIsUncovered'
    BY <1>2 DEF RespondTooLate, Owes, Answerable
  <1>3. ASSUME NEW q \in Requests, Decline(q) PROVE RejectedIsUncovered'
    BY <1>3 DEF Decline, Owes, Answerable
  <1>4. ASSUME NEW q \in Requests, Accept(q) PROVE RejectedIsUncovered'
    BY <1>4 DEF Accept, Answerable
  <1>5. ASSUME NEW q \in Requests, NEW a \in Staff, Renominate(q, a)
        PROVE  RejectedIsUncovered'
    BY <1>5 DEF Renominate, Owes
  <1>6. ASSUME NEW q \in Requests, Cancel(q) PROVE RejectedIsUncovered'
    BY <1>6 DEF Cancel, Owes
  <1>7. ASSUME NEW q \in Requests, NEW v \in {"APPROVED", "REJECTED"}, HodAct(q, v)
        PROVE  RejectedIsUncovered'
    BY <1>7 DEF HodAct, Owes
  <1>8. ASSUME NEW q \in Requests, NEW v \in {"APPROVED", "REJECTED"}, AdminAct(q, v)
        PROVE  RejectedIsUncovered'
    BY <1>8 DEF AdminAct, Owes
  <1>9. ASSUME NEW q \in Requests, DeadlinePasses(q) PROVE RejectedIsUncovered'
    BY <1>9 DEF DeadlinePasses
  <1>10. CASE AssignSlot BY <1>10 DEF AssignSlot
  <1>11. CASE AcceptDone BY <1>11 DEF AcceptDone
  <1>12. CASE WriteAudit BY <1>12 DEF WriteAudit
  <1>13. CASE Revoke BY <1>13 DEF Revoke
  <1>14. CASE HodReject BY <1>14 DEF HodReject
  <1>15. CASE CreditDay BY <1>15 DEF CreditDay
  <1>16. CASE CreditDone BY <1>16 DEF CreditDone
  <1>17. CASE Deduct BY <1>17 DEF Deduct
  <1>18. CASE ExpireAudit BY <1>18 DEF ExpireAudit
  <1>19. CASE Expire BY <1>19 DEF Expire, Overdue
  <1>20. CASE Interrupted BY <1>20 DEF Interrupted
  <1>21. CASE UNCHANGED vars BY <1>21 DEF vars
  <1> QED BY <1>1, <1>2, <1>3, <1>4, <1>5, <1>6, <1>7, <1>8, <1>9, <1>10, <1>11,
            <1>12, <1>13, <1>14, <1>15, <1>16, <1>17, <1>18, <1>19, <1>20, <1>21
          DEF Next, Endpoint, JobStep

\* Days are marked only after the approval, which nothing undoes.
LEMMA MarkedStep == Base /\ MarkedIsApproved /\ [Next]_vars => MarkedIsApproved'
  <1> SUFFICES ASSUME Base, MarkedIsApproved, [Next]_vars PROVE MarkedIsApproved' OBVIOUS
  <1> USE RequestsAssumption, NullsAssumption
  <1> USE DEF Base, TypeOK, MarkedIsApproved, JobOK, WhatHolds, Answerable, row, effect
  <1>1. ASSUME NEW q \in Requests, NEW a \in Staff \cup {NoStaff}, Submit(q, a)
        PROVE  MarkedIsApproved'
    BY <1>1 DEF Submit, Owes
  <1>2. ASSUME NEW q \in Requests, RespondTooLate(q) PROVE MarkedIsApproved'
    BY <1>2 DEF RespondTooLate, Owes, Answerable
  <1>3. ASSUME NEW q \in Requests, Decline(q) PROVE MarkedIsApproved'
    BY <1>3 DEF Decline, Owes, Answerable
  <1>4. ASSUME NEW q \in Requests, Accept(q) PROVE MarkedIsApproved'
    BY <1>4 DEF Accept, Answerable
  <1>5. ASSUME NEW q \in Requests, NEW a \in Staff, Renominate(q, a)
        PROVE  MarkedIsApproved'
    BY <1>5 DEF Renominate, Owes
  <1>6. ASSUME NEW q \in Requests, Cancel(q) PROVE MarkedIsApproved'
    BY <1>6 DEF Cancel, Owes
  <1>7. ASSUME NEW q \in Requests, NEW v \in {"APPROVED", "REJECTED"}, HodAct(q, v)
        PROVE  MarkedIsApproved'
    BY <1>7 DEF HodAct, Owes
  <1>8. ASSUME NEW q \in Requests, NEW v \in {"APPROVED", "REJECTED"}, AdminAct(q, v)
        PROVE  MarkedIsApproved'
    BY <1>8 DEF AdminAct, Owes
  <1>9. ASSUME NEW q \in Requests, DeadlinePasses(q) PROVE MarkedIsApproved'
    BY <1>9 DEF DeadlinePasses
  <1>10. CASE AssignSlot BY <1>10 DEF AssignSlot
  <1>11. CASE AcceptDone BY <1>11 DEF AcceptDone
  <1>12. CASE WriteAudit BY <1>12 DEF WriteAudit
  <1>13. CASE Revoke BY <1>13 DEF Revoke
  <1>14. CASE HodReject BY <1>14 DEF HodReject
  <1>15. CASE CreditDay BY <1>15 DEF CreditDay
  <1>16. CASE CreditDone BY <1>16 DEF CreditDone
  <1>17. CASE Deduct BY <1>17 DEF Deduct
  <1>18. CASE ExpireAudit BY <1>18 DEF ExpireAudit
  <1>19. CASE Expire BY <1>19 DEF Expire, Overdue
  <1>20. CASE Interrupted BY <1>20 DEF Interrupted
  <1>21. CASE UNCHANGED vars BY <1>21 DEF vars
  <1> QED BY <1>1, <1>2, <1>3, <1>4, <1>5, <1>6, <1>7, <1>8, <1>9, <1>10, <1>11,
            <1>12, <1>13, <1>14, <1>15, <1>16, <1>17, <1>18, <1>19, <1>20, <1>21
          DEF Next, Endpoint, JobStep

\* Only an interruption leaves slots with someone who has not accepted, and
\* who accepted is not replaced.
LEMMA SoleStep == Base /\ SoleCover /\ [Next]_vars => SoleCover'
  <1> SUFFICES ASSUME Base, SoleCover, [Next]_vars PROVE SoleCover' OBVIOUS
  <1> USE RequestsAssumption, NullsAssumption
  <1> USE DEF Base, TypeOK, SoleCover, AcceptedMoved, JobOK, Answerable, Idle, row, effect
  <1>1. ASSUME NEW q \in Requests, NEW a \in Staff \cup {NoStaff}, Submit(q, a)
        PROVE  SoleCover'
    BY <1>1 DEF Submit, Owes
  <1>2. ASSUME NEW q \in Requests, RespondTooLate(q) PROVE SoleCover'
    BY <1>2 DEF RespondTooLate, Owes, Answerable
  <1>3. ASSUME NEW q \in Requests, Decline(q) PROVE SoleCover'
    BY <1>3 DEF Decline, Owes, Answerable
  <1>4. ASSUME NEW q \in Requests, Accept(q) PROVE SoleCover'
    BY <1>4 DEF Accept, Answerable
  <1>5. ASSUME NEW q \in Requests, NEW a \in Staff, Renominate(q, a)
        PROVE  SoleCover'
    BY <1>5 DEF Renominate, Owes
  <1>6. ASSUME NEW q \in Requests, Cancel(q) PROVE SoleCover'
    BY <1>6 DEF Cancel, Owes
  <1>7. ASSUME NEW q \in Requests, NEW v \in {"APPROVED", "REJECTED"}, HodAct(q, v)
        PROVE  SoleCover'
    BY <1>7 DEF HodAct, Owes
  <1>8. ASSUME NEW q \in Requests, NEW v \in {"APPROVED", "REJECTED"}, AdminAct(q, v)
        PROVE  SoleCover'
    BY <1>8 DEF AdminAct, Owes
  <1>9. ASSUME NEW q \in Requests, DeadlinePasses(q) PROVE SoleCover'
    BY <1>9 DEF DeadlinePasses
  <1>10. CASE AssignSlot BY <1>10 DEF AssignSlot
  <1>11. CASE AcceptDone BY <1>11 DEF AcceptDone
  <1>12. CASE WriteAudit BY <1>12 DEF WriteAudit
  <1>13. CASE Revoke BY <1>13 DEF Revoke
  <1>14. CASE HodReject BY <1>14 DEF HodReject
  <1>15. CASE CreditDay BY <1>15 DEF CreditDay
  <1>16. CASE CreditDone BY <1>16 DEF CreditDone
  <1>17. CASE Deduct BY <1>17 DEF Deduct
  <1>18. CASE ExpireAudit BY <1>18 DEF ExpireAudit
  <1>19. CASE Expire BY <1>19 DEF Expire, Overdue
  <1>20. CASE Interrupted BY <1>20 DEF Interrupted
  <1>21. CASE UNCHANGED vars BY <1>21 DEF vars
  <1> QED BY <1>1, <1>2, <1>3, <1>4, <1>5, <1>6, <1>7, <1>8, <1>9, <1>10, <1>11,
            <1>12, <1>13, <1>14, <1>15, <1>16, <1>17, <1>18, <1>19, <1>20, <1>21
          DEF Next, Endpoint, JobStep

-----------------------------------------------------------------------------
\* A request whose nominee accepted stays covered in full by that nominee
\* unless it is rejected, whatever was interrupted (alternate_respond,
\* _revoke_timetable_slots).
THEOREM CoverSafe == Spec => []AcceptedIsCovered
  <1>1. Init => AcceptedIsCovered BY DEF Init, AcceptedIsCovered
  <1> QED BY <1>1, BaseHolds, CoverStep, PTL DEF Spec

\* What staff_leave_audit_log records of a decision is true of the row for good.
THEOREM TrailSafe == Spec => []TrailTruthful
  <1>1. Init => TrailTruthful BY DEF Init, TrailTruthful
  <1> QED BY <1>1, BaseHolds, TrailStep, PTL DEF Spec

\* A request the HOD alone rejected holds nobody to its slots (hod_action).
THEOREM RejectedSafe == Spec => []RejectedIsUncovered
  <1>1. Init => RejectedIsUncovered BY DEF Init, RejectedIsUncovered
  <1> QED BY <1>1, BaseHolds, RejectedStep, PTL DEF Spec

\* Leave marks of daily_attendance_status belong to approved requests of that
\* person and day (_credit_leave_attendance).
THEOREM MarkedSafe == Spec => []MarkedIsApproved
  <1>1. Init => MarkedIsApproved BY DEF Init, MarkedIsApproved
  <1> QED BY <1>1, BaseHolds, MarkedStep, PTL DEF Spec

\* Two colleagues hold slots of one request only after an interruption
\* (alternate_respond, re_nominate_alternate).
THEOREM OneCoverSafe == Spec => []OneCoverPerRequest
  <1>1. Init => SoleCover BY DEF Init, SoleCover
  <1>2. Base /\ SoleCover => OneCoverPerRequest
    <2> SUFFICES ASSUME Base, SoleCover,
                        NEW q \in Requests, NEW a \in Staff, NEW b \in Staff,
                        a # b, Cover(q, a) # {}, Cover(q, b) # {}, ~(faults > 0)
                 PROVE  FALSE
      BY DEF OneCoverPerRequest
    <2>1. faults = 0 BY BoundsAssumption DEF Base, TypeOK
    <2>2. \E k \in Slots : <<q, a, k>> \in active BY DEF Cover
    <2>3. \E k \in Slots : <<q, b, k>> \in active BY DEF Cover
    <2>4. a = alternate[q] /\ b = alternate[q] BY <2>1, <2>2, <2>3 DEF SoleCover
    <2> QED BY <2>4
  <1> QED BY <1>1, <1>2, BaseHolds, SoleStep, PTL DEF Spec

-----------------------------------------------------------------------------
\* The refinement mapping, request by request.
PhaseOf == [q \in Requests |-> Phase(q)]
HolderOf == [q \in Requests |-> Holder(q)]

\* A step that changes neither the workflow status nor the holder is a stutter.
LEMMA StutterMaps ==
    ASSUME UNCHANGED wf, HolderOf' = HolderOf
    PROVE  UNCHANGED Lifecycle!lifecycle
  <1>1. PhaseOf' = PhaseOf BY DEF PhaseOf, Phase
  <1> QED BY <1>1 DEF Lifecycle!lifecycle, PhaseOf, HolderOf

\* Writing workflow_status of one request moves the phase of that request only.
LEMMA PhaseMoves ==
    ASSUME Base, NEW q \in Requests, NEW w \in Workflow, wf' = [wf EXCEPT ![q] = w]
    PROVE  /\ PhaseOf' = [PhaseOf EXCEPT ![q] = Phase(q)']
           /\ w = "AWAITING_ALTERNATE" => Phase(q)' = "nominating"
           /\ w = "AWAITING_HOD_ADMIN" => Phase(q)' = "reviewing"
           /\ w = "APPROVED" => Phase(q)' = "approved"
           /\ w = "REJECTED" => Phase(q)' = "rejected"
           /\ w = "CANCELLED" => Phase(q)' = "cancelled"
  <1>1. wf'[q] = w /\ \A r \in Requests \ {q} : wf'[r] = wf[r] BY DEF Base, TypeOK
  <1>2. \A r \in Requests \ {q} : Phase(r)' = Phase(r) BY <1>1 DEF Phase
  <1>3. PhaseOf' = [PhaseOf EXCEPT ![q] = Phase(q)'] BY <1>2 DEF PhaseOf
  <1> QED BY <1>1, <1>3 DEF Phase

\* Rewriting the nomination of a request that nobody accepted, before or
\* after, changes no holder.
LEMMA HolderStays ==
    ASSUME Base, NEW q \in Requests, altst[q] # "ACCEPTED", altst'[q] # "ACCEPTED",
           \A r \in Requests \ {q} : alternate'[r] = alternate[r] /\ altst'[r] = altst[r]
    PROVE  HolderOf' = HolderOf
  <1>1. \A r \in Requests : Holder(r)' = Holder(r) BY DEF Holder
  <1> QED BY <1>1 DEF HolderOf

\* Nor does a step that leaves the nominations alone.
LEMMA HolderSame ==
    ASSUME UNCHANGED <<alternate, altst>> PROVE HolderOf' = HolderOf
  BY DEF HolderOf, Holder

\* A forward move of one phase is a step of the lifecycle.
LEMMA MapsTo ==
    ASSUME NEW q \in Requests,
           \/ /\ PhaseOf[q] = "unsubmitted"
              /\ Phase(q)' \in {"nominating", "reviewing"}
           \/ /\ PhaseOf[q] = "nominating"
              /\ Phase(q)' = "cancelled"
           \/ /\ PhaseOf[q] \in {"nominating", "reviewing"}
              /\ Phase(q)' \in {"approved", "rejected"},
           PhaseOf' = [PhaseOf EXCEPT ![q] = Phase(q)'],
           HolderOf' = HolderOf
    PROVE  Lifecycle!LifecycleNext
  <1> DEFINE x == Phase(q)'
  <1>1. HolderOf' = HolderOf /\ PhaseOf' = [PhaseOf EXCEPT ![q] = x] OBVIOUS
  <1>2. Lifecycle!Submits(q) \/ Lifecycle!Withdraws(q) \/ Lifecycle!Decides(q)
    BY <1>1 DEF Lifecycle!Submits, Lifecycle!Withdraws, Lifecycle!Decides,
                Lifecycle!Move, PhaseOf, HolderOf
  <1> QED BY <1>2 DEF Lifecycle!LifecycleNext

\* Every step of the workflow is a step of the lifecycle or a stutter.
LEMMA StepMaps ==
    Base /\ [Next]_vars => [Lifecycle!LifecycleNext]_(Lifecycle!lifecycle)
  <1> SUFFICES ASSUME Base, [Next]_vars
               PROVE  Lifecycle!LifecycleNext \/ UNCHANGED Lifecycle!lifecycle
    OBVIOUS
  <1> DEFINE Goal == Lifecycle!LifecycleNext \/ UNCHANGED Lifecycle!lifecycle
  <1> USE DEF row, effect
  <1>0. TypeOK /\ NomineeOK /\ AcceptedMoved /\ JobOK BY DEF Base
  <1>1. ASSUME NEW q \in Requests, NEW a \in Staff \cup {NoStaff}, Submit(q, a)
        PROVE  Goal
    <2> DEFINE w == IF a = NoStaff THEN "AWAITING_HOD_ADMIN" ELSE "AWAITING_ALTERNATE"
    <2>1. w \in Workflow /\ wf' = [wf EXCEPT ![q] = w] BY <1>1 DEF Submit, Workflow
    <2>2. HolderOf' = HolderOf
      <3>1. altst[q] # "ACCEPTED" /\ altst'[q] # "ACCEPTED"
        BY <1>0, <1>1 DEF Submit, AcceptedMoved, TypeOK
      <3> QED BY <3>1, <1>0, <1>1, HolderStays DEF Submit, TypeOK
    <2>3. PhaseOf[q] = "unsubmitted" BY <1>1 DEF Submit, PhaseOf, Phase
    <2>4. Phase(q)' \in {"nominating", "reviewing"} BY <2>1, PhaseMoves
    <2>5. PhaseOf' = [PhaseOf EXCEPT ![q] = Phase(q)'] BY <2>1, PhaseMoves
    <2> QED BY <2>2, <2>3, <2>4, <2>5, MapsTo
  <1>2. ASSUME NEW q \in Requests, RespondTooLate(q) \/ Decline(q) PROVE Goal
    <2>1. UNCHANGED wf BY <1>2 DEF RespondTooLate, Decline
    <2>2. altst[q] # "ACCEPTED" /\ altst'[q] # "ACCEPTED"
      BY <1>0, <1>2 DEF RespondTooLate, Decline, Answerable, TypeOK
    <2>3. HolderOf' = HolderOf
      BY <2>2, <1>0, <1>2, HolderStays DEF RespondTooLate, Decline, TypeOK
    <2> QED BY <2>1, <2>3, StutterMaps
  <1>3. ASSUME NEW q \in Requests, NEW a \in Staff, Renominate(q, a) PROVE Goal
    <2>1. UNCHANGED wf BY <1>3 DEF Renominate
    <2>2. altst[q] # "ACCEPTED" /\ altst'[q] # "ACCEPTED"
      BY <1>0, <1>3 DEF Renominate, AcceptedMoved, TypeOK
    <2>3. HolderOf' = HolderOf
      BY <2>2, <1>0, <1>3, HolderStays DEF Renominate, TypeOK
    <2> QED BY <2>1, <2>3, StutterMaps
  <1>4. ASSUME NEW q \in Requests, Cancel(q) PROVE Goal
    <2>1. "CANCELLED" \in Workflow /\ wf' = [wf EXCEPT ![q] = "CANCELLED"]
      BY <1>4 DEF Cancel, Workflow
    <2>2. HolderOf' = HolderOf BY <1>4, HolderSame DEF Cancel
    <2>3. PhaseOf[q] = "nominating" BY <1>4 DEF Cancel, PhaseOf, Phase
    <2>4. Phase(q)' = "cancelled" BY <2>1, PhaseMoves
    <2>5. PhaseOf' = [PhaseOf EXCEPT ![q] = Phase(q)'] BY <2>1, PhaseMoves
    <2> QED BY <2>2, <2>3, <2>4, <2>5, MapsTo
  <1>5. ASSUME NEW q \in Requests, NEW v \in {"APPROVED", "REJECTED"}, AdminAct(q, v)
        PROVE  Goal
    <2>1. v \in Workflow /\ wf' = [wf EXCEPT ![q] = v] BY <1>5 DEF AdminAct, Workflow
    <2>2. HolderOf' = HolderOf BY <1>5, HolderSame DEF AdminAct
    <2>3. PhaseOf[q] \in {"nominating", "reviewing"}
      BY <1>5 DEF AdminAct, PhaseOf, Phase
    <2>4. Phase(q)' \in {"approved", "rejected"} BY <2>1, PhaseMoves
    <2>5. PhaseOf' = [PhaseOf EXCEPT ![q] = Phase(q)'] BY <2>1, PhaseMoves
    <2> QED BY <2>2, <2>3, <2>4, <2>5, MapsTo
  <1>6. CASE AcceptDone
    <2>0. PICK q \in Requests : q = job.q
      BY <1>0, <1>6 DEF AcceptDone, JobOK
    <2>1. q \in Requests /\ wf[q] = "AWAITING_ALTERNATE" /\ alternate[q] \in Staff
      BY <2>0, <1>0, <1>6 DEF AcceptDone, JobOK, Answerable, NomineeOK
    <2>2. "AWAITING_HOD_ADMIN" \in Workflow /\ wf' = [wf EXCEPT ![q] = "AWAITING_HOD_ADMIN"]
      BY <2>0, <1>6 DEF AcceptDone, Workflow
    <2>3. PhaseOf[q] = "nominating" BY <2>1 DEF PhaseOf, Phase
    <2>4. PhaseOf' = [PhaseOf EXCEPT ![q] = "reviewing"] BY <2>1, <2>2, PhaseMoves
    <2>5. HolderOf' = [HolderOf EXCEPT ![q] = alternate[q]]
      <3>1. Holder(q)' = alternate[q] BY <1>0, <1>6, <2>0, <2>1 DEF AcceptDone, Holder, TypeOK
      <3>2. \A r \in Requests \ {q} : Holder(r)' = Holder(r)
        BY <1>0, <1>6, <2>0 DEF AcceptDone, Holder, TypeOK
      <3> QED BY <2>1, <3>1, <3>2 DEF HolderOf
    <2>6. Lifecycle!Agrees(q)
      BY <2>1, <2>3, <2>4, <2>5 DEF Lifecycle!Agrees, Lifecycle!Move, PhaseOf, HolderOf
    <2> QED BY <2>1, <2>6 DEF Lifecycle!LifecycleNext
  <1>7. CASE HodReject
    <2>0. PICK q \in Requests : q = job.q
      BY <1>0, <1>7 DEF HodReject, JobOK
    <2>1. q \in Requests /\ wf[q] = "AWAITING_HOD_ADMIN"
      BY <2>0, <1>0, <1>7 DEF HodReject, JobOK, WhatHolds
    <2>2. "REJECTED" \in Workflow /\ wf' = [wf EXCEPT ![q] = "REJECTED"]
      BY <2>0, <1>7 DEF HodReject, Workflow
    <2>3. HolderOf' = HolderOf BY <1>7, HolderSame DEF HodReject
    <2>4. PhaseOf[q] = "reviewing" BY <2>1 DEF PhaseOf, Phase
    <2>5. Phase(q)' = "rejected" BY <2>1, <2>2, PhaseMoves
    <2>6. PhaseOf' = [PhaseOf EXCEPT ![q] = Phase(q)'] BY <2>1, <2>2, PhaseMoves
    <2> QED BY <2>1, <2>3, <2>4, <2>5, <2>6, MapsTo
  <1>8. CASE Expire
    <2>1. UNCHANGED <<wf, alternate>> BY <1>8 DEF Expire
    <2>2. \A r \in Requests : altst'[r] = "ACCEPTED" <=> altst[r] = "ACCEPTED"
      BY <1>0, <1>8 DEF Expire, Overdue, TypeOK
    <2>3. HolderOf' = HolderOf BY <2>1, <2>2 DEF HolderOf, Holder
    <2> QED BY <2>1, <2>3, StutterMaps
  <1>9. CASE UNCHANGED <<wf, alternate, altst>>
    BY <1>9, HolderSame, StutterMaps
  <1>10. ASSUME NEW q \in Requests, Endpoint(q) \/ DeadlinePasses(q) PROVE Goal
    <2>1. CASE Accept(q) \/ DeadlinePasses(q)
      BY <2>1, <1>9 DEF Accept, DeadlinePasses
    <2>2. ASSUME NEW v \in {"APPROVED", "REJECTED"}, HodAct(q, v) PROVE Goal
      BY <2>2, <1>9 DEF HodAct
    <2> QED BY <2>1, <2>2, <1>1, <1>2, <1>3, <1>4, <1>5, <1>10 DEF Endpoint
  <1>11. CASE JobStep \/ Expire \/ Interrupted
    <2>1. CASE \/ AssignSlot \/ WriteAudit \/ Revoke \/ CreditDay \/ CreditDone
               \/ Deduct \/ ExpireAudit \/ Interrupted
      BY <2>1, <1>9 DEF AssignSlot, WriteAudit, Revoke, CreditDay, CreditDone,
                        Deduct, ExpireAudit, Interrupted
    <2> QED BY <2>1, <1>6, <1>7, <1>8, <1>11 DEF JobStep
  <1>12. CASE UNCHANGED vars BY <1>12, <1>9 DEF vars
  <1> QED BY <1>10, <1>11, <1>12 DEF Next

\* The workflow of staff_leave_service.py implements LeaveLifecycle: decisions
\* and withdrawals are final, and the colleague who agreed is never replaced.
THEOREM RefinesLifecycle == Spec => ImplementsLifecycle
  <1>1. Init => Lifecycle!LifecycleInit
    BY DEF Init, Lifecycle!LifecycleInit, Phase, Holder
  <1> QED BY <1>1, BaseHolds, StepMaps, PTL
       DEF Spec, ImplementsLifecycle, Lifecycle!LifecycleSpec

-----------------------------------------------------------------------------
\* What a set of requests costs: a natural number, from which the cost of any
\* member may be taken out.
Total(S) == MapThenSumSet(LAMBDA q : CostOf[q], S)

LEMMA TotalNat ==
    ASSUME IsFiniteSet(Requests), NEW S \in SUBSET Requests
    PROVE  Total(S) \in Nat
  <1>1. CostOf \in [Requests -> Nat] BY RequestsAssumption
  <1>2. SumOver(CostOf, S) \in Nat BY <1>1, SumUnfold
  <1> QED BY <1>2 DEF Total, SumOver

LEMMA TotalTake ==
    ASSUME IsFiniteSet(Requests), NEW S \in SUBSET Requests, NEW q \in S
    PROVE  Total(S) = CostOf[q] + Total(S \ {q})
  <1>1. CostOf \in [Requests -> Nat] BY RequestsAssumption
  <1>2. SumOver(CostOf, S) = CostOf[q] + SumOver(CostOf, S \ {q}) BY <1>1, SumTake
  <1> QED BY <1>2 DEF Total, SumOver

-----------------------------------------------------------------------------
\* Approved requests of a person, and the one whose charge is still to come.
ApprovedOf(p) == {q \in Requests : RequesterOf[q] = p /\ wf[q] = "APPROVED"}
ToCharge ==
    IF job.pc \in {"credit", "deduct"} \/ (job.pc = "audit" /\ job.what = "ADMIN_APPROVED")
    THEN {job.q} ELSE {}

\* Nobody was charged more than the approved requests already charged for.
ChargedOnly ==
    \A p \in Staff : balance[p] + Total(ApprovedOf(p) \ ToCharge) >= InitialBalance

\* Charging never exceeds the cost, an interruption only gives days away.
LEMMA ChargedStep ==
    ASSUME IsFiniteSet(Requests), Base, ChargedOnly, [Next]_vars
    PROVE  ChargedOnly'
  <1> USE RequestsAssumption, BoundsAssumption, NullsAssumption
  <1>1. \A p \in Staff : ApprovedOf(p) \in SUBSET Requests BY DEF ApprovedOf
  <1>2. \A p \in Staff : balance[p] \in Nat /\ Total(ApprovedOf(p) \ ToCharge) \in Nat
    <2>1. \A p \in Staff : ApprovedOf(p) \ ToCharge \in SUBSET Requests BY <1>1
    <2> QED BY <2>1, TotalNat DEF Base, TypeOK
  <1>3. ASSUME balance' = balance,
               \A p \in Staff : ApprovedOf(p)' \ ToCharge' = ApprovedOf(p) \ ToCharge
        PROVE  ChargedOnly'
    BY <1>3 DEF ChargedOnly
  <1>4. CASE wf' = wf /\ balance' = balance /\ ToCharge' = ToCharge
    BY <1>3, <1>4 DEF ApprovedOf
  <1>5. ASSUME NEW q \in Requests, Endpoint(q) \/ DeadlinePasses(q),
               ~ \E v \in {"APPROVED", "REJECTED"} : AdminAct(q, v)
        PROVE  ChargedOnly'
    <2>1. \A x \in Requests : wf'[x] = "APPROVED" <=> wf[x] = "APPROVED"
      BY <1>5 DEF Endpoint, Submit, RespondTooLate, Decline, Accept, Renominate, Cancel, HodAct,
                  DeadlinePasses, Base, TypeOK, row
    <2>2. balance' = balance
      BY <1>5 DEF Endpoint, Submit, RespondTooLate, Decline, Accept, Renominate, Cancel, HodAct,
                  DeadlinePasses, effect
    <2>3. ToCharge' = ToCharge
      BY <1>5 DEF Endpoint, Submit, RespondTooLate, Decline, Accept, Renominate, Cancel, HodAct,
                  DeadlinePasses, Owes, Idle, ToCharge
    <2> QED BY <1>3, <2>1, <2>2, <2>3 DEF ApprovedOf
  <1>6. ASSUME NEW q \in Requests, NEW v \in {"APPROVED", "REJECTED"}, AdminAct(q, v)
        PROVE  ChargedOnly'
    <2>1. /\ balance' = balance /\ wf' = [wf EXCEPT ![q] = v]
          /\ wf[q] # "APPROVED"
          /\ job.pc = "idle"
          /\ job' = [Idle EXCEPT !.pc = "audit", !.q = q,
                                 !.what = IF v = "APPROVED" THEN "ADMIN_APPROVED" ELSE "ADMIN_REJECTED"]
      BY <1>6 DEF AdminAct, Owes, effect
    <2>2. ToCharge = {} BY <2>1 DEF ToCharge
    <2>3. ToCharge' = IF v = "APPROVED" THEN {q} ELSE {} BY <2>1 DEF ToCharge, Idle
    <2>4. \A x \in Requests : wf'[x] = IF x = q THEN v ELSE wf[x]
      BY <2>1 DEF Base, TypeOK
    <2>5. \A p \in Staff : ApprovedOf(p)' \ ToCharge' = ApprovedOf(p) \ ToCharge
      BY <2>1, <2>2, <2>3, <2>4 DEF ApprovedOf
    <2> QED BY <1>3, <2>1, <2>5
  <1>7. CASE AssignSlot \/ Revoke \/ ExpireAudit
    <2>1. wf' = wf /\ balance' = balance
      BY <1>7 DEF AssignSlot, Revoke, ExpireAudit, row, effect
    <2>2. job.pc \in {"assign", "revoke", "expired"}
          /\ job'.pc \in {"assign", "reject", "expired", "idle"}
      BY <1>7 DEF AssignSlot, Revoke, ExpireAudit, Idle, Base, TypeOK, Job
    <2>3. ToCharge = {} /\ ToCharge' = {} BY <2>2 DEF ToCharge
    <2> QED BY <1>4, <2>1, <2>3
  <1>8. CASE AcceptDone \/ HodReject
    <2>1. job.q \in Requests /\ wf[job.q] # "APPROVED" /\ wf'[job.q] # "APPROVED"
      BY <1>8 DEF AcceptDone, HodReject, Base, TypeOK, JobOK, WhatHolds, Answerable
    <2>2. \A x \in Requests : wf'[x] = "APPROVED" <=> wf[x] = "APPROVED"
      BY <1>8, <2>1 DEF AcceptDone, HodReject, Base, TypeOK
    <2>3. balance' = balance BY <1>8 DEF AcceptDone, HodReject, effect
    <2>4. ToCharge' = ToCharge
      <3>1. CASE AcceptDone
        <4>1. job'.pc = "audit" /\ job'.what = "ALTERNATE_ACCEPTED"
          BY <3>1 DEF AcceptDone, Base, TypeOK, Job
        <4> QED BY <3>1, <4>1 DEF AcceptDone, ToCharge
      <3>2. CASE HodReject BY <3>2 DEF HodReject, ToCharge, Idle
      <3> QED BY <1>8, <3>1, <3>2
    <2> QED BY <1>3, <2>2, <2>3, <2>4 DEF ApprovedOf
  <1>9. CASE WriteAudit
    <2>1. ToCharge' = ToCharge
      BY <1>9 DEF WriteAudit, AfterAudit, ToCharge, Idle, Base, TypeOK, JobOK, Job
    <2> QED BY <1>4, <1>9, <2>1 DEF WriteAudit, row, effect
  <1>10. CASE CreditDay \/ CreditDone
    <2>1. ToCharge' = ToCharge
      BY <1>10 DEF CreditDay, CreditDone, ToCharge, Base, TypeOK, Job
    <2> QED BY <1>4, <1>10, <2>1 DEF CreditDay, CreditDone, row, effect
  <1>11. CASE Expire
    BY <1>4, <1>11 DEF Expire, ToCharge, Idle, effect
  <1>12. CASE Interrupted
    <2>1. wf' = wf /\ balance' = balance /\ ToCharge' = {}
      BY <1>12 DEF Interrupted, row, effect, ToCharge, Idle
    <2>2. ASSUME NEW p \in Staff
          PROVE  Total(ApprovedOf(p)) >= Total(ApprovedOf(p) \ ToCharge)
                 /\ Total(ApprovedOf(p)) \in Nat
      <3>1. Total(ApprovedOf(p)) \in Nat BY <1>1, TotalNat
      <3>2. CASE ToCharge \cap ApprovedOf(p) = {}
        <4>1. ApprovedOf(p) \ ToCharge = ApprovedOf(p) BY <3>2
        <4> QED BY <3>1, <4>1
      <3>3. CASE ToCharge \cap ApprovedOf(p) # {}
        <4>1. ToCharge = {job.q} /\ job.q \in ApprovedOf(p) BY <3>3 DEF ToCharge
        <4>2. Total(ApprovedOf(p)) = CostOf[job.q] + Total(ApprovedOf(p) \ {job.q})
          BY <1>1, <4>1, TotalTake
        <4>3. CostOf[job.q] \in Nat BY <1>1, <4>1
        <4> QED BY <1>2, <3>1, <4>1, <4>2, <4>3
      <3> QED BY <3>2, <3>3
    <2>3. \A p \in Staff : ApprovedOf(p)' \ ToCharge' = ApprovedOf(p)
      BY <2>1 DEF ApprovedOf
    <2>4. ASSUME NEW p \in Staff
          PROVE  balance'[p] + Total(ApprovedOf(p)' \ ToCharge') >= InitialBalance
      <3>1. balance[p] + Total(ApprovedOf(p) \ ToCharge) >= InitialBalance BY DEF ChargedOnly
      <3>2. balance[p] + Total(ApprovedOf(p)) >= InitialBalance BY <1>2, <2>2, <3>1
      <3> QED BY <2>1, <2>3, <3>2
    <2> QED BY <2>4 DEF ChargedOnly
  <1>13. CASE Deduct
    <2> DEFINE q == job.q
               r == RequesterOf[q]
    <2>1. /\ q \in Requests /\ wf[q] = "APPROVED" /\ ToCharge = {q}
      BY <1>13 DEF Deduct, Base, JobOK, WhatHolds, ToCharge
    <2>2. r \in Staff /\ CostOf[q] \in Nat /\ balance[r] \in Nat BY <1>2, <2>1
    <2>3. /\ wf' = wf /\ ToCharge' = {}
          /\ \A p \in Staff : balance'[p] =
               IF p = r THEN IF CostOf[q] <= balance[r] THEN balance[r] - CostOf[q] ELSE 0
               ELSE balance[p]
      <3>1. wf' = wf /\ ToCharge' = {} BY <1>13 DEF Deduct, row, Idle, ToCharge
      <3>2. balance \in [Staff -> Nat] BY DEF Base, TypeOK
      <3> QED BY <1>13, <3>1, <3>2 DEF Deduct
    <2>4. \A p \in Staff : ApprovedOf(p)' \ ToCharge' = ApprovedOf(p)
      BY <2>3 DEF ApprovedOf
    <2>5. q \in ApprovedOf(r) BY <2>1 DEF ApprovedOf
    <2>6. \A p \in Staff : p # r => q \notin ApprovedOf(p) BY DEF ApprovedOf
    <2> HIDE DEF q, r
    <2>7. ASSUME NEW p \in Staff
          PROVE  balance'[p] + Total(ApprovedOf(p)' \ ToCharge') >= InitialBalance
      <3>1. balance[p] + Total(ApprovedOf(p) \ {q}) >= InitialBalance BY <2>1 DEF ChargedOnly
      <3>2. CASE p = r
        <4>1. Total(ApprovedOf(p)) = CostOf[q] + Total(ApprovedOf(p) \ {q})
          BY <1>1, <2>5, <3>2, TotalTake
        <4>2. Total(ApprovedOf(p) \ {q}) \in Nat BY <1>2, <2>1
        <4>3. balance'[p] + CostOf[q] >= balance[p] /\ balance'[p] \in Nat
          BY <2>2, <2>3, <3>2
        <4>4. balance'[p] + Total(ApprovedOf(p)) >= InitialBalance
          BY <2>2, <3>1, <3>2, <4>1, <4>2, <4>3
        <4> QED BY <2>4, <4>4
      <3>3. CASE p # r
        <4>1. ApprovedOf(p) \ {q} = ApprovedOf(p) BY <2>6, <3>3
        <4> QED BY <2>3, <2>4, <3>1, <3>3, <4>1
      <3> QED BY <3>2, <3>3
    <2> QED BY <2>7 DEF ChargedOnly
  <1>14. CASE UNCHANGED vars
    BY <1>4, <1>14 DEF vars, row, effect, ToCharge
  <1> QED BY <1>5, <1>6, <1>7, <1>8, <1>9, <1>10, <1>11, <1>12, <1>13, <1>14 DEF Next, JobStep

\* Nobody is charged more days than their approved requests come to, whatever
\* was decided in whatever order and however often a handler was interrupted.
THEOREM ChargedSafe ==
    ASSUME IsFiniteSet(Requests) PROVE Spec => []NeverOvercharged
  <1>1. Init => ChargedOnly
    <2> SUFFICES ASSUME Init PROVE ChargedOnly OBVIOUS
    <2>1. \A p \in Staff : ApprovedOf(p) \ ToCharge \in SUBSET Requests BY DEF ApprovedOf
    <2>2. \A p \in Staff : Total(ApprovedOf(p) \ ToCharge) \in Nat BY <2>1, TotalNat
    <2>3. \A p \in Staff : balance[p] = InitialBalance BY DEF Init
    <2> QED BY <2>2, <2>3, BoundsAssumption DEF ChargedOnly
  <1>2. Base /\ ChargedOnly /\ [Next]_vars => ChargedOnly' BY ChargedStep
  <1>3. Base /\ ChargedOnly => NeverOvercharged
    <2> SUFFICES ASSUME Base, ChargedOnly, NEW p \in Staff
                 PROVE  balance[p] + Total(ApprovedOf(p)) >= InitialBalance
      BY DEF NeverOvercharged, Total, ApprovedOf
    <2>1. ApprovedOf(p) \in SUBSET Requests /\ ApprovedOf(p) \ ToCharge \in SUBSET Requests
      BY DEF ApprovedOf
    <2>2. Total(ApprovedOf(p)) \in Nat /\ Total(ApprovedOf(p) \ ToCharge) \in Nat
      BY <2>1, TotalNat
    <2>3. balance[p] \in Nat BY DEF Base, TypeOK
    <2>4. balance[p] + Total(ApprovedOf(p) \ ToCharge) >= InitialBalance BY DEF ChargedOnly
    <2>5. Total(ApprovedOf(p)) >= Total(ApprovedOf(p) \ ToCharge)
      <3>1. CASE ToCharge \cap ApprovedOf(p) = {}
        <4>1. ApprovedOf(p) \ ToCharge = ApprovedOf(p) BY <3>1
        <4> QED BY <2>2, <4>1
      <3>2. CASE ToCharge \cap ApprovedOf(p) # {}
        <4>1. ToCharge = {job.q} /\ job.q \in ApprovedOf(p) BY <3>2 DEF ToCharge
        <4>2. Total(ApprovedOf(p)) = CostOf[job.q] + Total(ApprovedOf(p) \ {job.q})
          BY <2>1, <4>1, TotalTake
        <4>3. CostOf[job.q] \in Nat BY <2>1, <4>1, RequestsAssumption
        <4> QED BY <2>2, <4>1, <4>2, <4>3
      <3> QED BY <3>1, <3>2
    <2> QED BY <2>2, <2>3, <2>4, <2>5, BoundsAssumption
  <1> QED BY <1>1, <1>2, <1>3, BaseHolds, PTL DEF Spec

-----------------------------------------------------------------------------
(* The schedule of a date (StaffSchedule). *)

\* Who takes lessons over is who accepted to stand in for their teacher.
Handed ==
    /\ leave \in [Teachers -> Teachers \cup {NoOne}]
    /\ table \in [Weekdays \X SPeriods \X SClasses -> Teachers \cup {NoOne}]
    /\ follows \in Weekdays \cup {"holiday"}
    /\ cover \subseteq Assignments
    /\ \A a \in cover : /\ table[<<Today, a.period, a.class>>] = a.orig
                        /\ leave[a.orig] = a.alt

LEMMA HandedStep ==
    ASSUME ScheduleSettings, "edit" \notin DayEvents, Handed, [SchNext]_schVars
    PROVE  Handed'
  <1> USE DEF Handed
  <1>1. ASSUME NEW t \in Teachers, NEW a \in Teachers, AcceptAlternate(t, a) PROVE Handed'
    <2> DEFINE new == {[period |-> l[1], class |-> l[2], orig |-> t, alt |-> a] : l \in HandedOver(t)}
    <2>1. cover' \subseteq cover \cup new BY <1>1 DEF AcceptAlternate
    <2>2. leave' = [leave EXCEPT ![t] = a] /\ table' = table /\ leave[t] = NoOne BY <1>1 DEF AcceptAlternate
    <2>3. ASSUME NEW x \in new
          PROVE  /\ x \in Assignments /\ x.orig = t /\ x.alt = a
                 /\ table[<<Today, x.period, x.class>>] = t
      <3>1. PICK l \in HandedOver(t) : x = [period |-> l[1], class |-> l[2], orig |-> t, alt |-> a] OBVIOUS
      <3>2. l \in SPeriods \X SClasses /\ table[<<Today, l[1], l[2]>>] = t BY DEF HandedOver
      <3>3. l[1] \in SPeriods /\ l[2] \in SClasses BY <3>2
      <3> QED BY <3>1, <3>2, <3>3 DEF Assignments
    <2>4. follows' = follows BY <1>1 DEF AcceptAlternate
    <2>5. \A x \in cover : x.orig \in Teachers /\ x.alt \in Teachers BY DEF Assignments
    <2>6. \A x \in cover : x.orig # t BY <2>2, <2>5 DEF ScheduleSettings
    <2> HIDE DEF new
    <2>7. cover' \subseteq Assignments BY <2>1, <2>3
    <2>8. leave' \in [Teachers -> Teachers \cup {NoOne}] BY <2>2
    <2>9. ASSUME NEW x \in cover' PROVE table[<<Today, x.period, x.class>>] = x.orig /\ leave'[x.orig] = x.alt
      <3>1. CASE x \in cover BY <2>2, <2>5, <2>6, <3>1
      <3>2. CASE x \in new BY <2>2, <2>3, <3>2
      <3> QED BY <2>1, <3>1, <3>2
    <2> QED BY <2>2, <2>4, <2>7, <2>8, <2>9
  <1>2. ASSUME NEW t \in Teachers, RevokeAlternate(t) PROVE Handed'
    <2>1. /\ leave' = [leave EXCEPT ![t] = NoOne] /\ table' = table /\ follows' = follows
          /\ cover' = {a \in cover : a.orig # t}
      BY <1>2 DEF RevokeAlternate
    <2>2. \A x \in cover : x.orig \in Teachers BY DEF Assignments
    <2>3. leave' \in [Teachers -> Teachers \cup {NoOne}] BY <2>1
    <2>4. \A x \in cover' : x \in cover /\ leave'[x.orig] = leave[x.orig] BY <2>1, <2>2
    <2> QED BY <2>1, <2>3, <2>4
  <1>3. ASSUME NEW d \in Weekdays, NEW p \in SPeriods, NEW c \in SClasses, NEW t \in Teachers, Edit(d, p, c, t)
        PROVE  FALSE
    BY <1>3 DEF Edit, Change
  <1>4. ASSUME NEW d \in Weekdays \cup {"holiday"}, Override(d) PROVE Handed' BY <1>4 DEF Override
  <1>5. ASSUME NEW t \in Teachers, NEW m \in Leads, UpdatePreferences(t, m) PROVE Handed'
    BY <1>5 DEF UpdatePreferences
  <1>6. CASE MinutePasses BY <1>6 DEF MinutePasses
  <1>7. CASE Dispatch BY <1>7 DEF Dispatch
  <1>8. CASE UNCHANGED schVars BY <1>8 DEF schVars
  <1> QED BY <1>1, <1>2, <1>3, <1>4, <1>5, <1>6, <1>7, <1>8 DEF SchNext

LEMMA HandedHolds ==
    ASSUME ScheduleSettings, "edit" \notin DayEvents
    PROVE  SchSpec => []Handed
  <1>1. SchInit => Handed BY DEF SchInit, Handed, ScheduleSettings
  <1>2. Handed /\ [SchNext]_schVars => Handed' BY HandedStep
  <1> QED BY <1>1, <1>2, PTL DEF SchSpec

\* As long as nobody changes the timetable of the day, the calendars and the
\* classes tell one story (get_staff_sessions_for_date, get_timetable_by_date):
\* the rows of a lesson all name the alternate of its teacher on the date's own
\* weekday, so that it is one row whichever is read.
THEOREM OneStorySafe ==
    ASSUME ScheduleSettings, "edit" \notin DayEvents
    PROVE  SchSpec => []OneStory
  <1>1. Handed => OneStory
    <2> SUFFICES ASSUME Handed, NEW l \in DayLessons
                 PROVE  {t \in Teachers : l \in Exported(t)} = {ShownTo(l)}
      BY DEF OneStory
    <2>1. l \in SPeriods \X SClasses /\ follows # "holiday" /\ TeacherOf(l) # NoOne BY DEF DayLessons, TeacherOf
    <2>2. \A a, b \in CoverOf(l) : a.alt = b.alt
      <3> TAKE a, b \in CoverOf(l)
      <3>1. /\ a \in cover /\ b \in cover /\ a.period = b.period /\ a.class = b.class BY DEF CoverOf
      <3> QED BY <3>1 DEF Handed
    <2>3. ASSUME CoverOf(l) # {} PROVE RowOf(l) \in CoverOf(l) BY <2>3 DEF RowOf
    <2>4. \A a \in CoverOf(l) : a.alt \in Teachers BY DEF CoverOf, Handed, Assignments
    <2>5. TeacherOf(l) \in Teachers BY <2>1 DEF TeacherOf, Handed
    <2>6. CASE CoverOf(l) = {}
      <3>1. \A t \in Teachers : l \in Exported(t) <=> TeacherOf(l) = t
        BY <2>6 DEF Exported, SessionsOf, Substituted
      <3> QED BY <2>5, <2>6, <3>1 DEF ShownTo
    <2>7. CASE CoverOf(l) # {}
      <3>1. \A t \in Teachers : l \in Exported(t) <=> RowOf(l).alt = t
        <4> TAKE t \in Teachers
        <4>1. (\E a \in CoverOf(l) : a.alt = t) <=> RowOf(l).alt = t BY <2>2, <2>3, <2>7
        <4> QED BY <2>7, <4>1 DEF Exported, SessionsOf, Substituted
      <3> QED BY <2>3, <2>4, <2>7, <3>1 DEF ShownTo
    <2> QED BY <2>6, <2>7
  <1> QED BY <1>1, HandedHolds, PTL

\* On an ordinary date, whose own weekday counts, every lesson of a teacher whose
\* alternate has accepted is handed over, and no other lesson is.
THEOREM SubstitutesSafe ==
    ASSUME ScheduleSettings, DayEvents \cap {"edit", "override"} = {}
    PROVE  SchSpec => [](AwayCovered /\ SubstitutesForAway)
  <1> DEFINE Own == /\ follows = Today
                    /\ \A p \in SPeriods, c \in SClasses :
                         LET t == table[<<Today, p, c>>]
                         IN  t \in Teachers /\ leave[t] # NoOne =>
                               \E a \in cover : a.period = p /\ a.class = c
  <1>1. SchInit => Own BY DEF SchInit, ScheduleSettings
  <1>2. Handed /\ Own /\ [SchNext]_schVars => Own'
    <2> SUFFICES ASSUME Handed, Own, [SchNext]_schVars PROVE Own' OBVIOUS
    <2>1. ASSUME NEW t \in Teachers, NEW a \in Teachers, AcceptAlternate(t, a) PROVE Own'
      <3> DEFINE new == {[period |-> l[1], class |-> l[2], orig |-> t, alt |-> a] : l \in HandedOver(t)}
      <3>1. /\ cover' = cover \cup new /\ leave' = [leave EXCEPT ![t] = a]
            /\ table' = table /\ follows' = follows
        BY <2>1 DEF AcceptAlternate, ScheduleSettings
      <3>2. ASSUME NEW p \in SPeriods, NEW c \in SClasses, table[<<Today, p, c>>] = t
            PROVE  \E x \in new : x.period = p /\ x.class = c
        <4>1. <<p, c>> \in HandedOver(t) BY <3>2 DEF HandedOver
        <4>2. [period |-> <<p, c>>[1], class |-> <<p, c>>[2], orig |-> t, alt |-> a] \in new BY <4>1
        <4> HIDE DEF new
        <4> QED BY <4>2
      <3> HIDE DEF new
      <3> QED BY <3>1, <3>2 DEF Handed
    <2>2. ASSUME NEW t \in Teachers, RevokeAlternate(t) PROVE Own'
      <3>1. /\ leave' = [leave EXCEPT ![t] = NoOne] /\ table' = table /\ follows' = follows
            /\ cover' = {a \in cover : a.orig # t}
        BY <2>2 DEF RevokeAlternate
      <3> SUFFICES ASSUME NEW p \in SPeriods, NEW c \in SClasses,
                          table[<<Today, p, c>>] \in Teachers, leave'[table[<<Today, p, c>>]] # NoOne
                   PROVE  \E a \in cover' : a.period = p /\ a.class = c
        BY <3>1
      <3>2. table[<<Today, p, c>>] # t /\ leave[table[<<Today, p, c>>]] # NoOne BY <3>1 DEF Handed
      <3>3. PICK a \in cover : a.period = p /\ a.class = c BY <3>2
      <3>4. a.orig # t BY <3>2, <3>3 DEF Handed
      <3> QED BY <3>1, <3>3, <3>4
    <2>3. ASSUME NEW d \in Weekdays, NEW p \in SPeriods, NEW c \in SClasses, NEW t \in Teachers, Edit(d, p, c, t)
          PROVE  FALSE
      BY <2>3 DEF Edit, Change
    <2>4. ASSUME NEW d \in Weekdays \cup {"holiday"}, Override(d) PROVE FALSE BY <2>4 DEF Override, Change
    <2>5. ASSUME NEW t \in Teachers, NEW m \in Leads, UpdatePreferences(t, m) PROVE Own'
      BY <2>5 DEF UpdatePreferences
    <2>6. CASE MinutePasses BY <2>6 DEF MinutePasses
    <2>7. CASE Dispatch BY <2>7 DEF Dispatch
    <2>8. CASE UNCHANGED schVars BY <2>8 DEF schVars
    <2> QED BY <2>1, <2>2, <2>3, <2>4, <2>5, <2>6, <2>7, <2>8 DEF SchNext
  <1>3. Handed /\ Own => AwayCovered /\ SubstitutesForAway
    <2> SUFFICES ASSUME Handed, Own, NEW l \in DayLessons
                 PROVE  /\ leave[TeacherOf(l)] # NoOne => CoverOf(l) # {}
                        /\ ShownTo(l) # TeacherOf(l) => leave[TeacherOf(l)] # NoOne
      BY DEF AwayCovered, SubstitutesForAway
    <2>1. l \in SPeriods \X SClasses /\ TeacherOf(l) = table[<<Today, l[1], l[2]>>] /\ TeacherOf(l) # NoOne
      BY DEF DayLessons, TeacherOf
    <2>2. TeacherOf(l) \in Teachers BY <2>1 DEF Handed, ScheduleSettings
    <2>3. leave[TeacherOf(l)] # NoOne => CoverOf(l) # {} BY <2>1, <2>2 DEF CoverOf
    <2>4. ASSUME ShownTo(l) # TeacherOf(l) PROVE leave[TeacherOf(l)] # NoOne
      <3>1. RowOf(l) \in CoverOf(l) BY <2>4 DEF ShownTo, RowOf
      <3>2. leave[TeacherOf(l)] = RowOf(l).alt /\ RowOf(l).alt \in Teachers
        BY <2>1, <3>1 DEF CoverOf, Handed, Assignments
      <3> QED BY <3>2 DEF ScheduleSettings
    <2> QED BY <2>3, <2>4
  <1> HIDE DEF Own
  <1>4. SchSpec => []Handed BY HandedHolds
  <1> QED BY <1>1, <1>2, <1>3, <1>4, PTL DEF SchSpec

LEMMA ScheduleTypeStep ==
    ASSUME ScheduleSettings, SchTypeOK, [SchNext]_schVars
    PROVE  SchTypeOK'
  <1> USE DEF SchTypeOK
  <1>1. ASSUME NEW t \in Teachers, NEW a \in Teachers, AcceptAlternate(t, a) PROVE SchTypeOK'
    <2> DEFINE new == {[period |-> l[1], class |-> l[2], orig |-> t, alt |-> a] : l \in HandedOver(t)}
    <2>1. cover' \subseteq cover \cup new /\ leave' = [leave EXCEPT ![t] = a]
      BY <1>1 DEF AcceptAlternate
    <2>2. UNCHANGED <<table, follows, lead, now, sent>> BY <1>1 DEF AcceptAlternate
    <2>3. ASSUME NEW x \in new PROVE x \in Assignments
      <3>1. PICK l \in HandedOver(t) : x = [period |-> l[1], class |-> l[2], orig |-> t, alt |-> a] OBVIOUS
      <3>2. l[1] \in SPeriods /\ l[2] \in SClasses BY DEF HandedOver
      <3> QED BY <3>1, <3>2 DEF Assignments
    <2> HIDE DEF new
    <2>4. cover' \subseteq Assignments BY <2>1, <2>3
    <2>5. leave' \in [Teachers -> Teachers \cup {NoOne}] BY <2>1
    <2> QED BY <2>2, <2>4, <2>5
  <1>2. ASSUME NEW t \in Teachers, RevokeAlternate(t) PROVE SchTypeOK'
    <2>1. cover' \subseteq cover /\ leave' = [leave EXCEPT ![t] = NoOne] BY <1>2 DEF RevokeAlternate
    <2>2. UNCHANGED <<table, follows, lead, now, sent>> BY <1>2 DEF RevokeAlternate
    <2>3. leave' \in [Teachers -> Teachers \cup {NoOne}] BY <2>1
    <2> QED BY <2>1, <2>2, <2>3
  <1>3. ASSUME NEW d \in Weekdays, NEW p \in SPeriods, NEW c \in SClasses, NEW t \in Teachers, Edit(d, p, c, t)
        PROVE  SchTypeOK'
    <2>1. UNCHANGED <<follows, leave, cover, lead, now, sent>> BY <1>3 DEF Edit
    <2>2. table' = [table EXCEPT ![<<d, p, c>>] = t] BY <1>3 DEF Edit
    <2>3. table' \in [Weekdays \X SPeriods \X SClasses -> Teachers \cup {NoOne}] BY <2>2
    <2> QED BY <2>1, <2>3
  <1>4. ASSUME NEW d \in Weekdays \cup {"holiday"}, Override(d) PROVE SchTypeOK' BY <1>4 DEF Override
  <1>5. ASSUME NEW t \in Teachers, NEW m \in Leads, UpdatePreferences(t, m) PROVE SchTypeOK'
    BY <1>5 DEF UpdatePreferences
  <1>6. CASE MinutePasses BY <1>6 DEF MinutePasses, ScheduleSettings
  <1>7. CASE Dispatch
    <2>1. UNCHANGED <<table, follows, leave, cover, lead, now>> BY <1>7 DEF Dispatch
    <2>2. ASSUME NEW n \in sent', n \notin sent
          PROVE  n \in [to : Teachers, in : 1 .. MaxNow, class : SClasses, period : SPeriods]
      <3>1. PICK t \in Considered : n \in Reminders(t) BY <1>7, <2>2 DEF Dispatch
      <3>2. PICK l \in Due(t) : n = [to |-> t, in |-> StartOf(l[1]) - now, class |-> l[2], period |-> l[1]]
        BY <3>1 DEF Reminders
      <3>3. l \in SPeriods \X SClasses BY DEF Due, SessionsOf, DayLessons
      <3>4. l[1] \in SPeriods /\ l[2] \in SClasses /\ t \in Teachers BY <3>3 DEF Considered
      <3>5. StartOf(l[1]) \in Int
        <4>1. FirstStart \in Int /\ (l[1] - 1) * LessonTime \in Int /\ BreakTime \in Int
          BY <3>4 DEF SPeriods, ScheduleSettings
        <4> QED BY <4>1 DEF StartOf
      <3>6. StartOf(l[1]) - now <= lead[t] /\ Status(l[1]) = "UPCOMING" BY DEF Due
      <3>7. now < StartOf(l[1]) BY <3>5, <3>6 DEF Status, ScheduleSettings
      <3>8. lead[t] \in 0 .. MaxNow BY <1>7, <3>4 DEF Dispatch, ScheduleSettings
      <3>9. StartOf(l[1]) - now \in 1 .. MaxNow BY <3>5, <3>6, <3>7, <3>8 DEF ScheduleSettings
      <3> QED BY <3>2, <3>4, <3>9
    <2> QED BY <2>1, <2>2
  <1>8. CASE UNCHANGED schVars BY <1>8 DEF schVars
  <1> QED BY <1>1, <1>2, <1>3, <1>4, <1>5, <1>6, <1>7, <1>8 DEF SchNext

\* Whatever happens to timetable, calendar and leaves, the teacher a class is
\* shown for a lesson has it in the list (get_timetable_by_date,
\* get_staff_sessions_for_date), and the state keeps its types.
THEOREM AnnouncedSafe ==
    ASSUME ScheduleSettings
    PROVE  SchSpec => [](SchTypeOK /\ Announced)
  <1>1. SchInit => SchTypeOK
    <2> SUFFICES ASSUME SchInit PROVE SchTypeOK OBVIOUS
    <2>1. table \in [Weekdays \X SPeriods \X SClasses -> Teachers \cup {NoOne}] BY DEF SchInit, ScheduleSettings
    <2>2. follows \in Weekdays /\ cover = {} /\ sent = {} /\ now \in 0 .. MaxNow BY DEF SchInit, ScheduleSettings
    <2>3. leave \in [Teachers -> Teachers \cup {NoOne}] BY DEF SchInit
    <2>4. lead \in [Teachers -> Leads \cup {DefaultLead}] BY DEF SchInit
    <2> QED BY <2>1, <2>2, <2>3, <2>4 DEF SchTypeOK
  <1>2. SchTypeOK /\ [SchNext]_schVars => SchTypeOK' BY ScheduleTypeStep
  <1>3. SchTypeOK => Announced
    <2> SUFFICES ASSUME NEW l \in DayLessons PROVE l \in Exported(ShownTo(l)) BY DEF Announced
    <2>1. CASE CoverOf(l) = {} BY <2>1 DEF ShownTo, Exported, SessionsOf, Substituted
    <2>2. CASE CoverOf(l) # {}
      <3>1. RowOf(l) \in CoverOf(l) BY <2>2 DEF RowOf
      <3> QED BY <2>2, <3>1 DEF ShownTo, Exported, SessionsOf, Substituted
    <2> QED BY <2>1, <2>2
  <1> QED BY <1>1, <1>2, <1>3, PTL DEF SchSpec

\* On an ordinary date with an unchanged timetable, all of it as one property.
THEOREM OneDaySafe ==
    ASSUME ScheduleSettings, DayEvents \cap {"edit", "override"} = {}
    PROVE  SchSpec => []OneDay
  <1>0. "edit" \notin DayEvents OBVIOUS
  <1>1. SchSpec => []OneStory BY <1>0, OneStorySafe
  <1>2. SchSpec => [](AwayCovered /\ SubstitutesForAway) BY SubstitutesSafe
  <1>3. SchSpec => [](SchTypeOK /\ Announced) BY AnnouncedSafe
  <1>4. OneStory /\ (AwayCovered /\ SubstitutesForAway) /\ (SchTypeOK /\ Announced) => OneDay BY DEF OneDay
  <1> QED BY <1>1, <1>2, <1>3, <1>4, PTL
=============================================================================
