----------------------------- MODULE StaffLeave -----------------------------
(***************************************************************************)
(* The staff leave and on-duty workflow of src/backend/app/services/       *)
(* staff_leave_service.py and its endpoints in app/api/v1/leave.py: a      *)
(* requester nominates a colleague, who accepts (and is handed the class   *)
(* slots) or declines within 24 hours; the HOD and the admin decide; an    *)
(* approval writes the attendance of each day and charges the balance.     *)
(*                                                                         *)
(* Every endpoint is an "async def" with no await between its first and    *)
(* its last statement, and so is the hourly expiry task: the handlers run  *)
(* one at a time on the event loop.  But the connection is in autocommit   *)
(* mode (src/backend/pg_adapter.py; the commit() calls are no-ops), so a   *)
(* handler that is interrupted (the process dies, or a statement raises)   *)
(* leaves its first statements done and the others not.  job holds what    *)
(* the running handler still has to do.                                    *)
(***************************************************************************)
EXTENDS Integers, FiniteSets, FiniteSetsExt

CONSTANTS
    Requests,       \* the rows of staff_leave_requests that can be created
    Staff,
    NoStaff,        \* alternate_reg_no IS NULL
    NoRequest,      \* no leave marks this day
    Slots,          \* class slots: a date and a period of the timetable
    Days,
    RequesterOf,
    SlotsOf,        \* the slots handed over on acceptance (whole days)
    ClassesOf,      \* those that make a nominee mandatory (half days apart)
    DaysOf,         \* working days of the leave
    CostOf,         \* days charged to the balance, 0 for uncharged types
    InitialBalance,
    MaxFaults       \* bound: interrupted handlers

ASSUME RequestsAssumption ==
    /\ RequesterOf \in [Requests -> Staff]
    /\ SlotsOf \in [Requests -> SUBSET Slots]
    /\ ClassesOf \in [Requests -> SUBSET Slots]
    /\ \A q \in Requests : ClassesOf[q] \subseteq SlotsOf[q]
    /\ DaysOf \in [Requests -> SUBSET Days]
    /\ CostOf \in [Requests -> Nat]

ASSUME BoundsAssumption == InitialBalance \in Nat /\ MaxFaults \in Nat

ASSUME NullsAssumption == NoStaff \notin Staff /\ NoRequest \notin Requests

VARIABLES
    wf,         \* workflow_status, "NONE" before the INSERT
    alternate,  \* alternate_reg_no
    altst,      \* alternate_status
    late,       \* requests whose alternate_deadline has passed
    hod,        \* hod_status
    admin,      \* admin_status
    active,     \* ACTIVE rows of staff_leave_timetable_assignments
    day,        \* daily_attendance_status: the leave that marks a day
    balance,    \* days left to each person
    audit,      \* actions recorded in staff_leave_audit_log
    job,        \* what the running handler still has to do
    faults      \* interrupted handlers so far

row    == <<wf, alternate, altst, hod, admin>>
effect == <<active, day, balance>>
vars   == <<row, late, effect, audit, job, faults>>

Workflow == {"NONE", "AWAITING_ALTERNATE", "AWAITING_HOD_ADMIN",
             "APPROVED", "REJECTED", "CANCELLED"}
Terminal == {"APPROVED", "REJECTED", "CANCELLED"}
Answers  == {"NOT_REQUIRED", "PENDING", "ACCEPTED", "DECLINED", "EXPIRED"}
Verdicts == {"PENDING", "APPROVED", "REJECTED"}
Actions  == {"SUBMITTED", "ALTERNATE_ACCEPTED", "ALTERNATE_DECLINED",
             "ALTERNATE_EXPIRED", "ALTERNATE_RE_NOMINATED", "CANCELLED",
             "HOD_APPROVED", "HOD_REJECTED", "ADMIN_APPROVED", "ADMIN_REJECTED"}

\* A running handler: its request, the audit row it owes, and the slots, days
\* or expired requests it has still to go through.
Job == [pc : {"idle", "audit", "assign", "revoke", "reject", "credit",
              "deduct", "expired"},
        q : Requests \cup {NoRequest},
        what : Actions \cup {"nothing"},
        slots : SUBSET Slots, days : SUBSET Days, queue : SUBSET Requests]

Idle == [pc |-> "idle", q |-> NoRequest, what |-> "nothing",
         slots |-> {}, days |-> {}, queue |-> {}]

Cover(q, a) == {k \in Slots : <<q, a, k>> \in active}

TypeOK ==
    /\ wf \in [Requests -> Workflow]
    /\ alternate \in [Requests -> Staff \cup {NoStaff}]
    /\ altst \in [Requests -> Answers]
    /\ late \in SUBSET Requests
    /\ hod \in [Requests -> Verdicts]
    /\ admin \in [Requests -> Verdicts]
    /\ active \in SUBSET (Requests \X Staff \X Slots)
    /\ day \in [Staff \X Days -> Requests \cup {NoRequest}]
    /\ balance \in [Staff -> Nat]
    /\ audit \in [Requests -> SUBSET Actions]
    /\ job \in Job
    /\ faults \in 0 .. MaxFaults

Init ==
    /\ wf = [q \in Requests |-> "NONE"]
    /\ alternate = [q \in Requests |-> NoStaff]
    /\ altst = [q \in Requests |-> "NOT_REQUIRED"]
    /\ late = {}
    /\ hod = [q \in Requests |-> "PENDING"]
    /\ admin = [q \in Requests |-> "PENDING"]
    /\ active = {}
    /\ day = [w \in Staff \X Days |-> NoRequest]
    /\ balance = [p \in Staff |-> InitialBalance]
    /\ audit = [q \in Requests |-> {}]
    /\ job = Idle
    /\ faults = 0

-----------------------------------------------------------------------------
(***************************************************************************)
(* Endpoints: the guards and the first write of each.                      *)
(***************************************************************************)
\* A handler writes its row and then owes the audit row that says so.
Owes(q, what) ==
    /\ job.pc = "idle"
    /\ job' = [Idle EXCEPT !.pc = "audit", !.q = q, !.what = what]

\* create_staff_leave_request: nobody nominates themselves; a nominee is
\* mandatory if classes fall into the leave.
Submit(q, a) ==
    /\ wf[q] = "NONE"
    /\ a # RequesterOf[q]
    /\ a = NoStaff => ClassesOf[q] = {}
    /\ wf' = [wf EXCEPT ![q] = IF a = NoStaff THEN "AWAITING_HOD_ADMIN"
                               ELSE "AWAITING_ALTERNATE"]
    /\ alternate' = [alternate EXCEPT ![q] = a]
    /\ altst' = [altst EXCEPT ![q] = IF a = NoStaff THEN "NOT_REQUIRED" ELSE "PENDING"]
    /\ Owes(q, "SUBMITTED")
    /\ UNCHANGED <<late, hod, admin, effect, audit, faults>>

\* alternate_respond acts on a pending nomination of an undecided request.
Answerable(q) == wf[q] = "AWAITING_ALTERNATE" /\ altst[q] = "PENDING"

\* An answer after the deadline only expires the nomination.
RespondTooLate(q) ==
    /\ Answerable(q)
    /\ q \in late
    /\ altst' = [altst EXCEPT ![q] = "EXPIRED"]
    /\ Owes(q, "ALTERNATE_EXPIRED")
    /\ UNCHANGED <<wf, alternate, late, hod, admin, effect, audit, faults>>

Decline(q) ==
    /\ Answerable(q)
    /\ q \notin late
    /\ altst' = [altst EXCEPT ![q] = "DECLINED"]
    /\ Owes(q, "ALTERNATE_DECLINED")
    /\ UNCHANGED <<wf, alternate, late, hod, admin, effect, audit, faults>>

\* Accepting first hands over the requester's slots, one INSERT each ...
Accept(q) ==
    /\ Answerable(q)
    /\ q \notin late
    /\ job.pc = "idle"
    /\ job' = [Idle EXCEPT !.pc = "assign", !.q = q, !.slots = SlotsOf[q]]
    /\ UNCHANGED <<row, late, effect, audit, faults>>

AssignSlot ==
    /\ job.pc = "assign"
    /\ \E k \in job.slots :
         /\ active' = active \cup {<<job.q, alternate[job.q], k>>}
         /\ job' = [job EXCEPT !.slots = @ \ {k}]
    /\ UNCHANGED <<row, late, day, balance, audit, faults>>

\* Slip: the request is moved on while slots are still to be handed over.
AcceptDoneEarly ==
    /\ job.pc = "assign"
    /\ altst' = [altst EXCEPT ![job.q] = "ACCEPTED"]
    /\ wf' = [wf EXCEPT ![job.q] = "AWAITING_HOD_ADMIN"]
    /\ job' = [job EXCEPT !.pc = "audit", !.what = "ALTERNATE_ACCEPTED"]
    /\ UNCHANGED <<alternate, late, hod, admin, effect, audit, faults>>

\* Slip: the answer is recorded, the workflow status is not.
AcceptDoneStays ==
    /\ job.pc = "assign"
    /\ job.slots = {}
    /\ altst' = [altst EXCEPT ![job.q] = "ACCEPTED"]
    /\ job' = [job EXCEPT !.pc = "audit", !.what = "ALTERNATE_ACCEPTED"]
    /\ UNCHANGED <<wf, alternate, late, hod, admin, effect, audit, faults>>

\* ... then moves the request on.
AcceptDone ==
    /\ job.pc = "assign"
    /\ job.slots = {}
    /\ altst' = [altst EXCEPT ![job.q] = "ACCEPTED"]
    /\ wf' = [wf EXCEPT ![job.q] = "AWAITING_HOD_ADMIN"]
    /\ job' = [job EXCEPT !.pc = "audit", !.what = "ALTERNATE_ACCEPTED"]
    /\ UNCHANGED <<alternate, late, hod, admin, effect, audit, faults>>

\* Slip: any request can be given another nominee.
RenominateAnytime(q, a) ==
    /\ wf[q] \notin Terminal \cup {"NONE"}
    /\ a # RequesterOf[q]
    /\ alternate' = [alternate EXCEPT ![q] = a]
    /\ altst' = [altst EXCEPT ![q] = "PENDING"]
    /\ late' = late \ {q}
    /\ Owes(q, "ALTERNATE_RE_NOMINATED")
    /\ UNCHANGED <<wf, hod, admin, effect, audit, faults>>

\* re_nominate_alternate: looks at the workflow status only; a fresh deadline.
Renominate(q, a) ==
    /\ wf[q] = "AWAITING_ALTERNATE"
    /\ a # RequesterOf[q]
    /\ alternate' = [alternate EXCEPT ![q] = a]
    /\ altst' = [altst EXCEPT ![q] = "PENDING"]
    /\ late' = late \ {q}
    /\ Owes(q, "ALTERNATE_RE_NOMINATED")
    /\ UNCHANGED <<wf, hod, admin, effect, audit, faults>>

\* Slip: a request can be cancelled until it is decided.
CancelUndecided(q) ==
    /\ wf[q] \in {"AWAITING_ALTERNATE", "AWAITING_HOD_ADMIN", "APPROVED"}
    /\ wf' = [wf EXCEPT ![q] = "CANCELLED"]
    /\ Owes(q, "CANCELLED")
    /\ UNCHANGED <<alternate, altst, late, hod, admin, effect, audit, faults>>

\* cancel_staff_leave_request.
Cancel(q) ==
    /\ wf[q] = "AWAITING_ALTERNATE"
    /\ wf' = [wf EXCEPT ![q] = "CANCELLED"]
    /\ Owes(q, "CANCELLED")
    /\ UNCHANGED <<alternate, altst, late, hod, admin, effect, audit, faults>>

\* hod_action: a rejection leaves the workflow status to a later statement.
HodAct(q, verdict) ==
    /\ wf[q] = "AWAITING_HOD_ADMIN"
    /\ hod[q] = "PENDING"
    /\ hod' = [hod EXCEPT ![q] = verdict]
    /\ Owes(q, IF verdict = "APPROVED" THEN "HOD_APPROVED" ELSE "HOD_REJECTED")
    /\ UNCHANGED <<wf, alternate, altst, late, admin, effect, audit, faults>>

\* Slip: the admin may act again on what was already approved.
AdminActAgain(q, verdict) ==
    /\ wf[q] \in {"AWAITING_HOD_ADMIN", "AWAITING_ALTERNATE", "APPROVED"}
    /\ admin' = [admin EXCEPT ![q] = verdict]
    /\ wf' = [wf EXCEPT ![q] = verdict]
    /\ Owes(q, IF verdict = "APPROVED" THEN "ADMIN_APPROVED" ELSE "ADMIN_REJECTED")
    /\ UNCHANGED <<alternate, altst, late, hod, effect, audit, faults>>

\* admin_action: final, whatever the nominee or the HOD have said.
AdminAct(q, verdict) ==
    /\ wf[q] \in {"AWAITING_HOD_ADMIN", "AWAITING_ALTERNATE"}
    /\ admin[q] = "PENDING"
    /\ admin' = [admin EXCEPT ![q] = verdict]
    /\ wf' = [wf EXCEPT ![q] = verdict]
    /\ Owes(q, IF verdict = "APPROVED" THEN "ADMIN_APPROVED" ELSE "ADMIN_REJECTED")
    /\ UNCHANGED <<alternate, altst, late, hod, effect, audit, faults>>

-----------------------------------------------------------------------------
(***************************************************************************)
(* The statements that follow.                                             *)
(***************************************************************************)
\* Slip: a rejection by the HOD forgets the slots.
AfterAuditNoRevoke(what) ==
    CASE what = "HOD_REJECTED"   -> "reject"
      [] what = "ADMIN_REJECTED" -> "revoke"
      [] what = "ADMIN_APPROVED" -> "credit"
      [] OTHER                   -> "idle"

\* Slip: an approval has no effect on attendance.
AfterAuditNoCredit(what) ==
    IF what \in {"HOD_REJECTED", "ADMIN_REJECTED"} THEN "revoke" ELSE "idle"

AfterAudit(what) ==
    CASE what \in {"HOD_REJECTED", "ADMIN_REJECTED"} -> "revoke"
      [] what = "ADMIN_APPROVED"                     -> "credit"
      [] OTHER                                       -> "idle"

\* _audit, and where its caller goes on.
WriteAudit ==
    /\ job.pc = "audit"
    /\ audit' = [audit EXCEPT ![job.q] = @ \cup {job.what}]
    /\ job' = IF AfterAudit(job.what) = "idle" THEN Idle
              ELSE [job EXCEPT !.pc = AfterAudit(job.what),
                      !.days = IF job.what = "ADMIN_APPROVED"
                               THEN DaysOf[job.q] ELSE {}]
    /\ UNCHANGED <<row, late, effect, faults>>

\* _revoke_timetable_slots; the HOD's rejection then sets the workflow status.
Revoke ==
    /\ job.pc = "revoke"
    /\ active' = {x \in active : x[1] # job.q}
    /\ job' = IF job.what = "HOD_REJECTED" THEN [job EXCEPT !.pc = "reject"]
              ELSE Idle
    /\ UNCHANGED <<row, late, day, balance, audit, faults>>

HodReject ==
    /\ job.pc = "reject"
    /\ wf' = [wf EXCEPT ![job.q] = "REJECTED"]
    /\ job' = Idle
    /\ UNCHANGED <<alternate, altst, late, hod, admin, effect, audit, faults>>

\* _credit_leave_attendance: one day's UPDATE or INSERT, which takes the row
\* over from any leave that marked it before.
CreditDay ==
    /\ job.pc = "credit"
    /\ \E d \in job.days :
         /\ day' = [day EXCEPT ![<<RequesterOf[job.q], d>>] = job.q]
         /\ job' = [job EXCEPT !.days = @ \ {d}]
    /\ UNCHANGED <<row, late, active, balance, audit, faults>>

CreditDone ==
    /\ job.pc = "credit"
    /\ job.days = {}
    /\ job' = [job EXCEPT !.pc = "deduct"]
    /\ UNCHANGED <<row, late, effect, audit, faults>>

\* Slip: the balance is not kept from going below zero.
DeductBelowZero ==
    /\ job.pc = "deduct"
    /\ balance' = [balance EXCEPT ![RequesterOf[job.q]] = @ - CostOf[job.q]]
    /\ job' = Idle
    /\ UNCHANGED <<row, late, active, day, audit, faults>>

\* _deduct_leave_balances.
Deduct ==
    /\ job.pc = "deduct"
    /\ balance' = [balance EXCEPT ![RequesterOf[job.q]] =
                     IF CostOf[job.q] <= @ THEN @ - CostOf[job.q] ELSE 0]
    /\ job' = Idle
    /\ UNCHANGED <<row, late, active, day, audit, faults>>

-----------------------------------------------------------------------------
(***************************************************************************)
(* Time, the hourly expiry task, and interruptions.                        *)
(***************************************************************************)
\* The 24 hours of the latest nomination are over.
DeadlinePasses(q) ==
    /\ alternate[q] # NoStaff
    /\ q \notin late
    /\ late' = late \cup {q}
    /\ UNCHANGED <<row, effect, audit, job, faults>>

Overdue == {q \in Requests : altst[q] = "PENDING" /\ q \in late}

\* Slip: only requests that still wait for their nominee expire.
ExpireAwaiting ==
    LET due == {q \in Overdue : wf[q] = "AWAITING_ALTERNATE"}
    IN  /\ job.pc = "idle"
        /\ due # {}
        /\ altst' = [q \in Requests |-> IF q \in due THEN "EXPIRED" ELSE altst[q]]
        /\ job' = [Idle EXCEPT !.pc = "expired", !.queue = due]
        /\ UNCHANGED <<wf, alternate, late, hod, admin, effect, audit, faults>>

\* expire_overdue_alternate_requests: one UPDATE, whatever the workflow status,
\* then an audit row for each expired request.
Expire ==
    /\ job.pc = "idle"
    /\ Overdue # {}
    /\ altst' = [q \in Requests |-> IF q \in Overdue THEN "EXPIRED" ELSE altst[q]]
    /\ job' = [Idle EXCEPT !.pc = "expired", !.queue = Overdue]
    /\ UNCHANGED <<wf, alternate, late, hod, admin, effect, audit, faults>>

ExpireAudit ==
    /\ job.pc = "expired"
    /\ \E q \in job.queue :
         /\ audit' = [audit EXCEPT ![q] = @ \cup {"ALTERNATE_EXPIRED"}]
         /\ job' = IF job.queue = {q} THEN Idle ELSE [job EXCEPT !.queue = @ \ {q}]
    /\ UNCHANGED <<row, late, effect, faults>>

\* The process dies, or a statement raises: the rest of the job is lost.
Interrupted ==
    /\ job.pc # "idle"
    /\ faults < MaxFaults
    /\ faults' = faults + 1
    /\ job' = Idle
    /\ UNCHANGED <<row, late, effect, audit>>

Endpoint(q) ==
    \/ \E a \in Staff \cup {NoStaff} : Submit(q, a)
    \/ RespondTooLate(q) \/ Decline(q) \/ Accept(q)
    \/ \E a \in Staff : Renominate(q, a)
    \/ Cancel(q)
    \/ \E v \in {"APPROVED", "REJECTED"} : HodAct(q, v) \/ AdminAct(q, v)

JobStep ==
    \/ AssignSlot \/ AcceptDone \/ WriteAudit \/ Revoke \/ HodReject
    \/ CreditDay \/ CreditDone \/ Deduct \/ ExpireAudit

Next ==
    \/ \E q \in Requests : Endpoint(q) \/ DeadlinePasses(q)
    \/ JobStep
    \/ Expire
    \/ Interrupted

\* A running handler is carried on with.  The expiry task, once its hour is
\* over, waits in the first-come-first-served queue of the event loop, so it
\* runs although other requests come in between: strong fairness.  Nothing is
\* assumed of people, nor of deadlines.
Fairness == WF_vars(JobStep) /\ SF_vars(Expire)

Spec     == Init /\ [][Next]_vars
FairSpec == Spec /\ Fairness

-----------------------------------------------------------------------------
(***************************************************************************)
(* Properties.                                                             *)
(***************************************************************************)
\* A request whose nominee accepted is covered in full, by that very nominee,
\* for as long as it may still be or has been approved, however the handlers
\* that hand slots over and take them back were interrupted.
AcceptedIsCovered ==
    \A q \in Requests :
        /\ altst[q] = "ACCEPTED"
        /\ wf[q] \in {"AWAITING_HOD_ADMIN", "APPROVED"}
        /\ hod[q] # "REJECTED"
        => SlotsOf[q] \subseteq Cover(q, alternate[q])

\* A request the HOD alone rejected holds nobody to its slots, even if the
\* rejection was interrupted: they are taken back before the status changes.
RejectedIsUncovered ==
    \A q \in Requests : wf[q] = "REJECTED" /\ admin[q] = "PENDING" =>
        \A a \in Staff : Cover(q, a) = {}

\* Two colleagues hold the slots of one request only after an interruption:
\* who accepted cannot be re-nominated away.
OneCoverPerRequest ==
    \A q \in Requests, a, b \in Staff :
        a # b /\ Cover(q, a) # {} /\ Cover(q, b) # {} => faults > 0

\* Every day marked as leave is marked by an approved request of its person.
MarkedIsApproved ==
    \A p \in Staff, d \in Days :
        LET q == day[<<p, d>>]
        IN  q # NoRequest => wf[q] = "APPROVED" /\ RequesterOf[q] = p /\ d \in DaysOf[q]

\* Nobody is charged more days than the approved requests come to: no
\* sequence of decisions charges a request twice, or one not approved.
NeverOvercharged ==
    \A p \in Staff :
        LET approved == {q \in Requests : RequesterOf[q] = p /\ wf[q] = "APPROVED"}
        IN  balance[p] + MapThenSumSet(LAMBDA q : CostOf[q], approved)
              >= InitialBalance

\* The audit trail never contradicts the row: what it says was decided,
\* cancelled or accepted is what the request still says, for good.
TrailTruthful ==
    \A q \in Requests :
        /\ "ADMIN_APPROVED" \in audit[q] => wf[q] = "APPROVED"
        /\ "ADMIN_REJECTED" \in audit[q] => wf[q] = "REJECTED"
        /\ "CANCELLED" \in audit[q] => wf[q] = "CANCELLED"
        /\ "HOD_REJECTED" \in audit[q] => hod[q] = "REJECTED"
        /\ "ALTERNATE_ACCEPTED" \in audit[q] => altst[q] = "ACCEPTED"

\* The workflow implements its abstract lifecycle.
Phase(q) == CASE wf[q] = "NONE"               -> "unsubmitted"
              [] wf[q] = "AWAITING_ALTERNATE" -> "nominating"
              [] wf[q] = "AWAITING_HOD_ADMIN" -> "reviewing"
              [] wf[q] = "APPROVED"           -> "approved"
              [] wf[q] = "REJECTED"           -> "rejected"
              [] wf[q] = "CANCELLED"          -> "cancelled"

Holder(q) == IF altst[q] = "ACCEPTED" THEN alternate[q] ELSE NoStaff

Lifecycle == INSTANCE LeaveLifecycle
                WITH phase <- [q \in Requests |-> Phase(q)],
                     holder <- [q \in Requests |-> Holder(q)]

\* Every behaviour of the workflow is one of LeaveLifecycle: decisions and
\* withdrawals are final, and whoever accepted is never replaced.
ImplementsLifecycle == Lifecycle!LifecycleSpec

\* A nomination past its deadline does not stay pending, in whatever state
\* its request is: it is answered, expired, or given a new deadline.
OverdueResolved ==
    \A q \in Requests : (q \in Overdue) ~> (q \notin Overdue)

\* An approval reaches the attendance of every day of the leave, unless a
\* handler was interrupted.
ApprovalTakesEffect ==
    \A q \in Requests : (wf[q] = "APPROVED") ~>
        \/ faults > 0
        \/ \A d \in DaysOf[q] : day[<<RequesterOf[q], d>>] # NoRequest

\* The decision log of the module: "Decline behaviour : strict - requester
\* must re-nominate; leave cannot proceed".
StrictDecline ==
    \A q \in Requests : altst[q] = "DECLINED" => wf[q] # "APPROVED"

\* The docstring of re_nominate_alternate: "Requester nominates a new alternate
\* after previous alternate declined/expired."
RenominatedAfterRefusal ==
    [][\A q \in Requests :
          alternate[q] # NoStaff /\ alternate'[q] # alternate[q]
            => altst[q] \in {"DECLINED", "EXPIRED"}]_vars
=============================================================================
