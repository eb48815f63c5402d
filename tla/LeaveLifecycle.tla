--------------------------- MODULE LeaveLifecycle ---------------------------
(***************************************************************************)
(* What the staff-leave workflow of src/backend/app/services/              *)
(* staff_leave_service.py promises of each request, statement boundaries,  *)
(* deadlines, audit rows and crashes aside: its phase moves forward only,  *)
(* a decision or a withdrawal is final, and the colleague who agreed to    *)
(* cover it is named once and never replaced.                              *)
(***************************************************************************)
CONSTANTS Requests, Staff, NoStaff

VARIABLES phase, holder

lifecycle == <<phase, holder>>

Phases == {"unsubmitted", "nominating", "reviewing",
           "approved", "rejected", "cancelled"}

LifecycleTypeOK == /\ phase \in [Requests -> Phases]
                   /\ holder \in [Requests -> Staff \cup {NoStaff}]

LifecycleInit == /\ phase = [q \in Requests |-> "unsubmitted"]
                 /\ holder = [q \in Requests |-> NoStaff]

Move(q, from, to) == /\ phase[q] \in from
                     /\ \E x \in to : phase' = [phase EXCEPT ![q] = x]

\* With a nominee the request waits for an answer, without one for a decision.
Submits(q) == /\ Move(q, {"unsubmitted"}, {"nominating", "reviewing"})
              /\ UNCHANGED holder

\* The nominee of the moment agrees to cover.
Agrees(q) == /\ Move(q, {"nominating"}, {"reviewing"})
             /\ \E a \in Staff : holder' = [holder EXCEPT ![q] = a]

Withdraws(q) == Move(q, {"nominating"}, {"cancelled"}) /\ UNCHANGED holder

Decides(q) == /\ Move(q, {"nominating", "reviewing"}, {"approved", "rejected"})
              /\ UNCHANGED holder

LifecycleNext ==
    \E q \in Requests : Submits(q) \/ Agrees(q) \/ Withdraws(q) \/ Decides(q)

LifecycleSpec == LifecycleInit /\ [][LifecycleNext]_lifecycle
=============================================================================
