---------------------------- MODULE MCStaffLeave ----------------------------
(***************************************************************************)
(* Instances of StaffLeave for TLC.  One: a two-day leave with two class   *)
(* slots, two colleagues to nominate, and a balance of one day only.  Two: *)
(* that person's leaves over the same day, the second half a day without   *)
(* classes; costs and balance in half days, the balance enough for each twice. *)
(***************************************************************************)
EXTENDS StaffLeave, TLC

CONSTANTS p, a, b, q1, q2, k1, k2, d1, d2

OnePerson  == [q \in {q1} |-> p]
OneSlots   == [q \in {q1} |-> {k1, k2}]
OneDays    == [q \in {q1} |-> {d1, d2}]
OneCost    == [q \in {q1} |-> 2]

TwoPerson  == [q \in {q1, q2} |-> p]
TwoSlots   == [q \in {q1, q2} |-> {k1}]
TwoClasses == [q \in {q1, q2} |-> IF q = q1 THEN {k1} ELSE {}]
TwoDays    == [q \in {q1, q2} |-> {d1}]
TwoCost    == [q \in {q1, q2} |-> IF q = q1 THEN 2 ELSE 1]

Colleagues == Permutations({a, b})
=============================================================================
