-------------------------- MODULE AttendanceMargin --------------------------
(***************************************************************************)
(* The margin predictor of get_student_detailed_analytics (src/backend/    *)
(* main.py): how many sessions a student may still miss, or has to attend, *)
(* and what becomes of that advice as sessions pass.  Quotients are exact  *)
(* here; the code computes them in doubles, which is exact for the 75 %    *)
(* target, and may ask for one session more for the 85 % target.           *)
(***************************************************************************)
EXTENDS Integers

CONSTANT MaxTotal   \* bound: sessions held

ASSUME MarginAssumption == MaxTotal \in Nat

VARIABLES
    attended,   \* rows with a status that counts as attended
    total,      \* those and the absences
    spare,      \* sessions the last advice still allows to miss, -1: none
    need,       \* sessions it still asks to attend for 75 %, -1: void
    need85,     \* the same for 85 %
    asked       \* attended when the advice was given

marginVars == <<attended, total, spare, need, need85, asked>>

Void == -1

MarginTypeOK ==
    /\ total \in 0 .. MaxTotal /\ attended \in 0 .. total
    /\ spare \in -1 .. MaxTotal
    /\ need \in -1 .. 3 * MaxTotal
    /\ need85 \in -1 .. 6 * MaxTotal
    /\ asked \in 0 .. MaxTotal

MarginInit == /\ attended = 0 /\ total = 0 /\ asked = 0
        /\ spare = Void /\ need = Void /\ need85 = Void

Above(x)  == IF x > 0 THEN x ELSE 0

\* overall_pct, in tenths of a percent, rounded as round(..., 1) does.
Pct == IF total = 0 THEN 1000 ELSE (2000 * attended + total) \div (2 * total)

\* Slip: rounded up, the last absence is one too many.
SafeAbsencesUp == Above((4 * attended - 3 * total + 2) \div 3)

\* max(0, floor(total_attended / 0.75 - total_working))
SafeAbsences == Above((4 * attended - 3 * total) \div 3)

\* max(1, ceil((0.75 * total_working - total_attended) / 0.25))
NeededFor75 == Above(3 * total - 4 * attended - 1) + 1

\* max(1, ceil((0.85 * total_working - total_attended) / 0.15))
NeededFor85 == Above((17 * total - 20 * attended + 2) \div 3 - 1) + 1

\* get_student_detailed_analytics
Advise ==
    /\ total > 0
    /\ IF Pct >= 750 THEN spare' = SafeAbsences /\ need' = 0
                     ELSE spare' = Void /\ need' = NeededFor75
    /\ need85' = IF Pct < 850 THEN NeededFor85 ELSE 0
    /\ asked' = attended
    /\ UNCHANGED <<attended, total>>

OneLess(n) == IF n > 0 THEN n - 1 ELSE n

\* A check-in stores a Present row.
Attend ==
    /\ total < MaxTotal
    /\ attended' = attended + 1 /\ total' = total + 1
    /\ need' = OneLess(need) /\ need85' = OneLess(need85)
    /\ UNCHANGED <<spare, asked>>

\* The closing of a session stores an Absent one.
Miss ==
    /\ total < MaxTotal
    /\ total' = total + 1
    /\ spare' = IF spare > 0 THEN spare - 1 ELSE Void
    /\ need' = Void /\ need85' = Void
    /\ UNCHANGED <<attended, asked>>

MarginNext == Advise \/ Attend \/ Miss

MarginSpec == MarginInit /\ [][MarginNext]_marginVars

-----------------------------------------------------------------------------
(***************************************************************************)
(* Properties                                                              *)
(***************************************************************************)
Enough == 4 * attended >= 3 * total

\* A student who misses no more sessions than safe_absences_allowed, and
\* attends any number in between, keeps 75 %.
SpareHonest == spare >= 0 => Enough

\* One who attends the sessions_needed_for_75 reaches 75 %, and not earlier.
NeedHonest == (need = 0 => Enough) /\ (need > 0 => ~Enough)

\* The advice of the analytics holds until it is next asked for.
MarginHonest == SpareHonest /\ NeedHonest

=============================================================================
