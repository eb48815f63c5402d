------------------------------ MODULE Timetable ------------------------------
(***************************************************************************)
(* The weekly timetables of the classes of a department, the allocation of *)
(* subjects to teachers and the curriculum.  Every statement is durable by *)
(* itself, so a handler that is interrupted leaves what it has done.       *)
(***************************************************************************)
EXTENDS Integers, FiniteSets, FiniteSetsExt, SequencesExt

CONSTANTS Classes, Staff, Subjects, Rooms,
          Labs,        \* the subjects of type lab
          NDays,       \* the working days of a week
          NPeriods,    \* the periods of a day
          Batches,     \* the lab batches: {"ALL"} or more
          Hours,       \* the weekly hours that are entered
          Spans,       \* the numbers of periods a slot may span
          Matrices,    \* the matrices of a bulk save: [<<day, period, batch>> -> slot]
          Edits,       \* the operations used in this instance
          Interrupts,  \* TRUE: a handler may be interrupted
          MaxOps,      \* bound: requests
          NoSlot       \* a model value: a free slot

WDays == 1 .. NDays
Periods == 1 .. NPeriods
Keys == Classes \X WDays \X Periods \X Batches
Lessons == [staff : Staff, subject : Subjects, room : Rooms]
Allocs == [class : Classes, subject : Subjects, staff : Staff, hours : Hours]

\* What an instance has to keep to.
TimetableSettings ==
  /\ IsFiniteSet(Classes) /\ IsFiniteSet(Staff) /\ IsFiniteSet(Subjects) /\ IsFiniteSet(Hours)
  /\ Hours \subseteq Nat /\ NDays \in Nat /\ NPeriods \in Nat
  /\ \A M \in Matrices : /\ DOMAIN M \subseteq WDays \X Periods \X Batches
                        /\ \A x \in DOMAIN M : M[x] \in Lessons

VARIABLES slots,       \* class_timetable: [key -> NoSlot or a lesson]
          allocs,      \* subject_faculty_allocations
          curriculum,  \* department_subjects: rows [subject, hours, active]
          done,        \* ghost: the last request [op, class, result]
          ops          \* the requests so far
ttVars == <<slots, allocs, curriculum, done, ops>>

\* The slots of a class, or of a day of a class.
OfClass(c) == {k \in Keys : k[1] = c}
OfDay(c, d) == {k \in OfClass(c) : k[2] = d}
Taken(K) == {k \in K : slots[k] # NoSlot}
Cleared(K) == [k \in Keys |-> IF k \in K THEN NoSlot ELSE slots[k]]

(* The type invariant. *)
TtTypeOK == /\ slots \in [Keys -> Lessons \cup {NoSlot}]
            /\ allocs \subseteq Allocs
            /\ \A a, b \in allocs : [a EXCEPT !.hours = b.hours] = b => a = b
            /\ curriculum \subseteq [subject : Subjects, hours : Hours, active : BOOLEAN]
            /\ \A a, b \in curriculum : a.subject = b.subject => a = b
            /\ ops \in 0 .. MaxOps

TtInit == /\ slots = [k \in Keys |-> NoSlot]
          /\ allocs = {} /\ curriculum = {}
          /\ done = [op |-> "none", class |-> "none", result |-> "ok"]
          /\ ops = 0

Reply(op, c, r) == /\ op \in Edits
                   /\ ops < MaxOps /\ ops' = ops + 1
                   /\ done' = [op |-> op, class |-> c, result |-> r]

\* The rows of W are written over slots s; an interruption leaves some of them.
Written(s, W, r) == /\ r = "ok" \/ (r = "interrupted" /\ Interrupts)
                    /\ \E D \in SUBSET DOMAIN W :
                         /\ D = DOMAIN W <=> r = "ok"
                         /\ slots' = [k \in Keys |-> IF k \in D THEN W[k] ELSE s[k]]

-----------------------------------------------------------------------------
(* Single slots. *)

\* The teacher has another class at the time.
Collides(t, c, d, p) ==
  \E k \in Keys : k[1] # c /\ k[2] = d /\ k[3] = p /\ slots[k] # NoSlot /\ slots[k].staff = t

\* Slip: only the first period is checked.
PeriodsSavedFirst(c, d, p, n, l, force) ==
  IF Collides(l.staff, c, d, p) /\ ~force THEN {} ELSE p .. p + n - 1
\* The periods written before the first collision.
PeriodsSaved(c, d, p, n, l, force) ==
  {q \in p .. p + n - 1 : force \/ \A x \in p .. q : ~Collides(l.staff, c, d, x)}

SaveSlot(c, d, p, n, b, l, force) ==
  LET Q == PeriodsSaved(c, d, p, n, l, force)
  IN  /\ Reply(IF force THEN "force" ELSE "save", c, IF Q = p .. p + n - 1 THEN "ok" ELSE "refused")
      /\ slots' = [k \in Keys |-> IF k[1] = c /\ k[2] = d /\ k[3] \in Q /\ k[4] = b THEN l ELSE slots[k]]
      /\ UNCHANGED <<allocs, curriculum>>

Clear(K, c) == /\ Reply("delete", c, "ok")
               /\ Taken(K) # {}
               /\ slots' = Cleared(K)
               /\ UNCHANGED <<allocs, curriculum>>
DeleteSlot(k) == Clear({k}, k[1])
DeleteDay(c, d) == Clear(OfDay(c, d), c)
DeleteWeek(c) == Clear(OfClass(c), c)

-----------------------------------------------------------------------------
(* Copies: the target is emptied, then filled, without looking at collisions. *)

CopyClass(c, e, withAllocs, r) ==
  /\ Reply("copy", e, r)
  /\ Taken(OfClass(c)) # {}
  /\ Written(Cleared(OfClass(e)),
             [k \in {<<e, x[2], x[3], x[4]>> : x \in Taken(OfClass(c))} |-> slots[<<c, k[2], k[3], k[4]>>]], r)
  /\ allocs' = IF withAllocs /\ r = "ok"
               THEN allocs \cup {[a EXCEPT !.class = e] : a \in {x \in allocs : x.class = c /\
                        ~\E y \in allocs : y.class = e /\ y.subject = x.subject /\ y.staff = x.staff}}
               ELSE allocs
  /\ UNCHANGED curriculum

CopyDay(c, d, e, r) ==
  /\ Reply("copy", c, r)
  /\ d # e /\ Taken(OfDay(c, d)) # {}
  /\ Written(Cleared(OfDay(c, e)),
             [k \in {[x EXCEPT ![2] = e] : x \in Taken(OfDay(c, d))} |-> slots[[k EXCEPT ![2] = d]]], r)
  /\ UNCHANGED <<allocs, curriculum>>

SwapDays(c, d, e, r) ==
  /\ Reply("swap", c, r)
  /\ d # e
  /\ LET other(k) == [k EXCEPT ![2] = IF k[2] = d THEN e ELSE d]
         K == OfDay(c, d) \cup OfDay(c, e)
     IN  Written(Cleared(K), [k \in {other(x) : x \in Taken(K)} |-> slots[other(k)]], r)
  /\ UNCHANGED <<allocs, curriculum>>

\* A whole matrix: refused as a whole if a teacher of it has another class, unless
\* the request overrides the check (allow_override).
BulkSave(c, M, clear, force, r) ==
  /\ Reply(IF force THEN "force" ELSE "bulk", c, r)
  /\ LET hit == ~force /\ \E x \in DOMAIN M : Collides(M[x].staff, c, x[1], x[2])
         keyed == [k \in {<<c, x[1], x[2], x[3]>> : x \in DOMAIN M} |-> M[<<k[2], k[3], k[4]>>]]
     IN  IF hit THEN r = "refused" /\ slots' = slots
         ELSE Written(IF clear THEN Cleared(OfClass(c)) ELSE slots, keyed, r)
  /\ UNCHANGED <<allocs, curriculum>>

-----------------------------------------------------------------------------
(* Allocations and the curriculum. *)

\* Slip: an allocation with other hours is added.
SaveAlloc(a) == /\ Reply("alloc", a.class, "ok")
                /\ allocs' = {x \in allocs : ~(x.class = a.class /\ x.subject = a.subject /\ x.staff = a.staff)}
                             \cup {a}
                /\ UNCHANGED <<slots, curriculum>>
DeleteAlloc(a) == /\ Reply("alloc", a.class, "ok")
                  /\ allocs' = allocs \ {a}
                  /\ UNCHANGED <<slots, curriculum>>

\* The allocations of the subject take its hours.
SaveSubject(s, h, on) ==
  /\ Reply("subject", "none", "ok")
  /\ curriculum' = {x \in curriculum : x.subject # s} \cup {[subject |-> s, hours |-> h, active |-> on]}
  /\ allocs' = {IF a.subject = s THEN [a EXCEPT !.hours = h] ELSE a : a \in allocs}
  /\ UNCHANGED slots
\* An import keeps the flag of a known subject and touches no allocation.
ImportSubjects(S, h) ==
  /\ Reply("subject", "none", "ok")
  /\ curriculum' = {IF x.subject \in S THEN [x EXCEPT !.hours = h] ELSE x : x \in curriculum}
                   \cup {[subject |-> s, hours |-> h, active |-> TRUE] :
                           s \in {y \in S : ~\E x \in curriculum : x.subject = y}}
  /\ UNCHANGED <<slots, allocs>>
DeleteSubject(x) == /\ Reply("subject", "none", "ok")
                    /\ curriculum' = curriculum \ {x}
                    /\ UNCHANGED <<slots, allocs>>

-----------------------------------------------------------------------------
(* The automatic schedule: g is the set of the new slots [day, period,     *)
(* subject, staff], B the slots <<day, period>> that are taken already.    *)

Free(B, g, a, d, p) == /\ <<d, p>> \notin B
                       /\ ~\E x \in g : x.day = d /\ x.period = p
                       /\ ~Collides(a.staff, a.class, d, p)
Filled(g, a) == Cardinality({x \in g : x.subject = a.subject})
OnDay(g, a, d) == Cardinality({x \in g : x.subject = a.subject /\ x.day = d})
DailyCap(a) == IF a.hours > 4 THEN 2 ELSE 1
New(a, d, p) == [day |-> d, period |-> p, subject |-> a.subject, staff |-> a.staff]

\* A lab is first tried as one block: on the first day that has room, at the
\* end of the day, at its start or from the third period.
WithBlock(B, g, a) ==
  LET n == Min({a.hours - Filled(g, a), IF NPeriods >= 6 THEN 3 ELSE 2})
      starts == <<NPeriods - n + 1, 1, 3>>
      fits(d, i) == /\ starts[i] >= 1 /\ starts[i] + n - 1 <= NPeriods
                    /\ \A p \in starts[i] .. starts[i] + n - 1 : Free(B, g, a, d, p)
      days == {d \in WDays : \E i \in 1 .. 3 : fits(d, i)}
      start == starts[Min({i \in 1 .. 3 : fits(Min(days), i)})]
  IN  IF a.subject \notin Labs \/ days = {} THEN g
      ELSE g \cup {New(a, Min(days), p) : p \in start .. start + n - 1}

\* Slip: the daily limit is forgotten.
WithDayTwice(B, g, a, d) ==
  LET P == {p \in Periods : Free(B, g, a, d, p)}
  IN  IF Filled(g, a) >= a.hours \/ P = {} THEN g ELSE g \cup {New(a, d, Min(P))}
\* One hour on a day, in the first free period.
WithDay(B, g, a, d) ==
  LET P == {p \in Periods : Free(B, g, a, d, p)}
  IN  IF Filled(g, a) >= a.hours \/ OnDay(g, a, d) >= DailyCap(a) \/ P = {} THEN g
      ELSE g \cup {New(a, d, Min(P))}
\* Passes over the days, as long as they place an hour.
WithHours(B, g, a) ==
  LET pass[i \in 0 .. a.hours] ==
        IF i = 0 THEN g
        ELSE LET day[d \in 0 .. NDays] == IF d = 0 THEN pass[i - 1] ELSE WithDay(B, day[d - 1], a, d)
             IN  day[NDays]
  IN  pass[a.hours]

\* The allocations in the order q.
Generated(B, q) ==
  LET g[i \in 0 .. Len(q)] ==
        IF i = 0 THEN {}
        ELSE IF Filled(g[i - 1], q[i]) >= q[i].hours THEN g[i - 1]
        ELSE WithHours(B, WithBlock(B, g[i - 1], q[i]), q[i])
  IN  g[Len(q)]

\* Labs first, then by hours.
Ordered(q) == \A i, j \in DOMAIN q : i < j =>
                 \/ q[i].subject \in Labs /\ q[j].subject \notin Labs
                 \/ (q[i].subject \in Labs <=> q[j].subject \in Labs) /\ q[i].hours >= q[j].hours

\* Without allocations, the active subjects are given to the teachers in turn.
Seeds(c) ==
  LET S == {x \in curriculum : x.active}
      fair(f) == \A s, t \in Staff : Cardinality({x \in S : f[x] = s})
                                       <= Cardinality({x \in S : f[x] = t}) + 1
  IN  {{[class |-> c, subject |-> x.subject, staff |-> f[x], hours |-> x.hours] : x \in S} :
         f \in {h \in [S -> Staff] : fair(h)}}

AutoSchedule(c, keep, r) ==
  LET own == {a \in allocs : a.class = c}
      B == IF keep THEN {<<k[2], k[3]>> : k \in Taken(OfClass(c))} ELSE {}
      room == CHOOSE x \in Rooms : TRUE
  IN  /\ Reply("auto", c, r)
      /\ \E A \in (IF own # {} THEN {own} ELSE Seeds(c)) :
           /\ allocs' = allocs \cup A
           /\ IF A = {} THEN r = "refused" /\ slots' = slots
              ELSE \E q \in SetToSeqs(A) :
                     /\ Ordered(q)
                     /\ LET g == Generated(B, q)
                        IN  Written(slots, [k \in {<<c, x.day, x.period, "ALL">> : x \in g} |->
                              LET x == CHOOSE y \in g : y.day = k[2] /\ y.period = k[3]
                              IN  [staff |-> x.staff, subject |-> x.subject, room |-> room]], r)
      /\ UNCHANGED curriculum

-----------------------------------------------------------------------------
Results == {"ok", "interrupted"}
TtNext ==
  \/ \E c \in Classes, d \in WDays, p \in Periods, n \in Spans, b \in Batches, l \in Lessons, f \in BOOLEAN :
       p + n - 1 <= NPeriods /\ SaveSlot(c, d, p, n, b, l, f)
  \/ \E k \in Keys : DeleteSlot(k)
  \/ \E c \in Classes, d \in WDays : DeleteDay(c, d)
  \/ \E c \in Classes : DeleteWeek(c)
  \/ \E c, e \in Classes, w \in BOOLEAN, r \in Results : c # e /\ CopyClass(c, e, w, r)
  \/ \E c \in Classes, d, e \in WDays, r \in Results : CopyDay(c, d, e, r) \/ SwapDays(c, d, e, r)
  \/ \E c \in Classes, M \in Matrices, w, f \in BOOLEAN, r \in Results \cup {"refused"} : BulkSave(c, M, w, f, r)
  \/ \E a \in Allocs : SaveAlloc(a)
  \/ \E a \in allocs : DeleteAlloc(a)
  \/ \E s \in Subjects, h \in Hours, on \in BOOLEAN : SaveSubject(s, h, on)
  \/ \E S \in SUBSET Subjects \ {{}}, h \in Hours : ImportSubjects(S, h)
  \/ \E x \in curriculum : DeleteSubject(x)
  \/ \E c \in Classes, keep \in BOOLEAN, r \in Results \cup {"refused"} : AutoSchedule(c, keep, r)

TtSpec == TtInit /\ [][TtNext]_ttVars

-----------------------------------------------------------------------------
(* Properties. *)

\* A teacher is never in two classes at once, as long as nobody overrides the
\* collision check, copies or swaps (the collision checks of the slot, the
\* matrix and the automatic schedule).
NoDoubleBooking ==
  \A j, k \in Keys : /\ j[1] # k[1] /\ j[2] = k[2] /\ j[3] = k[3]
                     /\ slots[j] # NoSlot /\ slots[k] # NoSlot
                     => slots[j].staff # slots[k].staff

Count(s, c, x) == Cardinality({k \in OfClass(c) : s[k] # NoSlot /\ s[k].subject = x})
CountOn(s, c, x, d) == Cardinality({k \in OfDay(c, d) : s[k] # NoSlot /\ s[k].subject = x})

\* The automatic schedule of an empty class never gives a subject more than
\* its hours or a day more than its limit, and it leaves hours open only if no
\* free period of the class suits the teacher on a day below the limit
\* (main.py:35620).
AutoSound ==
  \A c \in Classes :
    ops' # ops /\ done' = [op |-> "auto", class |-> c, result |-> "ok"] /\ Taken(OfClass(c)) = {} =>
    \A a \in {x \in allocs' : x.class = c} :
      LET most == Max({x.hours : x \in {y \in allocs' : y.class = c /\ y.subject = a.subject}})
          cap == IF most > 4 THEN 2 ELSE 1
      IN  /\ Count(slots', c, a.subject) <= most
          /\ a.subject \notin Labs => \A d \in WDays : CountOn(slots', c, a.subject, d) <= cap
          /\ Count(slots', c, a.subject) < a.hours =>
               \A d \in WDays, p \in Periods :
                 \/ CountOn(slots', c, a.subject, d) >= DailyCap(a)
                 \/ \E b \in Batches : slots'[<<c, d, p, b>>] # NoSlot
                 \/ Collides(a.staff, c, d, p)

\* A subject never gets more than its weekly hours from automatic schedules.
HoursRespected ==
  \A c \in Classes, x \in Subjects :
    LET H == {a.hours : a \in {y \in allocs : y.class = c /\ y.subject = x}}
    IN  H # {} /\ done.op = "auto" => Count(slots, c, x) <= Max(H)

\* A swap exchanges the two days: no lesson is lost.
SwapKeeps ==
  [][\A c \in Classes : ops' # ops /\ done'.op = "swap" /\ done'.class = c =>
       Cardinality({k \in OfClass(c) : slots'[k] # NoSlot}) = Cardinality(Taken(OfClass(c)))]_ttVars
=============================================================================
