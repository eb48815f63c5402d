--------------------------- MODULE ClassAdvisors ---------------------------
(***************************************************************************)
(* The advisors of the classes of one department and the class and mentor  *)
(* of every student (src/backend/main.py 30734-33728).  Assigning,         *)
(* promoting, registering and editing run on the event loop, removing,     *)
(* deleting and importing in a pool thread; every statement is committed   *)
(* by itself.                                                              *)
(*                                                                         *)
(* A class is a batch, a semester and a section.  loop and pool are what   *)
(* the event loop and the pool thread are executing.                       *)
(***************************************************************************)
EXTENDS Naturals, Sequences, FiniteSets

CONSTANTS
    Pupils, Mentors, Batches, Semesters, Sections,
    NoPupil,        \* a register number without a row in students
    NoMentor,        \* mentor_staff_reg_no is NULL
    Indexed,        \* the unique indexes on active advisors could be created
    Sheets,         \* the spreadsheets imported: sequences of [reg, row]
    AdvFaults,      \* what may fail: "stop" (the process), "deactivate" (its UPDATE)
    MaxActs,        \* bound: requests
    MaxStops        \* bound: faults

AllSections == "ALL"

\* Semester 0 stands for a semester of 0 or NULL.
PupilRow == [batch : Batches, sem : Semesters \cup {0}, section : Sections,
             mentor : Mentors \cup {NoMentor}]
SheetRow == [reg : Pupils, row : PupilRow]

AdvisorSettings ==
    /\ NoPupil \notin PupilRow
    /\ Indexed \in BOOLEAN
    /\ Sheets \subseteq Seq(SheetRow) \ {<<>>}
    /\ MaxActs \in Nat /\ MaxStops \in Nat

VARIABLES
    advisors,       \* class_advisors
    pupils,         \* students
    loop,
    pool,
    acts,           \* bound: requests so far
    stops           \* bound: faults so far

advVars == <<advisors, pupils, loop, pool, acts, stops>>

Free == [pc |-> "idle"]
Class(r) == <<r.batch, r.sem, r.section>>
Cohort(r) == <<r.batch, r.section>>
Active == {a \in advisors : a.active}

AdvisorRow == [id : 1 .. MaxActs, batch : Batches, sem : Semesters, section : Sections,
               staff : Mentors, active : BOOLEAN]
LoopJob ==
    [pc : {"deactivate", "upsert", "sync", "unplaced"}, batch : Batches, sem : Semesters,
     section : Sections, staff : Mentors, id : 1 .. MaxActs]
      \cup [pc : {"advisors"}, batch : Batches, section : Sections \cup {AllSections},
            sem : Semesters]
      \cup [pc : {"register"}, reg : Pupils, row : PupilRow]
PoolJob ==
    [pc : {"delete", "clear"}, id : 1 .. MaxActs, batch : Batches, section : Sections]
      \cup [pc : {"import"}, rows : Seq(SheetRow) \ {<<>>}, overwrite : BOOLEAN, done : Nat]

AdvTypeOK ==
    /\ advisors \subseteq AdvisorRow
    /\ \A a, b \in advisors : a.id = b.id \/ Class(a) = Class(b) => a = b
    /\ pupils \in [Pupils -> PupilRow \cup {NoPupil}]
    /\ loop \in LoopJob \cup {Free}
    /\ pool \in PoolJob \cup {Free}
    /\ acts \in 0 .. MaxActs /\ stops \in 0 .. MaxStops

AdvInit ==
    /\ advisors = {}
    /\ pupils \in [Pupils -> {NoPupil} \cup
          {r \in PupilRow : r.mentor = NoMentor /\ r.sem \in {0, 1}}]
    /\ loop = Free
    /\ pool = Free
    /\ acts = 0 /\ stops = 0

Act == acts < MaxActs /\ acts' = acts + 1

Present == {s \in Pupils : pupils[s] # NoPupil}

-----------------------------------------------------------------------------
(***************************************************************************)
(* assign_class_advisor.                                                   *)
(***************************************************************************)
\* The staff member advises no other class; nothing is written before.
Assign(b, m, c, w) ==
    /\ loop = Free /\ Act
    /\ \A a \in Active : a.staff = w => Cohort(a) = <<b, c>>
    /\ loop' = [pc |-> "deactivate", batch |-> b, sem |-> m, section |-> c, staff |-> w,
                id |-> acts']
    /\ UNCHANGED <<advisors, pupils, pool, stops>>

Deactivate ==
    /\ loop.pc = "deactivate"
    /\ advisors' = {[a EXCEPT !.active = a.active /\ Cohort(a) # Cohort(loop)] : a \in advisors}
    /\ loop' = [loop EXCEPT !.pc = "upsert"]
    /\ UNCHANGED <<pupils, pool, acts, stops>>

\* The except clause of that UPDATE passes.
DeactivateFails ==
    /\ loop.pc = "deactivate"
    /\ "deactivate" \in AdvFaults /\ stops < MaxStops /\ stops' = stops + 1
    /\ loop' = [loop EXCEPT !.pc = "upsert"]
    /\ UNCHANGED <<advisors, pupils, pool, acts>>

Others == {a \in advisors : Class(a) # Class(loop)}

\* The row of the class is updated, or a new one inserted.
UpsertAdvisor ==
    /\ loop.pc = "upsert"
    /\ Indexed => \A a \in Others : a.active =>
                     a.staff # loop.staff /\ Cohort(a) # Cohort(loop)
    /\ LET same == advisors \ Others
           id   == IF same = {} THEN loop.id ELSE (CHOOSE a \in same : TRUE).id
       IN  advisors' = Others \cup
             {[id |-> id, batch |-> loop.batch, sem |-> loop.sem,
               section |-> loop.section, staff |-> loop.staff, active |-> TRUE]}
    /\ loop' = [loop EXCEPT !.pc = "sync"]
    /\ UNCHANGED <<pupils, pool, acts, stops>>

\* A unique index refuses: the one on staff ends the request, the one on classes
\* leads to a DELETE of the row of the class and an INSERT that is refused too.
UpsertRefused ==
    /\ loop.pc = "upsert" /\ Indexed
    /\ \/ /\ \E a \in Others : a.active /\ a.staff = loop.staff
          /\ advisors' = advisors
       \/ /\ \E a \in Others : a.active /\ Cohort(a) = Cohort(loop)
          /\ advisors' = Others
    /\ loop' = Free
    /\ UNCHANGED <<pupils, pool, acts, stops>>

\* Whoever is in the semester and section joins the batch.
SyncClass ==
    /\ loop.pc = "sync"
    /\ LET joins(s) == s \in Present /\ pupils[s].sem = loop.sem /\ pupils[s].section = loop.section
       IN  pupils' = [s \in Pupils |->
                        IF joins(s) THEN [pupils[s] EXCEPT !.mentor = loop.staff, !.batch = loop.batch]
                        ELSE pupils[s]]
    /\ loop' = [loop EXCEPT !.pc = "unplaced"]
    /\ UNCHANGED <<advisors, pool, acts, stops>>

SyncUnplaced ==
    /\ loop.pc = "unplaced"
    /\ LET placed(s) == s \in Present /\ pupils[s].sem = 0 /\ Cohort(pupils[s]) = Cohort(loop)
       IN  pupils' = [s \in Pupils |->
                        IF placed(s) THEN [pupils[s] EXCEPT !.mentor = loop.staff, !.sem = loop.sem]
                        ELSE pupils[s]]
    /\ loop' = Free
    /\ UNCHANGED <<advisors, pool, acts, stops>>

-----------------------------------------------------------------------------
(***************************************************************************)
(* promote_student_batch, update_university_student and                    *)
(* register_university_student.                                            *)
(***************************************************************************)
Promoted(r) == r.batch = loop.batch /\ loop.section \in {AllSections, r.section}

Promote(b, c, m) ==
    /\ loop = Free /\ Act
    /\ pupils' = [s \in Pupils |->
                    IF s \in Present /\ pupils[s].batch = b /\ c \in {AllSections, pupils[s].section}
                    THEN [pupils[s] EXCEPT !.sem = m] ELSE pupils[s]]
    /\ loop' = [pc |-> "advisors", batch |-> b, section |-> c, sem |-> m]
    /\ UNCHANGED <<advisors, pool, stops>>

\* Rows of one section and different semesters would become one class, which
\* the UNIQUE constraint refuses: the UPDATE changes nothing.
PromoteAdvisors ==
    /\ loop.pc = "advisors"
    /\ LET after(a) == IF Promoted(a) THEN [a EXCEPT !.sem = loop.sem] ELSE a
       IN  advisors' = IF \E a, b \in advisors : a # b /\ Class(after(a)) = Class(after(b))
                       THEN advisors ELSE {after(a) : a \in advisors}
    /\ loop' = Free
    /\ UNCHANGED <<pupils, pool, acts, stops>>

\* Every column COALESCEs, so an edit of several is several edits of one.
Edited(r) ==
    {[r EXCEPT !.batch = b] : b \in Batches} \cup {[r EXCEPT !.sem = m] : m \in Semesters}
      \cup {[r EXCEPT !.section = c] : c \in Sections} \cup {[r EXCEPT !.mentor = w] : w \in Mentors}

EditPupil(s) ==
    /\ loop = Free /\ Act
    /\ pupils[s] # NoPupil
    /\ \E new \in Edited(pupils[s]) : pupils' = [pupils EXCEPT ![s] = new]
    /\ UNCHANGED <<advisors, loop, pool, stops>>

\* A registered student is registered again only if asked to.
RegisterPupil(s, new, overwrite) ==
    /\ loop = Free /\ Act
    /\ pupils[s] = NoPupil \/ overwrite
    /\ loop' = [pc |-> "register", reg |-> s, row |-> new]
    /\ UNCHANGED <<advisors, pupils, pool, stops>>

\* Unlike an import, this forgets the mentor if none is given.
InsertPupil ==
    /\ loop.pc = "register"
    /\ pupils' = [pupils EXCEPT ![loop.reg] = loop.row]
    /\ loop' = Free
    /\ UNCHANGED <<advisors, pool, acts, stops>>

-----------------------------------------------------------------------------
(***************************************************************************)
(* In a pool thread: remove_class_advisor, execute_student_bulk_import,    *)
(* delete_university_student.                                              *)
(***************************************************************************)
RemoveAdvisor(a) ==
    /\ pool = Free /\ Act
    /\ pool' = [pc |-> "delete", id |-> a.id, batch |-> a.batch, section |-> a.section]
    /\ UNCHANGED <<advisors, pupils, loop, stops>>

DeleteAdvisor ==
    /\ pool.pc = "delete"
    /\ advisors' = {a \in advisors : a.id # pool.id}
    /\ pool' = [pool EXCEPT !.pc = "clear"]
    /\ UNCHANGED <<pupils, loop, acts, stops>>

\* Not only mentors who are that advisor are cleared.
ClearMentors ==
    /\ pool.pc = "clear"
    /\ pupils' = [s \in Pupils |->
                    IF s \in Present /\ Cohort(pupils[s]) = Cohort(pool)
                    THEN [pupils[s] EXCEPT !.mentor = NoMentor] ELSE pupils[s]]
    /\ pool' = Free
    /\ UNCHANGED <<advisors, loop, acts, stops>>

Import(sheet, overwrite) ==
    /\ pool = Free /\ Act
    /\ pool' = [pc |-> "import", rows |-> sheet, overwrite |-> overwrite, done |-> 0]
    /\ UNCHANGED <<advisors, pupils, loop, stops>>

\* A row without a mentor keeps the mentor there is.
ImportRow ==
    /\ pool.pc = "import"
    /\ LET reg == Head(pool.rows).reg
           new == Head(pool.rows).row
           old == pupils[reg]
           kept == IF new.mentor = NoMentor /\ old # NoPupil THEN old.mentor ELSE new.mentor
       IN  pupils' = IF old # NoPupil /\ ~pool.overwrite THEN pupils
                     ELSE [pupils EXCEPT ![reg] = [new EXCEPT !.mentor = kept]]
    /\ pool' = IF Len(pool.rows) = 1 THEN Free
               ELSE [pool EXCEPT !.rows = Tail(pool.rows), !.done = pool.done + 1]
    /\ UNCHANGED <<advisors, loop, acts, stops>>

DeletePupil(s) ==
    /\ pool = Free /\ Act
    /\ pupils[s] # NoPupil
    /\ pupils' = [pupils EXCEPT ![s] = NoPupil]
    /\ UNCHANGED <<advisors, loop, pool, stops>>

\* The process ends.
Stop ==
    /\ "stop" \in AdvFaults /\ stops < MaxStops /\ stops' = stops + 1
    /\ loop' = Free /\ pool' = Free
    /\ UNCHANGED <<advisors, pupils, acts>>

AdvNext ==
    \/ \E b \in Batches, m \in Semesters, c \in Sections, w \in Mentors : Assign(b, m, c, w)
    \/ Deactivate \/ DeactivateFails \/ UpsertAdvisor \/ UpsertRefused \/ SyncClass \/ SyncUnplaced
    \/ \E b \in Batches, c \in Sections \cup {AllSections}, m \in Semesters : Promote(b, c, m)
    \/ PromoteAdvisors
    \/ \E s \in Pupils : EditPupil(s)
    \/ \E s \in Pupils, new \in {r \in PupilRow : r.sem # 0}, overwrite \in BOOLEAN :
          RegisterPupil(s, new, overwrite)
    \/ InsertPupil
    \/ \E s \in Pupils : DeletePupil(s)
    \/ \E a \in advisors : RemoveAdvisor(a)
    \/ DeleteAdvisor \/ ClearMentors
    \/ \E sheet \in Sheets, overwrite \in BOOLEAN : Import(sheet, overwrite)
    \/ ImportRow
    \/ Stop

AdvSpec == AdvInit /\ [][AdvNext]_advVars

-----------------------------------------------------------------------------
(***************************************************************************)
(* Who looks after a student.                                              *)
(***************************************************************************)
\* get_students_list in the scope "advised".
ListsAsAdvised(w, s) ==
    \E a \in Active : a.staff = w /\ a.sem = pupils[s].sem /\ a.section = pupils[s].section

\* staff_get_pending_student_leave_od, of a request that names nobody yet.
SeesRequests(w, s) ==
    \/ pupils[s].mentor = w
    \/ \E a \in Active : a.staff = w /\ Cohort(a) = Cohort(pupils[s])

\* Slip: the semester decides, as in the list of students.
MayReviewBySemester(w, s) ==
    IF pupils[s].mentor = w THEN TRUE
    ELSE \E a \in Active : /\ a.staff = w /\ a.sem = pupils[s].sem
                           /\ a.section = pupils[s].section

\* staff_review_student_leave_od.
MayReview(w, s) ==
    IF pupils[s].mentor = w THEN TRUE
    ELSE \E a \in Active : /\ a.staff = w /\ a.batch = pupils[s].batch
                           /\ a.section = pupils[s].section

\* The advisor named by a leave request, and by a request about the face.
NamedForLeave(s) ==
    LET of(where) == {a \in Active : a.batch = pupils[s].batch /\ a.section \in where}
        own == of({pupils[s].section})
        any == IF own # {} THEN own ELSE of(Sections)
    IN  IF pupils[s].mentor # NoMentor THEN pupils[s].mentor
        ELSE IF any = {} THEN NoMentor
        ELSE (CHOOSE a \in any : \A b \in any : b.id <= a.id).staff

NamedForFace(s) ==
    LET own == {a \in Active : Class(a) = Class(pupils[s])} IN
    IF pupils[s].mentor # NoMentor THEN pupils[s].mentor
    ELSE IF own = {} THEN NoMentor ELSE (CHOOSE a \in own : TRUE).staff

\* A class has at most one active advisor and nobody advises two, whatever is
\* assigned, promoted and removed at once; who sees a request may review it, and
\* a request about the face names the one a leave request names, or nobody.
OneAdvisor ==
    /\ \A a, b \in Active : a # b => a.staff # b.staff /\ Cohort(a) # Cohort(b)
    /\ \A s \in Present : /\ NamedForFace(s) \in {NamedForLeave(s), NoMentor}
                          /\ \A w \in Mentors : SeesRequests(w, s) <=> MayReview(w, s)

\* Students and advisors of a batch are promoted together.
PromotedTogether ==
    [][loop.pc = "advisors" /\ stops' = stops /\ loop' = Free =>
         \A a \in advisors' : Promoted(a) => a.sem = loop.sem]_advVars

\* Removing an assignment leaves the students of another advisor alone.
MentorsKept ==
    [][\A s \in Present : pool.pc = "clear" /\ pupils[s].mentor # pupils'[s].mentor =>
         \A a \in Active : a.staff # pupils[s].mentor]_advVars

\* The list of advised students is that of the class.
NoBleed ==
    \A s \in Present, w \in Mentors :
        ListsAsAdvised(w, s) => \E a \in Active : a.staff = w /\ Class(a) = Class(pupils[s])

\* Requests are seen by the advisor of the class only.
SeenByAdvisorOnly ==
    \A s \in Present, w \in Mentors :
        SeesRequests(w, s) /\ (\E a \in Active : Cohort(a) = Cohort(pupils[s])) =>
            \E a \in Active : a.staff = w /\ Cohort(a) = Cohort(pupils[s])

\* An import is done as a whole or not at all.
ImportAtomic == [][pool.pc = "import" /\ stops' > stops => pool.done = 0]_advVars
=============================================================================
