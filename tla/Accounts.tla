------------------------------ MODULE Accounts ------------------------------
(* Accounts of staff (users) and of other staff (other_staff), the rows that
   other tables keep under a registration number and a department, and the
   administrator's operations on accounts and departments with the cascades
   they run: delete_user_data_by_reg_no, admin_delete_department and
   admin_update_department, each a list of tables and columns.  A registration
   number is <<prefix, number>>.  Every statement of a cascade may fail, which is
   swallowed, and the cascade goes on: a statement that names a missing table or
   column fails always, so that the lists below hold only the pairs that exist,
   and any other one fails at times. *)
EXTENDS Naturals, FiniteSets, FiniteSetsExt

CONSTANTS
  Tables,      \* the tables, of those the lists name, that hold data
  Depts,       \* names of departments
  Names,       \* user names
  Roles,       \* roles of accounts; "principal" exists in both tables
  MaxNum,      \* bound: numbers of registration
  MaxCreated,  \* bound: accounts ever created
  MaxFails,    \* bound: statements of one cascade that fail
  MaxActing,   \* bound: requests at a time whose account was looked up
  Features     \* what happens besides, see the guards

AccountsAssumption ==
  /\ MaxNum \in Nat /\ MaxCreated \in Nat /\ MaxFails \in Nat /\ MaxActing \in Nat
  /\ "other" \in Features => "principal" \in Roles

VARIABLES
  accounts,  \* rows of users and other_staff: [tab, reg, user, role, dept]
  data,      \* rows elsewhere: [tbl, reg, dept]
  depts,     \* the departments table
  faces,     \* registration numbers in _face_profile_cache
  listed,    \* _departments_cache: the last answer, or {} when there is none
  acting,    \* number and department of each request that has looked its account up
  left,      \* history: <<table, number>> of what a failure or a late write left
  created    \* bound

accVars == <<accounts, data, depts, faces, listed, acting, left, created>>

Tab == {"users", "other_staff"}
Prefix(role) == IF role = "principal" THEN "PRINCIPAL" ELSE "STAFF"
Reg == {"PRINCIPAL", "STAFF"} \X (1 .. MaxNum)
Account == [tab : Tab, reg : Reg, user : Names, role : Roles, dept : Depts]
Row == [tbl : Tables, reg : Reg, dept : Depts]

Of(tab) == {a \in accounts : a.tab = tab}
Regs == {a.reg : a \in accounts}

AccTypeOK ==
  /\ accounts \subseteq Account
  /\ data \subseteq Row /\ depts \subseteq Depts /\ listed \subseteq Depts
  /\ faces \subseteq Reg /\ acting \subseteq Reg \X Depts
  /\ left \subseteq (Tables \cup {"faces"}) \X Reg
  /\ \A a, b \in accounts : a.tab = b.tab /\ (a.user = b.user \/ a.reg = b.reg) => a = b

-----------------------------------------------------------------------------
(* The lists of the cascades. *)
TablesToPurge ==
  {"student_face_embeddings", "student_face_prototypes", "student_face_profiles",
   "student_face_requests", "face_profiles", "face_embedding_samples",
   "face_reregister_requests", "attendance", "daily_attendance_status",
   "morning_attendance", "evening_attendance", "kiosk_attendance_logs", "attendance_logs",
   "attendance_corrections", "other_staff_attendance", "casual_leave", "earned_leave",
   "ccl_earned_history", "expired_leaves", "leave_requests", "permission_requests",
   "student_leave_od_requests", "user_latest_locations", "user_location_logs",
   "student_feedback_grievances", "student_academic_day_status"}

DeptTablesToPurge ==
  {"class_timetable", "class_advisors", "subject_faculty_allocations", "department_subjects",
   "substitute_assignments", "class_venue_overrides", "class_attendance_sessions",
   "academic_period_configs", "attendance", "daily_attendance_status", "morning_attendance",
   "evening_attendance", "other_staff_attendance", "kiosk_attendance_logs",
   "attendance_logs", "attendance_corrections", "student_face_profiles",
   "student_face_requests", "student_feedback_grievances", "casual_leave", "earned_leave",
   "expired_leaves", "leave_requests", "staff_leave_requests",
   "staff_leave_timetable_assignments", "ccl_earned_history", "permission_requests",
   "student_leave_od_requests", "user_location_logs", "user_latest_locations",
   "campus_movement_alerts"}

TablesToUpdate ==
  {"class_timetable", "class_advisors", "subject_faculty_allocations", "department_subjects",
   "academic_period_configs", "casual_leave", "earned_leave", "attendance",
   "daily_attendance_status"}

\* The statements of a cascade that fail, <<pass, table>>.
Failing(passes) ==
  UNION {kSubset(n, passes \X (Tables \cup Tab)) : n \in 0 .. MaxFails}

-----------------------------------------------------------------------------
AccInit ==
  /\ accounts = {} /\ data = {} /\ depts = {} /\ faces = {} /\ listed = {}
  /\ acting = {} /\ left = {}
  /\ created = 0

(* The number of a new account: one more than the accounts of its role, then
   the next that the same table does not have. *)
NextReg(tab, role) ==
  LET count == Cardinality({a \in Of(tab) : a.role = role})
      free == {n \in (count + 1) .. MaxNum : <<Prefix(role), n>> \notin {a.reg : a \in Of(tab)}}
  IN IF free = {} THEN {} ELSE {<<Prefix(role), Min(free)>>}

LowestReg(role) ==
  LET free == {n \in 1 .. MaxNum : <<Prefix(role), n>> \notin {a.reg : a \in Of("users")}}
  IN IF free = {} THEN {} ELSE {<<Prefix(role), Min(free)>>}

Insert(tab, reg, user, role, dept) ==
  /\ accounts' = accounts \cup
       {[tab |-> tab, reg |-> reg, user |-> user, role |-> role, dept |-> dept]}
  /\ created' = created + 1

(* admin_create_user; a user name that is taken gets a suffix, which makes it
   another name, and the department is not looked up. *)
CreateUser ==
  /\ created < MaxCreated
  /\ \E role \in Roles, dept \in Depts, user \in Names \ {a.user : a \in Of("users")} :
       \E reg \in NextReg("users", role) : Insert("users", reg, user, role, dept)
  /\ UNCHANGED <<data, depts, faces, listed, acting, left>>

(* admin_create_other_staff *)
CreateOther ==
  /\ "other" \in Features /\ created < MaxCreated
  /\ \E dept \in Depts, user \in Names \ {a.user : a \in Of("other_staff")} :
       \E reg \in NextReg("other_staff", "principal") :
         Insert("other_staff", reg, user, "principal", dept)
  /\ UNCHANGED <<data, depts, faces, listed, acting, left>>

(* hod_create_staff: the count plus one, and if that is taken the lowest free
   number. *)
HodCreate ==
  /\ created < MaxCreated /\ "staff" \in Roles
  /\ \E hod \in Depts, user \in Names \ {a.user : a \in Of("users")} :
       LET count == Cardinality({a \in Of("users") : a.role = "staff"}) + 1
           want == <<"STAFF", count>>
       IN \E reg \in IF want \in {a.reg : a \in Of("users")} THEN LowestReg("staff")
                     ELSE {want} \cap Reg :
            Insert("users", reg, user, "staff", hod)
  /\ UNCHANGED <<data, depts, faces, listed, acting, left>>

(* A row of a file of accounts: a user name that the table has is skipped, and
   the number is the next free one of the role. *)
AddRow(acc, tab, r) ==
  LET mine == {a \in acc.accounts : a.tab = tab}
      count == Cardinality({a \in mine : a.role = r.role})
      free == {n \in (count + 1) .. MaxNum : <<Prefix(r.role), n>> \notin {a.reg : a \in mine}}
  IN IF free = {} \/ \E a \in mine : a.user = r.user THEN acc
     ELSE [acc EXCEPT !.accounts = @ \cup
             {[tab |-> tab, reg |-> <<Prefix(r.role), Min(free)>>, user |-> r.user,
               role |-> r.role, dept |-> r.dept]}]

AddDept(acc, d) == [acc EXCEPT !.depts = @ \cup {d}]

(* The three uploads: a department that is missing is created by the files,
   for users only once the user name has turned out to be new. *)
BulkRow(acc, r) == AddRow(acc, "users", r)
UserRow(acc, r) ==
  IF \E a \in acc.accounts : a.tab = "users" /\ a.user = r.user THEN acc
  ELSE AddRow(AddDept(acc, r.dept), "users", r)
OtherRow(acc, r) == AddRow(AddDept(acc, r.dept), "other_staff", r)

(* The server stops and starts: requests end, and the face cache is filled from the
   accounts. *)
Stop == acting' = {} /\ listed' = {} /\ faces' \in SUBSET Regs

(* The rows of a file one after the other, each durable by itself.  If the
   server stops after some rows, they stay and nothing is answered. *)
File(row(_, _), roles) ==
  /\ "upload" \in Features /\ created + 2 <= MaxCreated
  /\ \E u1, u2 \in Names, d \in Depts, role \in Roles \cap roles :
       \E n \in IF "crash" \in Features THEN 0 .. 2 ELSE {2} :
         LET line(u) == [user |-> u, role |-> role, dept |-> d]
             none == [accounts |-> accounts, depts |-> depts]
             res == CASE n = 0 -> none
                      [] n = 1 -> row(none, line(u1))
                      [] OTHER -> row(row(none, line(u1)), line(u2))
         IN /\ u1 # u2
            /\ accounts' = res.accounts /\ depts' = res.depts
            /\ created' = created + 2
            /\ IF n = 2 THEN UNCHANGED <<faces, listed, acting>> ELSE Stop
  /\ UNCHANGED <<data, left>>

BulkCreate == File(BulkRow, {"staff"})
Upload == File(UserRow, Roles)
OtherUpload == "other" \in Features /\ File(OtherRow, {"principal"})

-----------------------------------------------------------------------------
(* delete_user_data_by_reg_no: every listed table, the three tables of
   accounts among them, and the caches. *)
PurgedAttendance(rows, regs, fail) ==
  {d \in rows : ~(d.tbl \in {"attendance", "daily_attendance_status", "morning_attendance",
                             "evening_attendance", "kiosk_attendance_logs", "other_staff_attendance"}
                  /\ d.reg \in regs /\ <<"number", d.tbl>> \notin fail)}

Purged(rows, regs, fail) ==
  {d \in rows : ~(d.tbl \in TablesToPurge /\ d.reg \in regs /\ <<"number", d.tbl>> \notin fail)}

KeepAccounts(regs, fail) ==
  {a \in accounts : a.reg \notin regs \/ <<"number", a.tab>> \in fail}

\* What failed statements leave; what an earlier failure left is tried again.
LeftBy(regs, fail) ==
  {x \in left : x[2] \notin regs} \cup
  {<<d.tbl, d.reg>> : d \in {r \in data : r.reg \in regs /\ <<"number", r.tbl>> \in fail}}

(* The statement that deletes the account once more is one with that of the
   cascade: the account stays if both fail. *)
Delete(a) ==
  /\ \E fail \in Failing({"number"}) :
       /\ accounts' = KeepAccounts({a.reg}, fail)
       /\ data' = Purged(data, {a.reg}, fail)
       /\ left' = LeftBy({a.reg}, fail)
  /\ faces' = faces \ {a.reg}
  /\ UNCHANGED <<depts, listed, acting, created>>

DeleteUser == \E a \in Of("users") : Delete(a)

DeleteOther == \E a \in Of("other_staff") : Delete(a)

(* hod_delete_staff: staff of the head's own department only. *)
HodDelete == \E hod \in Depts, a \in Of("users") : a.role = "staff" /\ a.dept = hod /\ Delete(a)

(* admin_update_user: the department and the user name of one account. *)
UpdateUser ==
  /\ "update" \in Features
  /\ \E a \in Of("users"), dept \in Depts, user \in Names :
       /\ \A b \in Of("users") \ {a} : b.user # user
       /\ accounts' = (accounts \ {a}) \cup {[a EXCEPT !.dept = dept, !.user = user]}
  /\ UNCHANGED <<data, depts, faces, listed, created, acting, left>>

(* hod_update_staff: the user name of staff of the head's own department. *)
HodUpdate ==
  /\ "update" \in Features
  /\ \E hod \in Depts, a \in Of("users"), user \in Names :
       /\ a.role = "staff" /\ a.dept = hod
       /\ \A b \in Of("users") \ {a} : b.user # user
       /\ accounts' = (accounts \ {a}) \cup {[a EXCEPT !.user = user]}
  /\ UNCHANGED <<data, depts, faces, listed, created, acting, left>>

(* admin_update_other_staff may also give another registration number that the
   same table does not have; the rows under the old one stay. *)
UpdateOther ==
  /\ "renumber" \in Features
  /\ \E a \in Of("other_staff"), reg \in Reg, user \in Names, dept \in Depts :
       /\ \A b \in Of("other_staff") \ {a} : b.reg # reg /\ b.user # user
       /\ accounts' = (accounts \ {a}) \cup {[a EXCEPT !.reg = reg, !.user = user, !.dept = dept]}
  /\ UNCHANGED <<data, depts, faces, listed, created, acting, left>>

-----------------------------------------------------------------------------
(* A request looks its account up, and later writes a row under the number and the
   department it saw, as other components do, or puts the face it read into the
   cache: the account may be gone by then. *)
LookUp ==
  /\ Cardinality(acting) < MaxActing
  /\ \E a \in accounts : acting' = acting \cup {<<a.reg, a.dept>>}
  /\ UNCHANGED <<accounts, data, depts, faces, listed, left, created>>

Late(tbl, reg) == IF reg \in Regs THEN left ELSE left \cup {<<tbl, reg>>}

AddData ==
  /\ \E p \in acting, t \in Tables :
       /\ data' = data \cup {[tbl |-> t, reg |-> p[1], dept |-> p[2]]}
       /\ left' = Late(t, p[1])
       /\ acting' \in {acting, acting \ {p}}
  /\ UNCHANGED <<accounts, depts, faces, listed, created>>

CacheFace ==
  /\ "faces" \in Features
  /\ \E p \in acting :
       /\ faces' = faces \cup {p[1]}
       /\ left' = Late("faces", p[1])
       /\ acting' \in {acting, acting \ {p}}
  /\ UNCHANGED <<accounts, data, depts, listed, created>>

(* After a cascade with failing statements, a stop in the middle of it. *)
AccountsRestart == "crash" \in Features /\ Stop /\ UNCHANGED <<accounts, data, depts, left, created>>

-----------------------------------------------------------------------------
(* Departments. *)
CreateDept ==
  /\ \E d \in Depts \ depts : depts' = depts \cup {d}
  /\ listed' = {}
  /\ UNCHANGED <<accounts, data, faces, created, acting, left>>

(* admin_bulk_upload_departments; a file of users is handed on to Upload. *)
UploadDepts ==
  /\ "upload" \in Features
  /\ \E ds \in SUBSET Depts : depts' = depts \cup ds
  /\ listed' = {}
  /\ UNCHANGED <<accounts, data, faces, created, acting, left>>

(* admin_delete_department: the numbers of the department's accounts, of those
   tables that could be read; the cascade for each; then the rows and accounts of
   the department.  An account whose table could not be read goes without the
   cascade. *)
OfDept(d) == {a.reg : a \in {b \in accounts : b.dept = d}}
Collected(d, fail) ==
  {a.reg : a \in {b \in accounts : b.dept = d /\ <<"collect", b.tab>> \notin fail}}

DeleteDept ==
  /\ \E d \in Depts, fail \in Failing({"collect", "number", "department"}) :
       LET regs == Collected(d, fail)
           missed == OfDept(d) \ regs
       IN /\ accounts' = {a \in KeepAccounts(regs, fail) :
                             a.dept = d => <<"department", a.tab>> \in fail}
          /\ data' = {r \in Purged(data, regs, fail) :
                         r.tbl \in DeptTablesToPurge /\ r.dept = d => <<"department", r.tbl>> \in fail}
          /\ depts' = depts \ {d}
          /\ faces' = faces \ regs
          /\ left' = LeftBy(regs, fail)
                    \cup {<<r.tbl, r.reg>> : r \in {q \in data : q.reg \in missed}}
                    \cup {<<"faces", g>> : g \in faces \cap missed}
  /\ listed' = {}
  /\ UNCHANGED <<acting, created>>

(* admin_update_department: a department that is not in the table is added
   under the new name. *)
RenameDept ==
  /\ "rename" \in Features
  /\ \E old \in Depts, new \in Depts \ depts, fail \in Failing({"department"}) :
       LET Renames(tbl, dept) == dept = old /\ <<"department", tbl>> \notin fail
       IN /\ depts' = (depts \ {old}) \cup {new}
          /\ accounts' = {[a EXCEPT !.dept = IF Renames(a.tab, @) THEN new ELSE @] : a \in accounts}
          /\ data' = {[r EXCEPT !.dept =
                         IF r.tbl \in TablesToUpdate /\ Renames(r.tbl, @) THEN new ELSE @] : r \in data}
  /\ listed' = {}
  /\ UNCHANGED <<faces, acting, left, created>>

(* admin_get_departments: the departments table and the tables of classes. *)
AllDepts == depts \cup {r.dept : r \in {s \in data : s.tbl \in {"class_timetable", "class_advisors"}}}

ListDepts ==
  /\ "list" \in Features
  /\ listed' = IF listed # {} THEN listed ELSE AllDepts
  /\ UNCHANGED <<accounts, data, depts, faces, created, acting, left>>

-----------------------------------------------------------------------------
AccNext ==
  \/ CreateUser \/ CreateOther \/ HodCreate \/ BulkCreate \/ Upload \/ OtherUpload
  \/ DeleteUser \/ DeleteOther \/ HodDelete \/ UpdateUser \/ HodUpdate \/ UpdateOther
  \/ LookUp \/ AddData \/ CacheFace \/ AccountsRestart
  \/ CreateDept \/ UploadDepts \/ DeleteDept \/ RenameDept \/ ListDepts

AccSpec == AccInit /\ [][AccNext]_accVars

-----------------------------------------------------------------------------
(* The tables of records about one person.  A cascade leaves none of them without
   its account, unless a statement failed or somebody wrote later who had looked
   the account up before; and whatever was left is found by the next deletion of
   an account with that number. *)
OwnRecords ==
  {"student_face_profiles", "face_profiles", "face_embedding_samples", "attendance",
   "daily_attendance_status", "morning_attendance", "evening_attendance",
   "kiosk_attendance_logs", "other_staff_attendance", "casual_leave", "earned_leave",
   "ccl_earned_history", "expired_leaves", "leave_requests", "permission_requests",
   "user_latest_locations", "user_location_logs"}

LeftIn(tbl) == {reg \in Reg : <<tbl, reg>> \in left}

NoOrphans == \A r \in data : r.tbl \in OwnRecords => r.reg \in Regs \cup LeftIn(r.tbl)

(* A face is cached only of an account, with the same exceptions, so that no later
   holder of the number is recognised by the face of an earlier one. *)
CachedExists == faces \subseteq Regs \cup LeftIn("faces")

\* Deletions are complete.
DeletedIsGone == NoOrphans /\ CachedExists

(* Deleting an account deletes no other. *)
DeleteOnly ==
  DeleteUser \/ DeleteOther \/ HodDelete => Cardinality(accounts \ accounts') <= 1

(* The list of departments that is answered is the current one. *)
ListCurrent == listed # {} => listed = AllDepts

=============================================================================
