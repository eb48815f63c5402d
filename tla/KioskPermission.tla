---------------------------- MODULE KioskPermission ----------------------------
(***************************************************************************)
(* Who may mark which student at a kiosk: the member of staff who          *)
(* registered the face, an administrator or head of department, and staff  *)
(* to whom access was delegated for one student or for all of a person's.  *)
(* A grant is a handler in a pool thread that checks and then inserts; a   *)
(* deletion removes the profile and then the permissions, and passes over  *)
(* a DELETE that fails.                                                    *)
(***************************************************************************)
EXTENDS Integers, FiniteSets

CONSTANTS Staff, Learners,
          Role,        \* users.role of each member of staff
          StaffDept,   \* users.dept
          StudentDept, \* student_face_profiles.dept
          Grants,      \* bound: permissions ever granted
          Switched,    \* bound: staff whose kiosk mode or suspension changes
          NoOwner, All

PermissionAssumption ==
  /\ Role \in [Staff -> {"staff", "hod", "admin"}] /\ Grants \in Nat /\ Switched \subseteq Staff
  /\ DOMAIN StaffDept = Staff /\ DOMAIN StudentDept = Learners
  /\ NoOwner \notin Staff /\ All \notin Learners

VARIABLES owner,     \* student_face_profiles.registered_by, NoOwner without a profile
          suspended, \* users.suspended
          kiosk,     \* users.kiosk_enabled
          global,    \* _app_settings["multi_user_kiosk_mode"]
          perms,     \* staff_student_permissions
          granted,   \* number of permissions asked for, their next id
          asking,    \* grants past their checks, not inserted yet
          deleting,  \* students whose profile was deleted, their permissions not yet
          left       \* history: students whose deletion left a permission, or a grant
                     \* under way, behind

accounts == <<owner, suspended, kiosk, global>>
permVars == <<accounts, perms, granted, asking, deleting, left>>

PermInit ==
  /\ owner = [s \in Learners |-> NoOwner]
  /\ suspended = {} /\ kiosk = Staff /\ global = TRUE
  /\ perms = {} /\ granted = 0 /\ asking = {} /\ deleting = {} /\ left = {}

\* A permission the queries accept: active and not past its last day.
InForce(p) == p.status = "ACTIVE" /\ p.until # "past"
Owned(a) == {s \in Learners : owner[s] = a}

\* get_authorized_student_reg_nos_for_staff: no restriction for heads and
\* administrators, else the own students and the delegated ones.
Authorized(a) ==
  IF Role[a] \in {"admin", "hod"} THEN Learners
  ELSE Owned(a) \cup UNION {IF p.student = All THEN Owned(p.grantor) ELSE {p.student} :
                              p \in {q \in perms : q.grantee = a /\ InForce(q)}}

\* get_staff_list_for_delegation: everybody else who is not suspended.
Delegates(a) == (Staff \ suspended) \ {a}

\* get_my_registered_students: own, of the department, and all when there are none.
Offered(a) ==
  LET near == Owned(a) \cup {s \in Learners : StudentDept[s] = StaffDept[a]}
  IN  IF near = {} THEN {s \in Learners : owner[s] # NoOwner} ELSE near

\* register_student_face: the one who registers a face last is its owner.
RegisterFace(a, s) ==
  /\ owner[s] # a /\ owner' = [owner EXCEPT ![s] = a]
  /\ UNCHANGED <<suspended, kiosk, global, perms, granted, asking, deleting, left>>

\* grant_student_permission: kiosk mode on, not to oneself, and only students one
\* registered, unless head or administrator.  These are the checks ...
Grant(a, b, s, until) ==
  /\ global /\ a \in kiosk /\ b # a /\ granted < Grants
  /\ s # All => /\ owner[s] # NoOwner
                /\ owner[s] = a \/ Role[a] \in {"admin", "hod"}
  /\ granted' = granted + 1
  /\ asking' = asking \cup {[id |-> granted, grantor |-> a, grantee |-> b, student |-> s,
                             until |-> until, status |-> "ACTIVE"]}
  /\ UNCHANGED <<accounts, perms, deleting, left>>

\* ... and this the INSERT, which may fail.
InsertGrant(p) ==
  /\ asking' = asking \ {p}
  /\ perms' \in {perms, perms \cup {p}}
  /\ UNCHANGED <<accounts, granted, deleting, left>>

\* revoke_student_permission: the grantor, a head or an administrator.
Revoke(a, p) ==
  /\ p.grantor = a \/ Role[a] \in {"admin", "hod"}
  /\ perms' = {IF q = p THEN [q EXCEPT !.status = "REVOKED"] ELSE q : q \in perms}
  /\ UNCHANGED <<accounts, granted, asking, deleting, left>>

\* The last day of a permission passes; its status stays as it is.
Expire(p) ==
  /\ p.until = "later"
  /\ perms' = (perms \ {p}) \cup {[p EXCEPT !.until = "past"]}
  /\ UNCHANGED <<accounts, granted, asking, deleting, left>>

\* Slip: the purge ends with the profile.
DropProfileOnly(s) ==
  /\ owner[s] # NoOwner /\ s \notin deleting
  /\ owner' = [owner EXCEPT ![s] = NoOwner]
  /\ UNCHANGED <<suspended, kiosk, global, perms, granted, asking, deleting, left>>

\* delete_user_data_by_reg_no for a student: the profile ...
DropProfile(s) ==
  /\ owner[s] # NoOwner /\ s \notin deleting
  /\ owner' \in {owner, [owner EXCEPT ![s] = NoOwner]}
  /\ deleting' = deleting \cup {s}
  /\ UNCHANGED <<suspended, kiosk, global, perms, granted, asking, left>>

\* ... and, many statements later, the permissions.
DeletePermissions(s) ==
  /\ s \in deleting /\ deleting' = deleting \ {s}
  /\ \/ /\ perms' = {p \in perms : p.student # s}
        /\ left' = IF \E p \in asking : p.student = s THEN left \cup {s} ELSE left \ {s}
     \/ left' = left \cup {s} /\ UNCHANGED perms
  /\ UNCHANGED <<accounts, granted, asking>>

\* toggle_kiosk_mode, the global setting, and suspension.
Toggle(a) ==
  /\ kiosk' = (IF a \in kiosk THEN kiosk \ {a} ELSE kiosk \cup {a})
  /\ UNCHANGED <<owner, suspended, global, perms, granted, asking, deleting, left>>

SwitchGlobal ==
  /\ global' = ~global
  /\ UNCHANGED <<owner, suspended, kiosk, perms, granted, asking, deleting, left>>

Suspend(a) ==
  /\ suspended' = (IF a \in suspended THEN suspended \ {a} ELSE suspended \cup {a})
  /\ UNCHANGED <<owner, kiosk, global, perms, granted, asking, deleting, left>>

PermNext ==
  \/ \E a \in Staff :
       \/ a \in Switched /\ (Toggle(a) \/ Suspend(a))
       \/ \E s \in Learners : RegisterFace(a, s)
       \/ \E b \in Delegates(a), s \in Offered(a) \cup {All}, until \in {"never", "later"} :
            Grant(a, b, s, until)
       \/ \E p \in perms : Revoke(a, p)
  \/ \E p \in perms : Expire(p)
  \/ \E p \in asking : InsertGrant(p)
  \/ \E s \in Learners : DropProfile(s) \/ DeletePermissions(s)
  \/ SwitchGlobal
PermSpec == PermInit /\ [][PermNext]_permVars

-----------------------------------------------------------------------------
Permission == [id : 0..Grants, grantor : Staff, grantee : Staff,
               student : Learners \cup {All}, until : {"never", "later", "past"},
               status : {"ACTIVE", "REVOKED"}]
\* Every variable has its type.
PermTypeOK ==
  /\ owner \in [Learners -> Staff \cup {NoOwner}]
  /\ suspended \subseteq Staff /\ kiosk \subseteq Staff /\ global \in BOOLEAN
  /\ perms \subseteq Permission /\ asking \subseteq Permission /\ granted \in 0..Grants
  /\ deleting \subseteq Learners /\ left \subseteq Learners

\* No permission outlives its student: when a student is registered again after a
\* deletion, nobody holds access from before, unless the DELETE of the permissions
\* failed or a grant was between its checks and its INSERT when it ran.
NoOldGrants ==
  \A p \in perms : p.student \notin deleting \cup left \cup {All} => owner[p.student] # NoOwner

\* Losing access takes a reason: somebody who could mark a student no longer can
\* only after a revocation, an expiry, a deletion or a change of owner.
LossHasReason ==
  \A a \in Staff, s \in Learners : s \in Authorized(a) /\ s \notin Authorized(a)' =>
    \/ owner'[s] # owner[s]
    \/ s \in deleting /\ s \notin deleting'
    \/ \E p \in perms : p.grantee = a /\ InForce(p) /\ p.student \in {s, All} /\
         \E q \in perms' : q.id = p.id /\ ~InForce(q)
                           /\ (q.status = "REVOKED" \/ p.until = "later")
=============================================================================
