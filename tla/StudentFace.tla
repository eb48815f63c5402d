------------------------------ MODULE StudentFace ------------------------------
(***************************************************************************)
(* The face of one student: it is kept in three tables and in the cache    *)
(* the matching reads, written by the student, by staff at a kiosk and by  *)
(* the university registration, and locked by students.can_reregister.     *)
(* A face is the number of the capture it came from.                       *)
(***************************************************************************)
EXTENDS Naturals, Sequences, SequencesExt

CONSTANTS Job,      \* requests in progress
          Does,     \* which operations each job may carry out
          MaxFaces, \* bound: captures
          MaxReqs,  \* bound: rows of student_face_requests
          MayCrash, \* whether the server process may be killed
          MayFail,  \* whether statements may fail
          NoHolder  \* nobody is inside the event loop

FaceAssumption ==
  /\ Does \in [Job -> SUBSET {"submit", "upload", "kiosk", "delete", "toggle"}]
  /\ MaxFaces \in Nat /\ MaxReqs \in Nat /\ MayCrash \in BOOLEAN
  /\ MayFail \in BOOLEAN /\ NoHolder \notin Job

VARIABLES exists,      \* the row of students
          can,         \* students.can_reregister
          faceProfile, \* student_face_profiles, 0 without a row
          embs,        \* student_face_embeddings
          proto,       \* student_face_prototypes
          faceCache,   \* _student_face_profile_cache
          reqs,        \* student_face_requests, in order of id
          jobs,        \* what each job does
          faceLoop,    \* the job inside the event loop, or NoHolder
          captures,    \* captures so far
          grants,      \* history: permissions given
          changes,     \* history: registered faces replaced by the student
          kept,        \* history: permissions a replacement did not take back: the
                       \* relock failed, or the process died before it
          unread,      \* history: the last load of the cache could not select
          torn         \* history: a failure or a crash stopped an upload, a deletion
                       \* or a submission halfway

faceTables == <<exists, can, faceProfile, embs, proto>>
faceVars == <<exists, can, faceProfile, embs, proto, faceCache, reqs, jobs,
              faceLoop, captures, grants, changes, kept, unread, torn>>
faceHistory == <<grants, changes, kept, unread, torn>>

Idle == [pc |-> "idle", face |-> 0, first |-> FALSE]
FaceInit ==
  /\ exists = TRUE /\ can = FALSE
  /\ faceProfile = 0 /\ embs = 0 /\ proto = 0 /\ faceCache = 0 /\ reqs = <<>>
  /\ jobs = [j \in Job |-> Idle] /\ faceLoop = NoHolder
  /\ captures = 0 /\ grants = 0 /\ changes = 0
  /\ kept = 0 /\ unread = FALSE /\ torn = FALSE

\* Counting permissions stops at the number of captures: more cannot be used.
OneMore == IF grants < MaxFaces THEN grants + 1 ELSE grants

FaceGoto(j, pc) == jobs' = [jobs EXCEPT ![j].pc = pc]
FaceAt(j, pc) == jobs[j].pc = pc
LoopFree == faceLoop = NoHolder
Starts(j, op) == FaceAt(j, "idle") /\ op \in Does[j]
Capture(j, pc, first) ==
  /\ captures < MaxFaces /\ captures' = captures + 1
  /\ jobs' = [jobs EXCEPT ![j] = [pc |-> pc, face |-> captures + 1, first |-> first]]

Registered == faceProfile # 0 \/ proto # 0 \/ embs # 0

LockStatus ==
  IF faceProfile = 0 /\ proto = 0 THEN "UNENROLLED_FIRST_TIME"
  ELSE IF can THEN "PERMISSION_GRANTED" ELSE "ACTIVE_LOCKED"

-----------------------------------------------------------------------------
\* Where a job is between the tables of a face.
Halfway == {"u_insert", "u_proto", "d_profile", "d_student"}

\* A statement fails and its job ends, reported or not; what was written stays.
FaceRaises(j) ==
  /\ MayFail
  /\ jobs[j].pc \in Halfway \cup {"s_profile", "u_delete", "u_profile", "k_profile",
                                 "d_embs", "d_proto", "t_write"}
  /\ torn' = (torn \/ jobs[j].pc \in Halfway)
  /\ jobs' = [jobs EXCEPT ![j] = Idle]
  /\ faceLoop' = IF faceLoop = j THEN NoHolder ELSE faceLoop
  /\ UNCHANGED <<faceTables, faceCache, reqs, captures, grants, changes, kept, unread>>

(* student_submit_face_registration: the checks, then the images arrive.   *)
\* Slip: a registered face may be replaced without a permission.
SubmitCheckAnyway(j) ==
  /\ LoopFree /\ Starts(j, "submit") /\ exists
  /\ Capture(j, "s_form", ~Registered)
  /\ UNCHANGED <<exists, can, faceProfile, embs, proto, faceCache, reqs, faceLoop, faceHistory>>

SubmitCheck(j) ==
  /\ LoopFree /\ Starts(j, "submit") /\ exists /\ (Registered => can)
  /\ Capture(j, "s_form", ~Registered)
  /\ UNCHANGED <<exists, can, faceProfile, embs, proto, faceCache, reqs, faceLoop, faceHistory>>

SubmitRequest(j) ==
  /\ LoopFree /\ FaceAt(j, "s_form")
  /\ \/ /\ Len(reqs) < MaxReqs
        /\ reqs' = Append(reqs, IF jobs[j].first
                                THEN [type |-> "FIRST_TIME_SELF_ENROLLMENT", status |-> "AUTO_APPROVED"]
                                ELSE [type |-> "REREGISTRATION_UPDATE", status |-> "COMPLETED"])
        /\ faceLoop' = j /\ FaceGoto(j, "s_profile")
     \/ FaceGoto(j, "idle") /\ UNCHANGED <<reqs, faceLoop>>
  /\ UNCHANGED <<faceTables, faceCache, captures, faceHistory>>

SubmitProfile(j) ==
  /\ FaceAt(j, "s_profile") /\ FaceGoto(j, "s_delete")
  /\ faceProfile' = jobs[j].face
  /\ changes' = IF Registered THEN changes + 1 ELSE changes
  /\ UNCHANGED <<exists, can, embs, proto, faceCache, reqs, faceLoop, captures, grants>>
  /\ UNCHANGED <<kept, unread, torn>>

\* A failure in the embeddings or the prototype is only printed, and the rest of
\* both is left out.
SubmitDelete(j) ==
  /\ FaceAt(j, "s_delete")
  /\ \/ embs' = 0 /\ FaceGoto(j, "s_insert")
     \/ MayFail /\ FaceGoto(j, "s_lock") /\ UNCHANGED embs
  /\ UNCHANGED <<exists, can, faceProfile, proto, faceCache, reqs, faceLoop, captures, faceHistory>>

\* The embeddings and the prototype refer to the student: without the row the
\* first INSERT fails.
SubmitInsert(j) ==
  /\ FaceAt(j, "s_insert")
  /\ \/ exists /\ embs' = jobs[j].face /\ FaceGoto(j, "s_proto")
     \/ (~exists \/ MayFail) /\ UNCHANGED embs /\ FaceGoto(j, "s_lock")
  /\ UNCHANGED <<exists, can, faceProfile, proto, faceCache, reqs, faceLoop, captures, faceHistory>>

SubmitProto(j) ==
  /\ FaceAt(j, "s_proto") /\ FaceGoto(j, "s_lock")
  /\ \/ exists /\ proto' = jobs[j].face
     \/ (~exists \/ MayFail) /\ UNCHANGED proto
  /\ UNCHANGED <<exists, can, faceProfile, embs, faceCache, reqs, faceLoop, captures, faceHistory>>

\* Slip: the cache is not reloaded.
SubmitRelockOnly(j) ==
  /\ FaceAt(j, "s_lock") /\ jobs' = [jobs EXCEPT ![j] = Idle] /\ faceLoop' = NoHolder
  /\ can' = FALSE
  /\ UNCHANGED <<exists, faceProfile, embs, proto, faceCache, reqs, captures, faceHistory>>

\* The permission is taken back; a failure is passed over, and the permission then
\* serves again.
SubmitRelock(j) ==
  /\ FaceAt(j, "s_lock") /\ FaceGoto(j, "clear")
  /\ \/ can' = FALSE /\ UNCHANGED kept
     \/ MayFail /\ UNCHANGED can /\ kept' = IF jobs[j].first THEN kept ELSE kept + 1
  /\ UNCHANGED <<exists, faceProfile, embs, proto, faceCache, reqs, faceLoop, captures>>
  /\ UNCHANGED <<grants, changes, unread, torn>>

-----------------------------------------------------------------------------
(* load_student_face_profiles, in the thread that calls it.                *)
LoadClear(j) ==
  /\ FaceAt(j, "clear") /\ FaceGoto(j, "select")
  /\ faceCache' = 0
  /\ UNCHANGED <<faceTables, reqs, faceLoop, captures, faceHistory>>

LoadSelect(j) ==
  /\ FaceAt(j, "select") /\ unread' = FALSE
  /\ jobs' = [jobs EXCEPT ![j].pc = "fill", ![j].face = faceProfile]
  /\ UNCHANGED <<faceTables, faceCache, reqs, faceLoop, captures, grants, changes, kept, torn>>

\* The failure is printed; the cache has been emptied and stays so.
LoadFails(j) ==
  /\ MayFail /\ FaceAt(j, "select") /\ unread' = TRUE
  /\ jobs' = [jobs EXCEPT ![j] = Idle] /\ faceLoop' = IF faceLoop = j THEN NoHolder ELSE faceLoop
  /\ UNCHANGED <<faceTables, faceCache, reqs, captures, grants, changes, kept, torn>>

LoadFill(j) ==
  /\ FaceAt(j, "fill")
  /\ faceCache' = IF jobs[j].face = 0 THEN faceCache ELSE jobs[j].face
  /\ jobs' = [jobs EXCEPT ![j] = Idle] /\ faceLoop' = IF faceLoop = j THEN NoHolder ELSE faceLoop
  /\ UNCHANGED <<faceTables, reqs, captures, faceHistory>>

-----------------------------------------------------------------------------
(* register_university_student, atomic on the event loop after its body.   *)
UploadStudent(j) ==
  /\ LoopFree /\ Starts(j, "upload")
  /\ exists' = TRUE
  /\ \/ Capture(j, "u_delete", FALSE) /\ faceLoop' = j
     \/ UNCHANGED <<captures, jobs, faceLoop>>
  /\ UNCHANGED <<can, faceProfile, embs, proto, faceCache, reqs, faceHistory>>

UploadDelete(j) ==
  /\ FaceAt(j, "u_delete") /\ FaceGoto(j, "u_insert")
  /\ embs' = 0
  /\ UNCHANGED <<exists, can, faceProfile, proto, faceCache, reqs, faceLoop, captures, faceHistory>>

UploadFails(j) == ~exists /\ jobs' = [jobs EXCEPT ![j] = Idle] /\ faceLoop' = NoHolder

UploadInsert(j) ==
  /\ FaceAt(j, "u_insert")
  /\ \/ exists /\ embs' = jobs[j].face /\ FaceGoto(j, "u_proto") /\ UNCHANGED faceLoop
     \/ UploadFails(j) /\ UNCHANGED embs
  /\ UNCHANGED <<exists, can, faceProfile, proto, faceCache, reqs, captures, faceHistory>>

UploadProto(j) ==
  /\ FaceAt(j, "u_proto")
  /\ \/ exists /\ proto' = jobs[j].face /\ FaceGoto(j, "u_profile") /\ UNCHANGED faceLoop
     \/ UploadFails(j) /\ UNCHANGED proto
  /\ UNCHANGED <<exists, can, faceProfile, embs, faceCache, reqs, captures, faceHistory>>

\* The profile and the cache entry, then a reload.
UploadProfile(j) ==
  /\ FaceAt(j, "u_profile") /\ FaceGoto(j, "clear")
  /\ faceProfile' = jobs[j].face /\ faceCache' = jobs[j].face
  /\ UNCHANGED <<exists, can, embs, proto, reqs, faceLoop, captures, faceHistory>>

-----------------------------------------------------------------------------
(* register_student_face at the kiosk, in a pool thread.  A profile that   *)
(* exists needs the overwrite flag of the request, which is an input.      *)
KioskCheck(j) ==
  /\ Starts(j, "kiosk")
  /\ Capture(j, "k_profile", FALSE)
  /\ UNCHANGED <<faceTables, faceCache, reqs, faceLoop, faceHistory>>

KioskProfile(j) ==
  /\ FaceAt(j, "k_profile") /\ FaceGoto(j, "clear")
  /\ faceProfile' = jobs[j].face
  /\ UNCHANGED <<exists, can, embs, proto, faceCache, reqs, faceLoop, captures, faceHistory>>

(* delete_university_student, statement by statement in a pool thread; the *)
(* cache entry is found only if the caller wrote the number as stored.     *)
DeleteCheck(j) ==
  /\ Starts(j, "delete") /\ exists
  /\ FaceGoto(j, "d_embs")
  /\ UNCHANGED <<faceTables, faceCache, reqs, faceLoop, captures, faceHistory>>

DeleteEmbs(j) ==
  /\ FaceAt(j, "d_embs") /\ FaceGoto(j, "d_proto") /\ embs' = 0
  /\ UNCHANGED <<exists, can, faceProfile, proto, faceCache, reqs, faceLoop, captures, faceHistory>>

DeleteProto(j) ==
  /\ FaceAt(j, "d_proto") /\ FaceGoto(j, "d_profile") /\ proto' = 0
  /\ UNCHANGED <<exists, can, faceProfile, embs, faceCache, reqs, faceLoop, captures, faceHistory>>

DeleteProfile(j) ==
  /\ FaceAt(j, "d_profile") /\ FaceGoto(j, "d_student") /\ faceProfile' = 0
  /\ UNCHANGED <<exists, can, embs, proto, faceCache, reqs, faceLoop, captures, faceHistory>>

\* The row; embeddings and prototype written meanwhile go with it (cascade).
DeleteFaceRow(j) ==
  /\ FaceAt(j, "d_student") /\ FaceGoto(j, "d_evict")
  /\ exists' = FALSE /\ can' = FALSE /\ embs' = 0 /\ proto' = 0
  /\ UNCHANGED <<faceProfile, faceCache, reqs, faceLoop, captures, faceHistory>>

DeleteEvict(j) ==
  /\ FaceAt(j, "d_evict") /\ FaceGoto(j, "idle")
  /\ \E asStored \in BOOLEAN : faceCache' = IF asStored THEN 0 ELSE faceCache
  /\ UNCHANGED <<faceTables, reqs, faceLoop, captures, faceHistory>>

-----------------------------------------------------------------------------
(* toggle_student_reregister_permission: read and write in a pool thread.  *)
ToggleRead(j) ==
  /\ Starts(j, "toggle") /\ exists
  /\ jobs' = [jobs EXCEPT ![j].pc = "t_write", ![j].first = ~can]
  /\ UNCHANGED <<faceTables, faceCache, reqs, faceLoop, captures, faceHistory>>

ToggleWrite(j) ==
  /\ FaceAt(j, "t_write")
  /\ can' = IF exists THEN jobs[j].first ELSE can
  /\ grants' = IF jobs[j].first THEN OneMore ELSE grants
  /\ jobs' = [jobs EXCEPT ![j] = Idle]
  /\ UNCHANGED <<exists, faceProfile, embs, proto, faceCache, reqs, faceLoop, captures>>
  /\ UNCHANGED <<changes, kept, unread, torn>>

(* The two kinds of request to the adviser; one pending of each is kept.   *)
Pending(t) == \E i \in DOMAIN reqs : reqs[i] = [type |-> t, status |-> "PENDING"]
Ask(t) ==
  /\ LoopFree /\ exists /\ ~Pending(t) /\ Len(reqs) < MaxReqs
  /\ reqs' = Append(reqs, [type |-> t, status |-> "PENDING"])
  /\ UNCHANGED <<faceTables, faceCache, jobs, faceLoop, captures, faceHistory>>
RequestReregistration == Ask("REREGISTRATION_PERMISSION")
RequestSession == Ask("IN_PERSON_SESSION")

\* get_staff_student_face_requests: with or without a filter on the status.
FaceRequests(filter) == {i \in DOMAIN reqs : filter \in {"ALL", reqs[i].status}}

\* The verdict is written whatever the kind or the status of the request.
FaceDecide(S, approve) ==
  /\ reqs' = [i \in DOMAIN reqs |->
                IF i \in S THEN [reqs[i] EXCEPT !.status = IF approve THEN "APPROVED" ELSE "REJECTED"]
                ELSE reqs[i]]
  /\ can' = (exists /\ (can \/ approve))
  /\ grants' = IF approve THEN OneMore ELSE grants
  /\ UNCHANGED <<exists, faceProfile, embs, proto, faceCache, jobs, faceLoop, captures>>
  /\ UNCHANGED <<changes, kept, unread, torn>>
ReviewFace == LoopFree /\ \E i \in FaceRequests("ALL"), approve \in BOOLEAN : FaceDecide({i}, approve)
BulkReview ==
  /\ LoopFree
  /\ \E S \in (SUBSET FaceRequests("PENDING")) \ {{}}, approve \in BOOLEAN : FaceDecide(S, approve)

\* A replacement that has not taken its permission back yet.
Unlocked(j) == jobs[j].pc \in {"s_delete", "s_insert", "s_proto", "s_lock"} /\ ~jobs[j].first

\* The process is killed; the next one loads the cache, or fails to.
Crash ==
  /\ MayCrash
  /\ jobs' = [j \in Job |-> Idle] /\ faceLoop' = NoHolder
  /\ unread' \in {FALSE, MayFail} /\ faceCache' = IF unread' THEN 0 ELSE faceProfile
  /\ kept' = IF \E j \in Job : Unlocked(j) THEN kept + 1 ELSE kept
  /\ torn' = (torn \/ \E j \in Job : jobs[j].pc \in Halfway \cup {"s_proto"})
  /\ UNCHANGED <<faceTables, reqs, captures, grants, changes>>

FaceNext ==
  \/ \E j \in Job :
       \/ SubmitCheck(j) \/ SubmitRequest(j) \/ SubmitProfile(j) \/ SubmitDelete(j)
       \/ SubmitInsert(j) \/ SubmitProto(j) \/ SubmitRelock(j)
       \/ LoadClear(j) \/ LoadSelect(j) \/ LoadFails(j) \/ LoadFill(j) \/ FaceRaises(j)
       \/ UploadStudent(j) \/ UploadDelete(j) \/ UploadInsert(j) \/ UploadProto(j) \/ UploadProfile(j)
       \/ KioskCheck(j) \/ KioskProfile(j)
       \/ DeleteCheck(j) \/ DeleteEmbs(j) \/ DeleteProto(j) \/ DeleteProfile(j)
       \/ DeleteFaceRow(j) \/ DeleteEvict(j)
       \/ ToggleRead(j) \/ ToggleWrite(j)
  \/ RequestReregistration \/ RequestSession \/ ReviewFace \/ BulkReview \/ Crash

FaceSpec == FaceInit /\ [][FaceNext]_faceVars

-----------------------------------------------------------------------------
FaceTypeOK ==
  /\ exists \in BOOLEAN /\ can \in BOOLEAN
  /\ {faceProfile, embs, proto, faceCache, captures} \subseteq 0..MaxFaces
  /\ \A i \in DOMAIN reqs :
       reqs[i].status \in {"AUTO_APPROVED", "COMPLETED", "PENDING", "APPROVED", "REJECTED"}
  /\ jobs \in [Job -> [pc : STRING, face : 0..MaxFaces, first : BOOLEAN]]
  /\ faceLoop \in Job \cup {NoHolder} /\ grants \in 0..MaxFaces /\ changes \in 0..MaxFaces
  /\ kept \in Nat /\ unread \in BOOLEAN /\ torn \in BOOLEAN

\* A student replaces a registered face at most once per permission given, which the
\* docstring of the submission calls strictly locked, and once more for each relock
\* that failed or that the process did not live to make.
FaceLocked == changes <= grants + kept

Quiet == \A j \in Job : FaceAt(j, "idle") \/ FaceAt(j, "s_form")

\* When nobody is writing, the lock status the student is shown says what a
\* submission would do, unless an upload or a deletion stopped halfway: the first
\* registration is free exactly when "UNENROLLED_FIRST_TIME" is shown, and a locked
\* face is refused.
StatusTells ==
  Quiet /\ ~torn => /\ (LockStatus = "UNENROLLED_FIRST_TIME") <=> ~Registered
                    /\ (LockStatus = "ACTIVE_LOCKED") <=> (Registered /\ ~can)

\* When nobody is writing or loading, the matching reads from the cache the face that
\* the profile holds: an older face is no longer accepted, a new one is, unless the
\* last load failed, which leaves no face at all.
CacheFollows == Quiet => faceCache = faceProfile \/ (faceCache = 0 /\ unread)

=============================================================================
