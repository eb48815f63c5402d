------------------------------- MODULE StaffFace -------------------------------
(***************************************************************************)
(* The face of one member of staff: users.embedding, the samples learned   *)
(* from successful scans, the cached profile the verification reads, the   *)
(* daily training that averages them, and the permission to register again *)
(* with its requests.  A face is the number of its registration; a profile *)
(* is the set of faces it was averaged from.                               *)
(***************************************************************************)
EXTENDS Naturals, Sequences, SequencesExt

CONSTANTS Job, Does,  \* requests and threads, and what each may be
          Enrolled,   \* whether a face was registered, twice, at the beginning
          MaxFaces, MaxReqs, \* bounds: faces, rows of face_reregister_requests
          MaxSamples, \* MAX_PROFILE_SAMPLES
          MayDrop,    \* whether cache entries expire or are cleared
          MayCrash, NoJob

StaffFaceAssumption ==
  /\ Does \in [Job -> SUBSET {"self", "other", "desk", "verify", "retrain"}]
  /\ MaxFaces \in Nat \ {0} /\ MaxReqs \in Nat /\ MaxSamples \in Nat \ {0}
  /\ {Enrolled, MayDrop, MayCrash} \subseteq BOOLEAN /\ NoJob \notin Job

VARIABLES emb,     \* users.embedding / other_staff.embedding
          samples, \* face_embedding_samples, newest first
          profileCache, \* entry of _face_profile_cache
          can,     \* can_reregister
          reqs,    \* face_reregister_requests
          jobs, inLoop, guard, \* jobs; who is in the event loop; who holds the user lock
          faces, last,  \* registrations so far; history: the one written last
          overrun, \* history: a training had read the profile that was then replaced
          grants, changes, admins \* history: permissions, faces replaced by oneself,
                                  \* requests an administrator approved
data == <<emb, samples, can, reqs>>
hist == <<faces, last, overrun, grants, changes, admins>>
vars == <<emb, samples, profileCache, can, reqs, jobs, inLoop, guard, faces, last, overrun, grants, changes, admins>>

Entry(p, s, loaded) == [primary |-> p, samples |-> s, loaded |-> loaded]
NoEntry == Entry({}, <<>>, FALSE)
Resting == [pc |-> "idle", op |-> "none", face |-> 0, paid |-> FALSE, p |-> {}, s |-> <<>>]
Newest(s) == SubSeq(s, 1, IF Len(s) < MaxSamples THEN Len(s) ELSE MaxSamples)

Registrations == IF Enrolled THEN 2 ELSE 0
Init ==
  /\ emb = (IF Enrolled THEN {2} ELSE {}) /\ samples = (IF Enrolled THEN Newest(<<2, 1>>) ELSE <<>>)
  /\ profileCache = Entry(emb, samples, Enrolled)
  /\ can = FALSE /\ reqs = <<>>
  /\ jobs = [j \in Job |-> Resting] /\ inLoop = NoJob /\ guard = NoJob
  /\ faces = Registrations /\ last = Registrations /\ overrun = FALSE
  /\ grants = 0 /\ changes = 0 /\ admins = {}

\* Counting permissions stops at the number of captures: more cannot be used.
OneMore == IF grants < MaxFaces THEN grants + 1 ELSE grants

StaffAt(j, pc) == jobs[j].pc = pc
Set(j, job) == jobs' = [jobs EXCEPT ![j] = job]
StaffGoto(j, pc) == Set(j, [jobs[j] EXCEPT !.pc = pc])
Starts(j, op) == StaffAt(j, "idle") /\ op \in Does[j]
Release(j) == inLoop' = (IF inLoop = j THEN NoJob ELSE inLoop) /\ guard' = (IF guard = j THEN NoJob ELSE guard)

-----------------------------------------------------------------------------
(* staff_register_face and other_staff_register_face: a registered face    *)
(* needs the permission, which is taken before the image is read.          *)
SelfCheck(j) ==
  /\ inLoop = NoJob
  /\ \E op \in {"self", "other"} :
       /\ Starts(j, op) /\ (emb # {} => can)
       /\ can' = (can /\ emb = {})
       /\ Set(j, [Resting EXCEPT !.pc = "image", !.op = op, !.paid = (emb # {})])
  /\ UNCHANGED <<emb, samples, profileCache, reqs, inLoop, guard, hist>>

\* admin_register_face, hod_register_face and their own faces: no permission.
DeskCheck(j) ==
  /\ inLoop = NoJob /\ Starts(j, "desk")
  /\ Set(j, [Resting EXCEPT !.pc = "image", !.op = "desk"])
  /\ UNCHANGED <<data, profileCache, inLoop, guard, hist>>

\* The limiter, an empty image or _process_and_validate_registration_face
\* refuse the request.
Refuse(j) ==
  /\ StaffAt(j, "image") /\ inLoop = NoJob
  /\ Set(j, Resting)
  /\ UNCHANGED <<data, profileCache, inLoop, guard, hist>>

\* The image is good.  Staff's own registration goes to a thread under the
\* user's lock, the others stay inside the event loop.
Accept(j) ==
  /\ StaffAt(j, "image") /\ inLoop = NoJob /\ faces < MaxFaces
  /\ \/ jobs[j].op = "self" /\ guard = NoJob /\ guard' = j /\ UNCHANGED inLoop
     \/ jobs[j].op # "self" /\ inLoop' = j /\ UNCHANGED guard
  /\ faces' = faces + 1
  /\ Set(j, [jobs[j] EXCEPT !.pc = "table", !.face = faces + 1])
  /\ UNCHANGED <<data, profileCache, last, overrun, grants, changes, admins>>

WriteTable(j) ==
  /\ StaffAt(j, "table") /\ StaffGoto(j, "primary")
  /\ emb' = {jobs[j].face} /\ last' = jobs[j].face
  /\ overrun' = \E i \in Job : jobs[i].pc \in {"r_samples", "r_update"}
  /\ changes' = IF emb # {} /\ jobs[j].op # "desk" THEN changes + 1 ELSE changes
  /\ UNCHANGED <<samples, profileCache, can, reqs, inLoop, guard, faces, grants, admins>>

\* _cache_update_primary: the entry changes in place or is made.
CachePrimary(j) ==
  /\ StaffAt(j, "primary") /\ StaffGoto(j, "sample")
  /\ profileCache' = [profileCache EXCEPT !.primary = {jobs[j].face}]
  /\ UNCHANGED <<data, inLoop, guard, hist>>

\* _save_face_embedding_sample: the row, and only the newest are kept.
SaveSample(j) ==
  /\ StaffAt(j, "sample") /\ StaffGoto(j, "added")
  /\ samples' = Newest(<<jobs[j].face>> \o samples)
  /\ UNCHANGED <<emb, profileCache, can, reqs, inLoop, guard, hist>>

\* _cache_add_sample, and the job ends.
CacheSample(j) ==
  /\ StaffAt(j, "added")
  /\ profileCache' = IF profileCache = NoEntry THEN profileCache
                     ELSE [profileCache EXCEPT !.samples = Newest(<<jobs[j].face>> \o @), !.loaded = TRUE]
  /\ Set(j, Resting) /\ Release(j)
  /\ UNCHANGED <<data, hist>>

-----------------------------------------------------------------------------
(* verify_face_identity inside _secure_mark, a thread under the user lock. *)
\* _cache_get_profile: a cached profile, or the row is read and stored.
VerifyGet(j) ==
  /\ Starts(j, "verify") /\ guard = NoJob /\ guard' = j
  /\ IF profileCache = NoEntry
     THEN Set(j, [Resting EXCEPT !.pc = "store", !.op = "verify", !.p = emb])
     ELSE Set(j, [Resting EXCEPT !.pc = "candidates", !.op = "verify"])
  /\ UNCHANGED <<data, profileCache, inLoop, hist>>

VerifyStore(j) ==
  /\ StaffAt(j, "store")
  /\ IF jobs[j].p = {}
     THEN Set(j, Resting) /\ Release(j) /\ UNCHANGED profileCache
     ELSE StaffGoto(j, "candidates") /\ profileCache' = Entry(jobs[j].p, <<>>, FALSE) /\ UNCHANGED <<inLoop, guard>>
  /\ UNCHANGED <<data, hist>>

\* _cache_get_candidates asks for the profile once more (it may have been
\* dropped), loads the samples if that was not done, and the scan matches one
\* of the candidates or none.
VerifyAgain(j) ==
  /\ StaffAt(j, "candidates") /\ profileCache = NoEntry
  /\ Set(j, [jobs[j] EXCEPT !.pc = "store", !.p = emb])
  /\ UNCHANGED <<data, profileCache, inLoop, guard, hist>>

VerifyCandidates(j) ==
  /\ StaffAt(j, "candidates") /\ profileCache # NoEntry
  /\ LET loaded == IF profileCache.loaded THEN profileCache
                   ELSE [profileCache EXCEPT !.samples = @ \o Newest(samples), !.loaded = TRUE]
     IN /\ profileCache' = loaded
        /\ \/ \E f \in loaded.primary \cup ToSet(loaded.samples) :
                /\ Set(j, [jobs[j] EXCEPT !.pc = "sample", !.face = f])
                /\ UNCHANGED <<inLoop, guard>>
           \/ Set(j, Resting) /\ Release(j)
  /\ UNCHANGED <<data, hist>>

-----------------------------------------------------------------------------
(* _retrain_face_profiles, a thread started once a day and at startup.     *)
RetrainPrimary(j) ==
  /\ Starts(j, "retrain")
  /\ Set(j, [Resting EXCEPT !.pc = "r_samples", !.op = "retrain", !.p = emb])
  /\ UNCHANGED <<data, profileCache, inLoop, guard, hist>>

RetrainSamples(j) ==
  /\ StaffAt(j, "r_samples") /\ Set(j, [jobs[j] EXCEPT !.pc = "r_update", !.s = Newest(samples)])
  /\ UNCHANGED <<data, profileCache, inLoop, guard, hist>>

RetrainUpdate(j) ==
  /\ StaffAt(j, "r_update") /\ StaffGoto(j, "r_clean")
  /\ LET mean == jobs[j].p \cup ToSet(jobs[j].s)
     IN emb' = IF mean = {} THEN emb ELSE mean
  /\ UNCHANGED <<samples, profileCache, can, reqs, inLoop, guard, hist>>

\* Samples older than 120 days go: the oldest ones, however many.
RetrainClean(j) ==
  /\ StaffAt(j, "r_clean") /\ StaffGoto(j, "w_clear")
  /\ \E n \in 0..Len(samples) : samples' = SubSeq(samples, 1, n)
  /\ UNCHANGED <<emb, profileCache, can, reqs, inLoop, guard, hist>>

\* _warm_face_embedding_cache: clear, read, store, then the samples.
WarmClear(j) ==
  /\ StaffAt(j, "w_clear") /\ Set(j, [jobs[j] EXCEPT !.pc = "w_store", !.p = emb])
  /\ profileCache' = NoEntry
  /\ UNCHANGED <<data, inLoop, guard, hist>>

WarmStore(j) ==
  /\ StaffAt(j, "w_store") /\ Set(j, [jobs[j] EXCEPT !.pc = "w_samples", !.s = Newest(samples)])
  /\ profileCache' = IF jobs[j].p = {} THEN profileCache ELSE Entry(jobs[j].p, <<>>, FALSE)
  /\ UNCHANGED <<data, inLoop, guard, hist>>

WarmSamples(j) ==
  /\ StaffAt(j, "w_samples") /\ Set(j, Resting)
  /\ profileCache' = IF profileCache = NoEntry \/ jobs[j].s = <<>> THEN profileCache
                     ELSE [profileCache EXCEPT !.samples = jobs[j].s, !.loaded = TRUE]
  /\ UNCHANGED <<data, inLoop, guard, hist>>

\* An expired entry, clear_cache or _cache_invalidate_user.
DropEntry ==
  /\ MayDrop /\ profileCache' = NoEntry
  /\ UNCHANGED <<data, jobs, inLoop, guard, hist>>

\* The process is killed; the next one warms the cache before it serves.
Crash ==
  /\ MayCrash
  /\ jobs' = [j \in Job |-> Resting] /\ inLoop' = NoJob /\ guard' = NoJob
  /\ profileCache' = IF emb = {} THEN NoEntry ELSE Entry(emb, Newest(samples), samples # <<>>)
  /\ UNCHANGED <<data, hist>>

-----------------------------------------------------------------------------
(* Permissions and requests: handlers on the event loop without an await.  *)
\* The permission endpoints of head and administrator.
Permission ==
  /\ inLoop = NoJob /\ \E new \in BOOLEAN : can' = new /\ grants' = IF new THEN OneMore ELSE grants
  /\ UNCHANGED <<emb, samples, profileCache, reqs, jobs, inLoop, guard, faces, last, overrun, changes, admins>>

PendingIds == {i \in DOMAIN reqs : reqs[i].status = "pending"}

\* staff_request_reregister; other staff's rows count as seen by a head.
Request ==
  /\ inLoop = NoJob /\ PendingIds = {} /\ emb # {} /\ Len(reqs) < MaxReqs
  /\ \E hod \in BOOLEAN : reqs' = Append(reqs, [status |-> "pending", hod |-> hod, admin |-> FALSE])
  /\ UNCHANGED <<emb, samples, profileCache, can, jobs, inLoop, guard, hist>>

AllReqs(f(_)) == [i \in DOMAIN reqs |-> f(reqs[i])]

\* hod_approve_reregister: every UPDATE is by staff_reg_no alone, and so is
\* the SELECT of admin_approved, which may return any row of the person.
HodApprove ==
  /\ inLoop = NoJob /\ PendingIds # {}
  /\ \E i \in DOMAIN reqs :
       \/ /\ reqs[i].admin
          /\ reqs' = AllReqs(LAMBDA r : [r EXCEPT !.hod = TRUE, !.status = "approved"])
          /\ can' = TRUE /\ grants' = OneMore
       \/ /\ ~reqs[i].admin
          /\ reqs' = AllReqs(LAMBDA r : [r EXCEPT !.hod = TRUE])
          /\ UNCHANGED <<can, grants>>
  /\ UNCHANGED <<emb, samples, profileCache, jobs, inLoop, guard, faces, last, overrun, changes, admins>>

\* admin_approve_reregister: direct, no head needed.
AdminApprove ==
  /\ inLoop = NoJob /\ PendingIds # {}
  /\ can' = TRUE /\ grants' = OneMore /\ admins' = admins \cup PendingIds
  /\ reqs' = AllReqs(LAMBDA r : [status |-> "approved", hod |-> TRUE, admin |-> TRUE])
  /\ UNCHANGED <<emb, samples, profileCache, jobs, inLoop, guard, faces, last, overrun, changes>>

\* hod_deny_reregister and admin_deny_reregister.
Deny ==
  /\ inLoop = NoJob /\ PendingIds # {}
  /\ reqs' = AllReqs(LAMBDA r : [r EXCEPT !.status = "denied"])
  /\ UNCHANGED <<emb, samples, profileCache, can, jobs, inLoop, guard, hist>>

Next ==
  \/ \E j \in Job :
       \/ SelfCheck(j) \/ DeskCheck(j) \/ Refuse(j) \/ Accept(j) \/ WriteTable(j)
       \/ CachePrimary(j) \/ SaveSample(j) \/ CacheSample(j)
       \/ VerifyGet(j) \/ VerifyStore(j) \/ VerifyAgain(j) \/ VerifyCandidates(j)
       \/ RetrainPrimary(j) \/ RetrainSamples(j) \/ RetrainUpdate(j) \/ RetrainClean(j)
       \/ WarmClear(j) \/ WarmStore(j) \/ WarmSamples(j)
  \/ DropEntry \/ Crash \/ Permission \/ Request \/ HodApprove \/ AdminApprove \/ Deny

Spec == Init /\ [][Next]_vars

-----------------------------------------------------------------------------
Quiet == \A j \in Job : jobs[j].pc \in {"idle", "image"}

TypeOK ==
  /\ emb \subseteq 1..MaxFaces /\ profileCache.primary \subseteq 1..MaxFaces
  /\ Len(samples) <= MaxSamples /\ can \in BOOLEAN
  /\ \A i \in DOMAIN reqs : reqs[i].status \in {"pending", "approved", "denied"}
  /\ inLoop \in Job \cup {NoJob} /\ guard \in Job \cup {NoJob}

\* A person replaces the registered face at most once per permission.
Locked == changes <= grants

\* An approved request was approved by an administrator: a head alone does
\* not unlock a face.
BothApproved == \A i \in DOMAIN reqs : reqs[i].status = "approved" => i \in admins

\* When nobody is writing, a cached profile is the one of the table.
CacheTable == Quiet => profileCache.primary \in {{}, emb}

\* The face registered last stays part of the profile, whatever the training
\* averages it with.
RegisterSticks == Quiet => (last # 0 => last \in emb)

\* It is lost to nothing but a training that had read the profile before it was
\* registered and wrote it back afterwards.
LostToTraining == RegisterSticks \/ overrun

\* A request that was decided keeps its decision.
DecisionsStand ==
  [][\A i \in DOMAIN reqs : reqs[i].status # "pending" => reqs'[i].status = reqs[i].status]_vars
=============================================================================
