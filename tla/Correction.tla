----------------------------- MODULE Correction -----------------------------
(***************************************************************************)
(* Disputes about the attendance of a date (features_extension.py): a      *)
(* person asks for another status, a head of department or administrator   *)
(* approves or rejects, and an approval overwrites the status and times of *)
(* the row that the scans, markers and repairs of DailyAttendance write.   *)
(* The modelled date is at most a day ago, so the window for disputes,     *)
(* which has at least one day, is open.                                    *)
(***************************************************************************)
EXTENDS DailyAttendance, Sequences

CONSTANTS Wanted,    \* the statuses asked for
          MaxAsked   \* bound: the requests of a person about the date

CorrectionSettings == Wanted \subseteq DayStatus /\ MaxAsked \in Nat

VARIABLE asked   \* attendance_corrections: the requests of each person
corVars == <<dayVars, asked>>

Asked == [want : Wanted, st : {"Pending", "Approved", "Rejected"}]

\* The type invariant.
CorTypeOK == /\ DayTypeOK
             /\ asked \in [Users -> UNION {[1 .. n -> Asked] : n \in 0 .. MaxAsked}]

CorInit == DayInit /\ asked = [u \in Users |-> <<>>]

Open(u) == {i \in DOMAIN asked[u] : asked[u][i].st = "Pending"}

Submit(u, w) ==
  /\ loop = Idle
  /\ Open(u) = {}
  /\ Len(asked[u]) < MaxAsked
  /\ asked' = [asked EXCEPT ![u] = Append(@, [want |-> w, st |-> "Pending"])]
  /\ UNCHANGED dayVars

\* The upsert keeps the halves and the leave tag, or their defaults ...
Approve(u, i) ==
  /\ loop = Idle
  /\ row' = [row EXCEPT ![u] = [IF @ = NoRow THEN Fresh("Pending") ELSE @
                                  EXCEPT !.st = asked[u][i].want, !.in = TRUE, !.out = TRUE]]
  /\ loop' = [pc |-> "approve", u |-> u, i |-> i]
  /\ UNCHANGED <<phase, morning, evening, scans, job, marked, crashes, granted, fenced, asked>>

\* ... and then the request is marked.
MarkApproved ==
  /\ loop.pc = "approve"
  /\ asked' = [asked EXCEPT ![loop.u][loop.i].st = "Approved"]
  /\ loop' = Idle
  /\ UNCHANGED <<phase, tables, job, marked, crashes, granted, fenced>>

\* Neither decision looks at the present status of the request.
Reject(u, i) ==
  /\ loop = Idle
  /\ asked' = [asked EXCEPT ![u][i].st = "Rejected"]
  /\ UNCHANGED dayVars

CorNext == \/ DayNext /\ UNCHANGED asked
           \/ MarkApproved
           \/ \E u \in Users : \/ \E w \in Wanted : Submit(u, w)
                               \/ \E i \in DOMAIN asked[u] : Approve(u, i) \/ Reject(u, i)

CorSpec == CorInit /\ [][CorNext]_corVars

-----------------------------------------------------------------------------
(* Properties. *)

\* However a request is decided, and decided again, a person has one open
\* request about a date (features_extension.py:587).
OneOpen == \A u \in Users : Cardinality(Open(u)) <= 1

\* "Attendance correction approved and applied": while nothing else has been
\* recorded for the date, the day has the status that was approved last.
CorrectionApplies ==
  \A u \in Users : \A i \in DOMAIN asked[u] :
    /\ DayQuiet(u) /\ (\A c \in Scanned : scans[u][c] = 0)
    /\ asked[u][i].st = "Approved"
    /\ \A j \in DOMAIN asked[u] : j # i => asked[u][j].st = "Pending"
    => row[u].st = asked[u][i].want

\* A person told that his dispute was declined is not found to have had it
\* approved, and the other way round (features_extension.py:903).
DecisionsFinal ==
  \A u \in Users : \A i \in DOMAIN asked[u] :
    asked[u][i].st # "Pending" => asked'[u][i] = asked[u][i]
=============================================================================
