---------------------------- MODULE LeaveBalance ----------------------------
(***************************************************************************)
(* The balances of casual leave (casual_leave) and earned leave            *)
(* (earned_leave, with ccl_earned_history) of src/backend/main.py, and the *)
(* leave requests that are charged to them.                                *)
(*                                                                         *)
(* Endpoints run on the event loop: handler is the one executing, cut      *)
(* where a crash or a pool thread can come between two of its statements.  *)
(* A scan in the early or late window credits a point from a pool thread,  *)
(* scan[u].                                                                *)
(* Amounts count half days.  The schema allows one casual_leave row per    *)
(* person (reg_no UNIQUE), whatever its month.                             *)
(***************************************************************************)
EXTENDS Integers, FiniteSets

CONSTANTS
    Owners,
    Requests,
    Owner,          \* the person of a request
    NoAccount,
    Kinds,          \* the balances in use: "cl", "el"
    Days,           \* working days of a request, in half days
    Targets,        \* balances an admin enters
    MonthOf,        \* month of each date
    MaxDate,        \* bound: dates
    MaxPoints,      \* bound: points of a history by scans; twice that by the
                    \* admin, in expired_leaves and in zeroed
    MaxRestarts     \* bound: restarts of the process

Dates == 1 .. MaxDate
Point == 2          \* one credited point is a whole day
NoJob  == [pc |-> "idle"]

BalanceSettings ==
    /\ Owner \in [Requests -> Owners]
    /\ Kinds \subseteq {"cl", "el"}
    /\ Days \subseteq Nat \ {0}
    /\ Targets \subseteq Nat
    /\ MonthOf \in [Dates -> Nat]
    /\ MaxDate \in Nat \ {0} /\ MaxPoints \in Nat /\ MaxRestarts \in Nat

VARIABLES
    date,
    cl,         \* casual_leave: the row of a person, or NoAccount
    el,         \* earned_leave.balance, or NoAccount
    hist,       \* sum of ccl_earned_history
    histDates,  \* dates with an entry in ccl_earned_history
    credits,    \* history: credits of scans, per date
    req,        \* leave_requests
    expiry,     \* the balances whose expiry date has been reached
    expired,    \* expired_leaves: amount recorded per account
    zeroed,     \* history: amount taken by expiries and deletions
    charged,    \* history: how often a request was charged
    spent,      \* history: earned leave taken by approvals
    scan,       \* crediting scan of a person
    handler,
    restarts

balances == <<cl, el, hist, histDates, credits, spent>>
balanceVars == <<date, balances, req, expiry, expired, zeroed, charged, scan, handler, restarts>>

Month == MonthOf[date]
Min2(a, b) == IF a < b THEN a ELSE b
Over(a, b) == IF a > b THEN a - b ELSE 0

ClRow == [month : Nat, avail : Nat, acc : Nat, used : Nat]
RequestLeave == [st : {"none", "pending", "approved", "rejected"},
                 type : Kinds, days : Days]

BalanceTypeOK ==
    /\ date \in Dates
    /\ \A u \in Owners : cl[u] = NoAccount \/ cl[u] \in ClRow
    /\ \A u \in Owners : el[u] = NoAccount \/ el[u] \in Int
    /\ hist \in [Owners -> Int]
    /\ histDates \in [Owners -> SUBSET Dates]
    /\ req \in [Requests -> RequestLeave]
    /\ expiry \subseteq Kinds
    /\ expired \in [Owners -> [Kinds -> Nat]]
    /\ \A u \in Owners : scan[u].pc \in {"idle", "log", "read", "write"}
    /\ handler.pc \in {"idle", "charge", "deduct", "finish", "adjust", "history",
                       "sync", "record", "clear"}
    /\ restarts \in 0 .. MaxRestarts

BalanceInit ==
    /\ date = 1
    /\ cl = [u \in Owners |-> NoAccount]
    /\ el = [u \in Owners |-> NoAccount]
    /\ hist = [u \in Owners |-> 0]
    /\ histDates = [u \in Owners |-> {}]
    /\ credits = [u \in Owners |-> [d \in Dates |-> 0]]
    /\ \E d \in Days, k \in Kinds :
          req = [r \in Requests |-> [st |-> "none", type |-> k, days |-> d]]
    /\ expiry = {}
    /\ expired = [u \in Owners |-> [k \in Kinds |-> 0]]
    /\ zeroed = [u \in Owners |-> [k \in Kinds |-> 0]]
    /\ charged = [r \in Requests |-> 0]
    /\ spent = [u \in Owners |-> 0]
    /\ scan = [u \in Owners |-> NoJob]
    /\ handler = NoJob
    /\ restarts = 0

-----------------------------------------------------------------------------
(***************************************************************************)
(* Casual leave.                                                           *)
(***************************************************************************)
\* initialize_cl_for_user: the INSERT fails when a row of another month is
\* there, and the endpoint with it.  The carry-over from the previous month
\* would need two rows of a person and is always zero.
Initialised(u) == IF cl[u] = NoAccount THEN [month |-> Month, avail |-> 2, acc |-> 0, used |-> 0]
                  ELSE cl[u]
ClUsable(u) == Initialised(u).month = Month
Total(u) == Initialised(u).avail + Initialised(u).acc

\* get_all_cl, get_cl_status.
InitCl(u) ==
    /\ handler = NoJob /\ cl[u] = NoAccount
    /\ cl' = [cl EXCEPT ![u] = Initialised(u)]
    /\ UNCHANGED <<date, el, hist, histDates, credits, spent, req, expiry, expired,
                   zeroed, charged, scan, handler, restarts>>

\* use_cl: one day, of the current month first.
UseCl(u) ==
    /\ handler = NoJob /\ ClUsable(u) /\ Total(u) > 0
    /\ LET r == Initialised(u)
       IN  /\ r.used < 2 * MaxPoints
           /\ IF r.avail > 0
              THEN cl' = [cl EXCEPT ![u] = [r EXCEPT !.avail = Over(@, 2), !.used = @ + 2]]
              ELSE cl' = [cl EXCEPT ![u] = [r EXCEPT !.acc = Over(@, 2), !.used = @ + 2]]
    /\ UNCHANGED <<date, el, hist, histDates, credits, spent, req, expiry, expired,
                   zeroed, charged, scan, handler, restarts>>

\* adjust_cl: the admin sets the fields he sends.
AdjustCl(u, avail, acc) ==
    /\ handler = NoJob /\ ClUsable(u)
    /\ cl' = [cl EXCEPT ![u] = [Initialised(u) EXCEPT !.avail = avail, !.acc = acc]]
    /\ UNCHANGED <<date, el, hist, histDates, credits, spent, req, expiry, expired,
                   zeroed, charged, scan, handler, restarts>>

-----------------------------------------------------------------------------
(***************************************************************************)
(* Earned leave.                                                           *)
(***************************************************************************)
\* get_ccl_balances, get_ccl_status, submit_leave_request: a missing row is
\* inserted with 0.
EnsureEl(u) ==
    /\ handler = NoJob /\ el[u] = NoAccount
    /\ el' = [el EXCEPT ![u] = 0]
    /\ UNCHANGED <<date, cl, hist, histDates, credits, spent, req, expiry, expired,
                   zeroed, charged, scan, handler, restarts>>

\* delete_ccl_balance keeps the history.
DeleteEl(u) ==
    /\ handler = NoJob /\ el[u] # NoAccount
    /\ el' = [el EXCEPT ![u] = NoAccount]
    /\ zeroed[u]["el"] + Over(el[u], 0) <= 2 * MaxPoints
    /\ zeroed' = [zeroed EXCEPT ![u]["el"] = @ + Over(el[u], 0)]
    /\ UNCHANGED <<date, cl, hist, histDates, credits, spent, req, expiry, expired,
                   charged, scan, handler, restarts>>

\* _secure_verify_and_mark in a CCL window: at most one point a day.
CreditCheck(u) ==
    /\ scan[u] = NoJob /\ hist[u] < MaxPoints
    /\ date \notin histDates[u]
    /\ scan' = [scan EXCEPT ![u] = [pc |-> "log"]]
    /\ UNCHANGED <<date, balances, req, expiry, expired, zeroed, charged, handler, restarts>>

CreditLog(u) ==
    /\ scan[u].pc = "log"
    /\ hist' = [hist EXCEPT ![u] = @ + Point]
    /\ histDates' = [histDates EXCEPT ![u] = @ \cup {date}]
    /\ credits' = [credits EXCEPT ![u][date] = @ + 1]
    /\ scan' = [scan EXCEPT ![u] = [pc |-> "read"]]
    /\ UNCHANGED <<date, cl, el, spent, req, expiry, expired, zeroed, charged, handler, restarts>>

\* Without a row the INSERT has a value too many and raises.
CreditRead(u) ==
    /\ scan[u].pc = "read"
    /\ scan' = [scan EXCEPT ![u] = IF el[u] = NoAccount THEN NoJob
                                   ELSE [pc |-> "write", bal |-> el[u]]]
    /\ UNCHANGED <<date, balances, req, expiry, expired, zeroed, charged, handler, restarts>>

CreditWrite(u) ==
    /\ scan[u].pc = "write"
    /\ el' = [el EXCEPT ![u] = IF @ = NoAccount THEN @ ELSE scan[u].bal + Point]
    /\ scan' = [scan EXCEPT ![u] = NoJob]
    /\ UNCHANGED <<date, cl, hist, histDates, credits, spent, req, expiry, expired,
                   zeroed, charged, handler, restarts>>

\* adjust_ccl_balance: the balance is read, written, and the difference logged.
AdjustRead(u, target) ==
    /\ handler = NoJob
    /\ LET old == IF el[u] = NoAccount THEN 0 ELSE el[u]
       IN  /\ hist[u] + target - old \in -MaxPoints .. 2 * MaxPoints
           /\ el' = [el EXCEPT ![u] = old]
           /\ handler' = [pc |-> "adjust", u |-> u, old |-> old, new |-> target]
    /\ UNCHANGED <<date, cl, hist, histDates, credits, spent, req, expiry, expired,
                   zeroed, charged, scan, restarts>>

AdjustWrite ==
    /\ handler.pc = "adjust"
    /\ el' = [el EXCEPT ![handler.u] = handler.new]
    /\ handler' = IF handler.new = handler.old THEN NoJob ELSE [handler EXCEPT !.pc = "history"]
    /\ UNCHANGED <<date, cl, hist, histDates, credits, spent, req, expiry, expired,
                   zeroed, charged, scan, restarts>>

AdjustHistory ==
    /\ handler.pc = "history"
    /\ hist' = [hist EXCEPT ![handler.u] = @ + handler.new - handler.old]
    /\ histDates' = [histDates EXCEPT ![handler.u] = @ \cup {date}]
    /\ handler' = NoJob
    /\ UNCHANGED <<date, cl, el, credits, spent, req, expiry, expired, zeroed, charged,
                   scan, restarts>>

\* sync_ccl_balances: the sums and the balances are read ...
SyncRead ==
    /\ handler = NoJob
    /\ LET bal == [u \in Owners |-> IF el[u] = NoAccount THEN 0 ELSE el[u]]
       IN  /\ el' = bal
           /\ handler' = [pc |-> "sync", sums |-> hist,
                          todo |-> {u \in Owners : bal[u] # hist[u]}]
    /\ UNCHANGED <<date, cl, hist, histDates, credits, spent, req, expiry, expired,
                   zeroed, charged, scan, restarts>>

\* ... and each diverging balance becomes its sum.
SyncWrite ==
    /\ handler.pc = "sync"
    /\ IF handler.todo = {} THEN handler' = NoJob /\ UNCHANGED el
       ELSE \E u \in handler.todo :
              /\ el' = [el EXCEPT ![u] = IF @ = NoAccount THEN @ ELSE handler.sums[u]]
              /\ handler' = [handler EXCEPT !.todo = @ \ {u}]
    /\ UNCHANGED <<date, cl, hist, histDates, credits, spent, req, expiry, expired,
                   zeroed, charged, scan, restarts>>

-----------------------------------------------------------------------------
(***************************************************************************)
(* Requests.                                                               *)
(***************************************************************************)
\* submit_leave_request: the balance must cover the days.
Submit(r, type, days) ==
    LET u == Owner[r] IN
    /\ handler = NoJob /\ req[r].st = "none"
    /\ IF type = "cl"
       THEN /\ ClUsable(u) /\ days <= Total(u)
            /\ cl' = [cl EXCEPT ![u] = Initialised(u)]
            /\ UNCHANGED el
       ELSE /\ el[u] # NoAccount /\ days <= el[u]
            /\ UNCHANGED <<cl, el>>
    /\ req' = [req EXCEPT ![r] = [st |-> "pending", type |-> type, days |-> days]]
    /\ UNCHANGED <<date, hist, histDates, credits, spent, expiry, expired, zeroed,
                   charged, scan, handler, restarts>>

\* update_leave_request: type and dates change, the balance is not asked.
Update(r, type, days) ==
    /\ handler = NoJob /\ req[r].st = "pending"
    /\ req' = [req EXCEPT ![r] = [@ EXCEPT !.type = type, !.days = days]]
    /\ UNCHANGED <<date, balances, expiry, expired, zeroed, charged, scan, handler, restarts>>

\* cancel_leave_request, admin_reject_leave_request.
Close(r) ==
    /\ handler = NoJob /\ req[r].st = "pending"
    /\ req' = [req EXCEPT ![r].st = "rejected"]
    /\ UNCHANGED <<date, balances, expiry, expired, zeroed, charged, scan, handler, restarts>>

\* Slip: an approved request can be approved again.
ApproveAgain(r) ==
    /\ handler = NoJob /\ req[r].st \in {"pending", "approved"}
    /\ handler' = [pc |-> "charge", r |-> r]
    /\ UNCHANGED <<date, balances, req, expiry, expired, zeroed, charged, scan, restarts>>

\* admin_approve_leave_request: the days are written first.
Approve(r) ==
    /\ handler = NoJob /\ req[r].st = "pending"
    /\ handler' = [pc |-> "charge", r |-> r]
    /\ UNCHANGED <<date, balances, req, expiry, expired, zeroed, charged, scan, restarts>>

\* What is left of a casual row: the accumulated days go first; the current
\* month is charged only when it covers the rest.
Charged(row, days) ==
    LET rest == Over(days, row.acc)
    IN  [row EXCEPT !.acc = Over(@, days),
                    !.avail = IF @ >= rest THEN @ - rest ELSE @,
                    !.used = @ + days]

\* The casual account, or the SELECT of the earned balance.
Charge ==
    /\ handler.pc = "charge"
    /\ LET r == handler.r
           u == Owner[r]
       IN  IF req[r].type = "cl"
           THEN /\ cl' = [cl EXCEPT ![u] = IF @ = NoAccount \/ @.month # Month THEN @
                                           ELSE Charged(@, req[r].days)]
                /\ charged' = [charged EXCEPT ![r] = @ + 1]
                /\ handler' = [pc |-> "finish", r |-> r]
           ELSE /\ handler' = IF el[u] = NoAccount THEN [pc |-> "finish", r |-> r]
                              ELSE [pc |-> "deduct", r |-> r, bal |-> el[u]]
                /\ UNCHANGED <<cl, charged>>
    /\ UNCHANGED <<date, el, hist, histDates, credits, spent, req, expiry, expired,
                   zeroed, scan, restarts>>

\* The UPDATE of the earned balance.
Deduct ==
    /\ handler.pc = "deduct"
    /\ LET r == handler.r
           u == Owner[r]
       IN  /\ el' = [el EXCEPT ![u] = IF @ = NoAccount THEN @ ELSE Over(handler.bal, req[r].days)]
           /\ spent' = [spent EXCEPT ![u] = @ + Min2(handler.bal, req[r].days)]
           /\ charged' = [charged EXCEPT ![r] = @ + 1]
           /\ handler' = [pc |-> "finish", r |-> r]
    /\ UNCHANGED <<date, cl, hist, histDates, credits, req, expiry, expired, zeroed,
                   scan, restarts>>

FinishApproval ==
    /\ handler.pc = "finish"
    /\ req' = [req EXCEPT ![handler.r].st = "approved"]
    /\ handler' = NoJob
    /\ UNCHANGED <<date, balances, expiry, expired, zeroed, charged, scan, restarts>>

-----------------------------------------------------------------------------
(***************************************************************************)
(* Expiry.                                                                 *)
(***************************************************************************)
Balance(k, u) == IF k = "cl" THEN (IF cl[u] = NoAccount THEN 0 ELSE cl[u].avail + cl[u].acc)
                 ELSE IF el[u] = NoAccount \/ el[u] < 0 THEN 0 ELSE el[u]

\* The UPDATE that empties an account of everybody.
EmptyAccounts(k) ==
    /\ IF k = "cl"
       THEN /\ cl' = [u \in Owners |-> IF cl[u] = NoAccount THEN NoAccount
                                       ELSE [cl[u] EXCEPT !.avail = 0, !.acc = 0]]
            /\ UNCHANGED el
       ELSE /\ el' = [u \in Owners |-> IF el[u] # NoAccount /\ el[u] > 0 THEN 0 ELSE el[u]]
            /\ UNCHANGED cl
    /\ \A u \in Owners : zeroed[u][k] + Balance(k, u) <= 2 * MaxPoints
    /\ zeroed' = [u \in Owners |-> [zeroed[u] EXCEPT ![k] = @ + Balance(k, u)]]

\* save_leave_settings_api: the date entered has come.
ReachExpiry(k) ==
    /\ handler = NoJob /\ k \notin expiry
    /\ expiry' = expiry \cup {k}
    /\ UNCHANGED <<date, balances, req, expired, zeroed, charged, scan, handler, restarts>>

\* expire_cl_now, expire_el_now (auto FALSE), _process_auto_leave_expiry (TRUE):
\* the balances are read ...
StartExpiry(k, auto) ==
    /\ handler = NoJob
    /\ auto => k \in expiry
    /\ handler' = [pc |-> "record", k |-> k, auto |-> auto,
                   todo |-> {<<u, Balance(k, u)>> : u \in {v \in Owners : Balance(k, v) > 0}}]
    /\ UNCHANGED <<date, balances, req, expiry, expired, zeroed, charged, scan, restarts>>

\* ... one INSERT into expired_leaves each ...
RecordExpiry ==
    /\ handler.pc = "record"
    /\ \E e \in handler.todo :
          /\ expired[e[1]][handler.k] + e[2] <= 2 * MaxPoints
          /\ expired' = [expired EXCEPT ![e[1]][handler.k] = @ + e[2]]
          /\ handler' = [handler EXCEPT !.todo = @ \ {e}]
    /\ UNCHANGED <<date, balances, req, expiry, zeroed, charged, scan, restarts>>

\* ... and the account emptied.
EmptyRecorded ==
    /\ handler.pc = "record" /\ handler.todo = {}
    /\ EmptyAccounts(handler.k)
    /\ handler' = IF handler.auto THEN [pc |-> "clear", k |-> handler.k] ELSE NoJob
    /\ UNCHANGED <<date, hist, histDates, credits, spent, req, expiry, expired, charged,
                   scan, restarts>>

ClearExpiry ==
    /\ handler.pc = "clear"
    /\ expiry' = expiry \ {handler.k}
    /\ handler' = NoJob
    /\ UNCHANGED <<date, balances, req, expired, zeroed, charged, scan, restarts>>

\* _check_and_expire_leaves, at start-up and every day: no record, and the
\* date stays.
DailyExpiry(k) ==
    /\ handler = NoJob /\ k \in expiry
    /\ EmptyAccounts(k)
    /\ UNCHANGED <<date, hist, histDates, credits, spent, req, expiry, expired, charged,
                   scan, handler, restarts>>

NextDate ==
    /\ date < MaxDate /\ handler = NoJob /\ \A u \in Owners : scan[u] = NoJob
    /\ date' = date + 1
    /\ UNCHANGED <<balances, req, expiry, expired, zeroed, charged, scan, handler, restarts>>

Restart ==
    /\ restarts < MaxRestarts
    /\ restarts' = restarts + 1
    /\ handler' = NoJob /\ scan' = [u \in Owners |-> NoJob]
    /\ UNCHANGED <<date, balances, req, expiry, expired, zeroed, charged>>

Busy == \/ AdjustWrite \/ AdjustHistory \/ SyncWrite \/ Charge \/ Deduct
        \/ FinishApproval \/ RecordExpiry \/ EmptyRecorded \/ ClearExpiry

BalanceNext ==
    \/ \E u \in Owners :
          \/ /\ "cl" \in Kinds
             /\ \/ InitCl(u) \/ UseCl(u)
                \/ \E a, c \in Targets : AdjustCl(u, a, c)
          \/ /\ "el" \in Kinds
             /\ \/ EnsureEl(u) \/ DeleteEl(u) \/ CreditCheck(u)
                \/ CreditLog(u) \/ CreditRead(u) \/ CreditWrite(u)
                \/ \E t \in Targets : AdjustRead(u, t)
    \/ \E r \in Requests :
          \/ Close(r) \/ Approve(r)
          \/ \E t \in Kinds, d \in Days : Submit(r, t, d) \/ Update(r, t, d)
    \/ \E k \in Kinds : ReachExpiry(k) \/ DailyExpiry(k)
    \/ \E k \in Kinds, auto \in BOOLEAN : StartExpiry(k, auto)
    \/ "el" \in Kinds /\ SyncRead
    \/ Busy \/ NextDate \/ Restart

BalanceSpec == BalanceInit /\ [][BalanceNext]_balanceVars

-----------------------------------------------------------------------------
(***************************************************************************)
(* Properties.                                                             *)
(***************************************************************************)
\* _secure_verify_and_mark enforces one point a day: whatever is written
\* between the check and the log entry, and after a crash.
OnePointPerDay == \A u \in Owners, d \in Dates : credits[u][d] <= 1

\* A request is charged once, and only when it is approved; a restart between
\* the charge and the approval can repeat it.
ChargedOnce ==
    \A r \in Requests :
        charged[r] <= restarts + (IF req[r].st = "approved" \/ handler # NoJob THEN 1 ELSE 0)

\* An approved or rejected request stays what it is.
DecisionStands ==
    \A r \in Requests : req[r].st \in {"approved", "rejected"} => req'[r] = req[r]

\* expired_leaves never lists more casual leave than the expiries took,
\* restarts between the two apart (a crediting scan may change the earned
\* balance in between).
RecordedWasTaken ==
    (restarts = 0 /\ handler = NoJob) =>
         \A u \in Owners, k \in Kinds \ {"el"} : expired[u][k] <= zeroed[u][k]

\* The balances are what the requests, points and expiries come to.
BalanceBooks == ChargedOnce /\ OnePointPerDay /\ RecordedWasTaken

\* get_expired_leaves is the "historical list of expired leaves": what an
\* expiry took is listed.
TakenIsRecorded ==
    (restarts = 0 /\ handler = NoJob) =>
         \A u \in Owners, k \in Kinds : zeroed[u][k] <= expired[u][k]

\* The comment "deduct EL balance": leave taken does not come back, so the
\* balance is never more than the points of the history less what was taken.
SpentStaysSpent ==
    \A u \in Owners : (handler = NoJob /\ scan[u] = NoJob /\ el[u] # NoAccount /\ spent[u] > 0) =>
        el[u] <= Over(hist[u], spent[u])

\* "Update earned_leave balance" follows the log of a point: every point of the
\* history is in the balance, unless leave, expiry, an admin or a crash took it.
PointReachesBalance ==
    \A u \in Owners : (restarts = 0 /\ handler = NoJob /\ scan[u] = NoJob) =>
        hist[u] - spent[u] - zeroed[u]["el"] <= (IF el[u] = NoAccount THEN 0 ELSE el[u])

=============================================================================
