---------------------------- MODULE AccountProofs ----------------------------
(***************************************************************************)
(* Theorems about what belongs to an account.  LeaveBalance, for any       *)
(* persons, requests, amounts and numbers of restarts: a request is        *)
(* charged once, a scan earns one point a day, a decision stands, and the  *)
(* list of expired leave never claims more casual leave than an expiry     *)
(* took.  Accounts, for any names, departments and tables: no row and no   *)
(* cached face is left without its account.  StudentFace, for any requests *)
(* in progress: a registered face is replaced once per permission, the     *)
(* status shown is the one enforced, and the cached face follows the       *)
(* profile.                                                                *)
(***************************************************************************)
EXTENDS LeaveBalance, Accounts, StudentFace, FiniteSetTheorems, WellFoundedInduction, TLAPS

\* What the endpoint on the event loop remembers between its statements.
Loop ==
    {NoJob}
      \cup [pc : {"charge", "finish"}, r : Requests]
      \cup [pc : {"deduct"}, r : Requests, bal : Int]
      \cup [pc : {"adjust", "history"}, u : Owners, old : Int, new : Nat]
      \cup [pc : {"sync"}, sums : [Owners -> Int], todo : SUBSET Owners]
      \cup [pc : {"record"}, k : Kinds, auto : BOOLEAN, todo : SUBSET (Owners \X Nat)]
      \cup [pc : {"clear"}, k : Kinds]

\* What a crediting scan remembers.
Scan == {NoJob} \cup [pc : {"log", "read"}] \cup [pc : {"write"}, bal : Int]

\* The columns as functions, with the histories.
Columns ==
    /\ date \in Dates
    /\ cl \in [Owners -> ClRow \cup {NoAccount}]
    /\ el \in [Owners -> Int \cup {NoAccount}]
    /\ hist \in [Owners -> Int]
    /\ histDates \in [Owners -> SUBSET Dates]
    /\ credits \in [Owners -> [Dates -> Nat]]
    /\ req \in [Requests -> RequestLeave]
    /\ expiry \subseteq Kinds
    /\ expired \in [Owners -> [Kinds -> Nat]]
    /\ zeroed \in [Owners -> [Kinds -> Nat]]
    /\ charged \in [Requests -> Nat]
    /\ spent \in [Owners -> Int]
    /\ scan \in [Owners -> Scan]
    /\ handler \in Loop
    /\ restarts \in 0 .. MaxRestarts

\* An approval under way is about a pending request, and only its last
\* statement leaves the charge and the status apart.
Approving ==
    /\ handler.pc \in {"charge", "deduct", "finish"} => req[handler.r].st = "pending"
    /\ \A r \in Requests :
          charged[r] <= restarts + (IF \/ req[r].st = "approved"
                                       \/ handler.pc = "finish" /\ handler.r = r THEN 1 ELSE 0)

\* A credited date is in the history, and a scan that found its date missing
\* has not been credited for it.
Pointed ==
    \A u \in Owners :
        /\ \A d \in Dates : credits[u][d] > 0 => d \in histDates[u]
        /\ scan[u].pc = "log" => credits[u][date] = 0

\* The expiry of casual leave under way: what is listed and not yet taken is
\* the balance of those whose record has been written.
Recorded(u) == ~ (handler.pc = "record" /\ handler.k = "cl") \/ <<u, Balance("cl", u)>> \in handler.todo
Booked ==
    (restarts = 0 /\ "cl" \in Kinds) =>
         /\ handler.pc = "record" /\ handler.k = "cl" =>
                  \A e \in handler.todo : e[2] = Balance("cl", e[1])
         /\ \A u \in Owners :
               expired[u]["cl"] <= zeroed[u]["cl"] + (IF Recorded(u) THEN 0 ELSE Balance("cl", u))

BalanceInv == Columns /\ Approving /\ OnePointPerDay /\ Pointed /\ Booked

-----------------------------------------------------------------------------
\* The words for what an action leaves alone.
LEMMA SameBalance ==
  ASSUME UNCHANGED cl
  PROVE  \A u \in Owners : Balance("cl", u)' = Balance("cl", u)
  BY DEF Balance

LEMMA BalanceType ==
  ASSUME Columns, NEW k \in Kinds, NEW u \in Owners, Kinds \subseteq {"cl", "el"}
  PROVE  Balance(k, u) \in Nat
  <1>1. CASE k = "cl"
    <2>1. cl[u] \in ClRow \cup {NoAccount} BY DEF Columns
    <2>2. cl[u] # NoAccount => cl[u].avail + cl[u].acc \in Nat BY <2>1 DEF ClRow
    <2> QED BY <1>1, <2>2 DEF Balance
  <1>2. CASE k # "cl"
    <2>1. el[u] \in Int \cup {NoAccount} BY DEF Columns
    <2> QED BY <1>2, <2>1 DEF Balance
  <1> QED BY <1>1, <1>2

\* The row a person has, or gets for the month.
LEMMA RowType ==
  ASSUME BalanceSettings, Columns, NEW u \in Owners
  PROVE  Initialised(u) \in ClRow
  <1>1. Month \in Nat BY DEF Month, Columns, BalanceSettings
  <1>2. cl[u] \in ClRow \cup {NoAccount} BY DEF Columns
  <1> QED BY <1>1, <1>2 DEF Initialised, ClRow

\* A row after a day is taken from it, or after an approval.
LEMMA RowUsed ==
  ASSUME NEW r \in ClRow
  PROVE  /\ [r EXCEPT !.avail = Over(@, 2), !.used = @ + 2] \in ClRow
         /\ [r EXCEPT !.acc = Over(@, 2), !.used = @ + 2] \in ClRow
         /\ \A days \in Nat : Charged(r, days) \in ClRow
  <1>1. \A a, b \in Nat : Over(a, b) \in Nat BY DEF Over
  <1>2. /\ r.month \in Nat /\ r.avail \in Nat /\ r.acc \in Nat /\ r.used \in Nat
        /\ r = [month |-> r.month, avail |-> r.avail, acc |-> r.acc, used |-> r.used]
    BY DEF ClRow
  <1>3. Over(r.avail, 2) \in Nat /\ Over(r.acc, 2) \in Nat /\ r.used + 2 \in Nat BY <1>1, <1>2
  <1>4. ASSUME NEW days \in Nat PROVE Charged(r, days) \in ClRow
    <2>1. PICK rest \in Nat : rest = Over(days, r.acc) BY <1>1, <1>2
    <2>2. Over(r.acc, days) \in Nat /\ r.used + days \in Nat BY <1>1, <1>2
    <2>3. (IF r.avail >= rest THEN r.avail - rest ELSE r.avail) \in Nat BY <1>2, <2>1
    <2>4. PICK a \in Nat, c \in Nat, n \in Nat :
            /\ a = IF r.avail >= rest THEN r.avail - rest ELSE r.avail
            /\ c = Over(r.acc, days)
            /\ n = r.used + days
      BY <2>2, <2>3
    <2>5. Charged(r, days) = [r EXCEPT !.acc = c, !.avail = a, !.used = n]
      BY <2>1, <2>4 DEF Charged
    <2> QED BY <1>2, <2>5 DEF ClRow
  <1> QED BY <1>2, <1>3, <1>4 DEF ClRow

LEMMA Rest == NoJob.pc = "idle" BY DEF NoJob

\* A remembered statement by its kind.
LEMMA LoopKinds ==
  ASSUME Columns
  PROVE  /\ handler.pc \in {"charge", "deduct", "finish"} => handler.r \in Requests
         /\ handler.pc = "deduct" => handler.bal \in Int
         /\ handler.pc \in {"adjust", "history"} =>
                 /\ handler.u \in Owners /\ handler.old \in Int /\ handler.new \in Nat
                 /\ handler = [pc |-> handler.pc, u |-> handler.u, old |-> handler.old, new |-> handler.new]
         /\ handler.pc = "sync" =>
                 /\ handler.sums \in [Owners -> Int] /\ handler.todo \subseteq Owners
                 /\ handler = [pc |-> "sync", sums |-> handler.sums, todo |-> handler.todo]
         /\ handler.pc = "record" =>
                 /\ handler.k \in Kinds /\ handler.auto \in BOOLEAN /\ handler.todo \subseteq Owners \X Nat
                 /\ handler = [pc |-> "record", k |-> handler.k, auto |-> handler.auto, todo |-> handler.todo]
         /\ handler.pc = "clear" => handler.k \in Kinds
  BY DEF Columns, Loop, NoJob

LEMMA ScanKinds ==
  ASSUME Columns, NEW u \in Owners
  PROVE  scan[u].pc = "write" => scan[u].bal \in Int
  <1>1. scan[u] \in Scan BY DEF Columns
  <1> QED BY <1>1 DEF Scan, NoJob

-----------------------------------------------------------------------------
LEMMA InitBalance == ASSUME BalanceSettings, BalanceInit PROVE BalanceInv
  <1>1. PICK d \in Days, k \in Kinds :
          req = [r \in Requests |-> [st |-> "none", type |-> k, days |-> d]]
    BY DEF BalanceInit
  <1>2. Columns
    <2>1. req \in [Requests -> RequestLeave] BY <1>1 DEF RequestLeave
    <2>2. date \in Dates /\ restarts \in 0 .. MaxRestarts
      BY DEF BalanceInit, Dates, BalanceSettings
    <2>3. handler \in Loop /\ scan \in [Owners -> Scan] BY DEF BalanceInit, Loop, Scan
    <2>4. credits \in [Owners -> [Dates -> Nat]] BY DEF BalanceInit
    <2>5. expired \in [Owners -> [Kinds -> Nat]] /\ zeroed \in [Owners -> [Kinds -> Nat]]
      BY DEF BalanceInit
    <2> QED BY <2>1, <2>2, <2>3, <2>4, <2>5 DEF BalanceInit, Columns
  <1>3. Approving BY <1>1, Rest DEF BalanceInit, Approving, BalanceSettings
  <1>4. OnePointPerDay BY DEF BalanceInit, OnePointPerDay
  <1>5. Pointed BY Rest DEF BalanceInit, Pointed
  <1>6. Booked BY Rest DEF BalanceInit, Booked, Balance, Recorded
  <1> QED BY <1>2, <1>3, <1>4, <1>5, <1>6 DEF BalanceInv

-----------------------------------------------------------------------------
(***************************************************************************)
(* Each part of the invariant and the steps that leave what it is about.   *)
(***************************************************************************)
LEMMA PointsKept ==
  ASSUME Pointed, OnePointPerDay, UNCHANGED <<credits, date>>,
         \A u \in Owners : histDates[u] \subseteq histDates'[u],
         \A u \in Owners : scan'[u].pc = "log" => scan[u].pc = "log"
  PROVE  Pointed' /\ OnePointPerDay'
  BY DEF Pointed, OnePointPerDay

LEMMA ApprovalKept ==
  ASSUME Approving, UNCHANGED <<charged, restarts, req>>,
         handler.pc \notin {"charge", "deduct", "finish"},
         handler'.pc \notin {"charge", "deduct", "finish"}
  PROVE  Approving'
  BY DEF Approving

LEMMA ListKept ==
  ASSUME Booked, UNCHANGED <<cl, expired, zeroed, restarts, handler>>
  PROVE  Booked'
  BY DEF Booked, Recorded, Balance

\* No record of casual leave is being written: only what the expiries took
\* may grow.
LEMMA ListIdle ==
  ASSUME Columns, Booked, UNCHANGED expired, restarts' = 0 => restarts = 0,
         zeroed' \in [Owners -> [Kinds -> Nat]],
         ~ (handler.pc = "record" /\ handler.k = "cl"),
         ~ (handler'.pc = "record" /\ handler'.k = "cl"),
         "cl" \in Kinds => \A u \in Owners : zeroed[u]["cl"] <= zeroed'[u]["cl"]
  PROVE  Booked'
  <1> SUFFICES ASSUME restarts' = 0, "cl" \in Kinds
               PROVE  \A u \in Owners : expired[u]["cl"] <= zeroed'[u]["cl"]
    BY DEF Booked, Recorded
  <1>1. \A u \in Owners : expired[u]["cl"] <= zeroed[u]["cl"]
    BY DEF Booked, Recorded, Columns
  <1>2. \A u \in Owners : /\ expired[u]["cl"] \in Nat /\ zeroed[u]["cl"] \in Nat
                          /\ zeroed'[u]["cl"] \in Nat
    BY DEF Columns
  <1> QED BY <1>1, <1>2

\* A step that is neither an approval, nor a record of casual leave, nor a
\* credit: the balances change within their types, the histories only grow.
LEMMA Still ==
  ASSUME BalanceInv, UNCHANGED <<date, credits, req, expired, charged, restarts>>,
         cl' \in [Owners -> ClRow \cup {NoAccount}],
         el' \in [Owners -> Int \cup {NoAccount}],
         hist' \in [Owners -> Int],
         histDates' \in [Owners -> SUBSET Dates],
         expiry' \subseteq Kinds,
         zeroed' \in [Owners -> [Kinds -> Nat]],
         spent' \in [Owners -> Int],
         UNCHANGED scan,
         handler' \in Loop,
         \A p \in {handler.pc, handler'.pc} : p \notin {"charge", "deduct", "finish"},
         ~ (handler.pc = "record" /\ handler.k = "cl"),
         ~ (handler'.pc = "record" /\ handler'.k = "cl"),
         \A u \in Owners : histDates[u] \subseteq histDates'[u],
         "cl" \in Kinds => \A u \in Owners : zeroed[u]["cl"] <= zeroed'[u]["cl"]
  PROVE  BalanceInv'
  <1>1. Columns' BY DEF BalanceInv, Columns
  <1>2. Approving' BY ApprovalKept DEF BalanceInv
  <1>3. Pointed' /\ OnePointPerDay' BY PointsKept DEF BalanceInv
  <1>4. Booked' BY ListIdle DEF BalanceInv
  <1> QED BY <1>1, <1>2, <1>3, <1>4 DEF BalanceInv

LEMMA SameZeroed ==
  ASSUME Columns, UNCHANGED zeroed
  PROVE  /\ zeroed' \in [Owners -> [Kinds -> Nat]]
         /\ "cl" \in Kinds => \A u \in Owners : zeroed[u]["cl"] <= zeroed'[u]["cl"]
  <1>1. "cl" \in Kinds => \A u \in Owners : zeroed[u]["cl"] \in Nat BY DEF Columns
  <1> QED BY <1>1 DEF Columns

\* An account emptied: what was in it is added to what was taken.
LEMMA EmptyType ==
  ASSUME BalanceSettings, Columns, NEW k \in Kinds, EmptyAccounts(k)
  PROVE  /\ cl' \in [Owners -> ClRow \cup {NoAccount}]
         /\ el' \in [Owners -> Int \cup {NoAccount}]
         /\ zeroed' \in [Owners -> [Kinds -> Nat]]
         /\ \A u \in Owners : zeroed'[u][k] = zeroed[u][k] + Balance(k, u)
         /\ \A u \in Owners, j \in Kinds \ {k} : zeroed'[u][j] = zeroed[u][j]
         /\ "cl" \in Kinds => \A u \in Owners : zeroed[u]["cl"] <= zeroed'[u]["cl"]
  <1>1. Kinds \subseteq {"cl", "el"} BY DEF BalanceSettings
  <1>2. \A u \in Owners : Balance(k, u) \in Nat BY <1>1, BalanceType
  <1>3. zeroed' = [u \in Owners |-> [zeroed[u] EXCEPT ![k] = @ + Balance(k, u)]] BY DEF EmptyAccounts
  <1>4. \A u \in Owners : zeroed[u] \in [Kinds -> Nat] BY DEF Columns
  <1>5. \A u \in Owners : /\ zeroed'[u] \in [Kinds -> Nat]
                          /\ zeroed'[u][k] = zeroed[u][k] + Balance(k, u)
                          /\ \A j \in Kinds \ {k} : zeroed'[u][j] = zeroed[u][j]
    <2> SUFFICES ASSUME NEW u \in Owners
                 PROVE  /\ zeroed'[u] \in [Kinds -> Nat]
                        /\ zeroed'[u][k] = zeroed[u][k] + Balance(k, u)
                        /\ \A j \in Kinds \ {k} : zeroed'[u][j] = zeroed[u][j]
      OBVIOUS
    <2>1. zeroed'[u] = [zeroed[u] EXCEPT ![k] = @ + Balance(k, u)] BY <1>3
    <2>2. PICK b \in Nat : b = Balance(k, u) BY <1>2
    <2> QED BY <1>4, <2>1, <2>2
  <1>6. \A u \in Owners : "cl" \in Kinds => zeroed[u]["cl"] <= zeroed'[u]["cl"]
    <2> SUFFICES ASSUME NEW u \in Owners, "cl" \in Kinds
                 PROVE  zeroed[u]["cl"] <= zeroed'[u]["cl"]
      OBVIOUS
    <2>1. PICK b \in Nat : b = Balance(k, u) BY <1>2
    <2>2. zeroed[u]["cl"] \in Nat BY <1>4
    <2>3. CASE k = "cl" BY <1>5, <2>1, <2>2, <2>3
    <2>4. CASE k # "cl" BY <1>5, <2>2, <2>4
    <2> QED BY <2>3, <2>4
  <1>7. zeroed' \in [Owners -> [Kinds -> Nat]] BY <1>3, <1>5
  <1>8. cl' \in [Owners -> ClRow \cup {NoAccount}]
    <2>1. CASE k = "cl"
      <3>1. cl' = [u \in Owners |-> IF cl[u] = NoAccount THEN NoAccount
                                    ELSE [cl[u] EXCEPT !.avail = 0, !.acc = 0]]
        BY <2>1 DEF EmptyAccounts
      <3>2. ASSUME NEW u \in Owners, cl[u] # NoAccount
            PROVE  [cl[u] EXCEPT !.avail = 0, !.acc = 0] \in ClRow
        <4>1. cl[u] \in ClRow BY <3>2 DEF Columns
        <4> QED BY <4>1 DEF ClRow
      <3> QED BY <3>1, <3>2
    <2>2. CASE k # "cl" BY <2>2 DEF EmptyAccounts, Columns
    <2> QED BY <2>1, <2>2
  <1>9. el' \in [Owners -> Int \cup {NoAccount}]
    <2>1. CASE k = "cl" BY <2>1 DEF EmptyAccounts, Columns
    <2>2. CASE k # "cl"
      <3>1. el' = [u \in Owners |-> IF el[u] # NoAccount /\ el[u] > 0 THEN 0 ELSE el[u]]
        BY <2>2 DEF EmptyAccounts
      <3>2. \A u \in Owners : el[u] \in Int \cup {NoAccount} BY DEF Columns
      <3> QED BY <3>1, <3>2
    <2> QED BY <2>1, <2>2
  <1> QED BY <1>5, <1>6, <1>7, <1>8, <1>9

\* The casual account outside approvals and expiries.
LEMMA CasualKeeps ==
  ASSUME BalanceSettings, BalanceInv, NEW u \in Owners,
         \/ InitCl(u) \/ UseCl(u)
         \/ \E a, c \in Targets : AdjustCl(u, a, c)
  PROVE  BalanceInv'
  <1>1. Columns /\ Initialised(u) \in ClRow BY RowType DEF BalanceInv
  <1>2. /\ UNCHANGED <<date, el, hist, histDates, credits, spent, req, expiry, expired,
                       zeroed, charged, scan, handler, restarts>>
        /\ handler = NoJob
    BY DEF InitCl, UseCl, AdjustCl
  <1>3. cl' \in [Owners -> ClRow \cup {NoAccount}]
    <2>1. CASE InitCl(u) BY <1>1, <2>1 DEF InitCl, Columns
    <2>2. CASE UseCl(u)
      <3> DEFINE r == Initialised(u)
      <3>1. \/ cl' = [cl EXCEPT ![u] = [r EXCEPT !.avail = Over(@, 2), !.used = @ + 2]]
            \/ cl' = [cl EXCEPT ![u] = [r EXCEPT !.acc = Over(@, 2), !.used = @ + 2]]
        BY <2>2 DEF UseCl
      <3>2. /\ [r EXCEPT !.avail = Over(@, 2), !.used = @ + 2] \in ClRow
            /\ [r EXCEPT !.acc = Over(@, 2), !.used = @ + 2] \in ClRow
        BY <1>1, RowUsed
      <3> HIDE DEF r
      <3> QED BY <1>1, <3>1, <3>2 DEF Columns
    <2>3. ASSUME NEW a \in Targets, NEW c \in Targets, AdjustCl(u, a, c)
          PROVE  cl' \in [Owners -> ClRow \cup {NoAccount}]
      <3>1. a \in Nat /\ c \in Nat BY DEF BalanceSettings
      <3>2. [Initialised(u) EXCEPT !.avail = a, !.acc = c] \in ClRow BY <1>1, <3>1 DEF ClRow
      <3> QED BY <1>1, <2>3, <3>2 DEF AdjustCl, Columns
    <2> QED BY <2>1, <2>2, <2>3
  <1>4. handler.pc = "idle" /\ handler'.pc = "idle" BY <1>2, Rest
  <1> QED BY <1>1, <1>2, <1>3, <1>4, Still, SameZeroed DEF Columns

\* The earned account outside approvals, credits and expiries.
LEMMA EarnedKeeps ==
  ASSUME BalanceSettings, BalanceInv, NEW u \in Owners, "el" \in Kinds,
         \/ EnsureEl(u) \/ DeleteEl(u)
         \/ \E t \in Targets : AdjustRead(u, t)
  PROVE  BalanceInv'
  <1>1. Columns /\ el[u] \in Int \cup {NoAccount} BY DEF BalanceInv, Columns
  <1>2. handler = NoJob /\ handler.pc = "idle" BY Rest DEF EnsureEl, DeleteEl, AdjustRead
  <1>3. CASE EnsureEl(u)
    <2>1. el' \in [Owners -> Int \cup {NoAccount}] BY <1>1, <1>3 DEF EnsureEl, Columns
    <2>2. UNCHANGED <<date, cl, hist, histDates, credits, spent, req, expiry, expired,
                      zeroed, charged, scan, handler, restarts>>
      BY <1>3 DEF EnsureEl
    <2> QED BY <1>1, <1>2, <2>1, <2>2, Still, SameZeroed DEF Columns
  <1>4. CASE DeleteEl(u)
    <2>1. el' \in [Owners -> Int \cup {NoAccount}] BY <1>1, <1>4 DEF DeleteEl, Columns
    <2>2. UNCHANGED <<date, cl, hist, histDates, credits, spent, req, expiry, expired,
                      charged, scan, handler, restarts>>
      BY <1>4 DEF DeleteEl
    <2>3. PICK b \in Nat : b = Over(el[u], 0) BY <1>1, <1>4 DEF DeleteEl, Over
    <2>4. zeroed' = [zeroed EXCEPT ![u]["el"] = @ + b] BY <1>4, <2>3 DEF DeleteEl
    <2>5. zeroed' \in [Owners -> [Kinds -> Nat]] BY <1>1, <2>4 DEF Columns
    <2>6. "cl" \in Kinds => \A v \in Owners : zeroed[v]["cl"] <= zeroed'[v]["cl"]
      <3>1. "cl" \in Kinds => \A v \in Owners : zeroed[v]["cl"] \in Nat BY <1>1 DEF Columns
      <3>2. "cl" \in Kinds => \A v \in Owners : zeroed'[v]["cl"] = zeroed[v]["cl"]
        BY <1>1, <2>4 DEF Columns
      <3> QED BY <3>1, <3>2
    <2> QED BY <1>1, <1>2, <2>1, <2>2, <2>5, <2>6, Still DEF Columns
  <1>5. ASSUME NEW t \in Targets, AdjustRead(u, t) PROVE BalanceInv'
    <2> DEFINE old == IF el[u] = NoAccount THEN 0 ELSE el[u]
    <2>1. old \in Int /\ t \in Nat BY <1>1 DEF BalanceSettings
    <2>2. /\ el' = [el EXCEPT ![u] = old]
          /\ handler' = [pc |-> "adjust", u |-> u, old |-> old, new |-> t]
          /\ UNCHANGED <<date, cl, hist, histDates, credits, spent, req, expiry, expired,
                         zeroed, charged, scan, restarts>>
      BY <1>5 DEF AdjustRead
    <2> HIDE DEF old
    <2>3. el' \in [Owners -> Int \cup {NoAccount}] BY <1>1, <2>1, <2>2 DEF Columns
    <2>4. handler' \in Loop /\ handler'.pc = "adjust" BY <2>1, <2>2 DEF Loop
    <2> QED BY <1>1, <1>2, <2>2, <2>3, <2>4, Still, SameZeroed DEF Columns
  <1> QED BY <1>3, <1>4, <1>5

\* Adjusting and synchronising the earned balances.
LEMMA AdjustKeeps ==
  ASSUME BalanceSettings, BalanceInv, AdjustWrite \/ AdjustHistory \/ SyncRead \/ SyncWrite
  PROVE  BalanceInv'
  <1>1. Columns BY DEF BalanceInv
  <1>2. CASE AdjustWrite
    <2>1. /\ handler.pc = "adjust"
          /\ el' = [el EXCEPT ![handler.u] = handler.new]
          /\ handler' = IF handler.new = handler.old THEN NoJob ELSE [handler EXCEPT !.pc = "history"]
          /\ UNCHANGED <<date, cl, hist, histDates, credits, spent, req, expiry, expired,
                         zeroed, charged, scan, restarts>>
      BY <1>2 DEF AdjustWrite
    <2>2. handler.u \in Owners /\ handler.old \in Int /\ handler.new \in Nat /\
          handler = [pc |-> handler.pc, u |-> handler.u, old |-> handler.old, new |-> handler.new]
      BY <1>1, <2>1, LoopKinds
    <2>3. el' \in [Owners -> Int \cup {NoAccount}] BY <1>1, <2>1, <2>2 DEF Columns
    <2>4. handler' = NoJob \/ handler' = [pc |-> "history", u |-> handler.u, old |-> handler.old, new |-> handler.new]
      BY <2>1, <2>2
    <2>5. handler' \in Loop /\ handler'.pc \in {"idle", "history"} BY <2>2, <2>4, Rest DEF Loop
    <2> QED BY <1>1, <2>1, <2>3, <2>5, Still, SameZeroed DEF Columns
  <1>3. CASE AdjustHistory
    <2>1. /\ handler.pc = "history"
          /\ hist' = [hist EXCEPT ![handler.u] = @ + handler.new - handler.old]
          /\ histDates' = [histDates EXCEPT ![handler.u] = @ \cup {date}]
          /\ handler' = NoJob
          /\ UNCHANGED <<date, cl, el, credits, spent, req, expiry, expired, zeroed, charged,
                         scan, restarts>>
      BY <1>3 DEF AdjustHistory
    <2>2. handler.u \in Owners /\ handler.old \in Int /\ handler.new \in Nat
      BY <1>1, <2>1, LoopKinds
    <2>3. hist' \in [Owners -> Int] BY <1>1, <2>1, <2>2 DEF Columns
    <2>4. /\ histDates' \in [Owners -> SUBSET Dates]
          /\ \A u \in Owners : histDates[u] \subseteq histDates'[u]
      BY <1>1, <2>1, <2>2 DEF Columns
    <2>5. handler' \in Loop /\ handler'.pc = "idle" BY <2>1, Rest DEF Loop
    <2> QED BY <1>1, <2>1, <2>3, <2>4, <2>5, Still, SameZeroed DEF Columns
  <1>4. CASE SyncRead
    <2> DEFINE bal == [u \in Owners |-> IF el[u] = NoAccount THEN 0 ELSE el[u]]
               some == {u \in Owners : bal[u] # hist[u]}
    <2>1. /\ handler = NoJob
          /\ el' = bal
          /\ handler' = [pc |-> "sync", sums |-> hist, todo |-> some]
          /\ UNCHANGED <<date, cl, hist, histDates, credits, spent, req, expiry, expired,
                         zeroed, charged, scan, restarts>>
      BY <1>4 DEF SyncRead
    <2>2. bal \in [Owners -> Int] BY <1>1 DEF Columns
    <2>3. some \subseteq Owners OBVIOUS
    <2> HIDE DEF bal, some
    <2>4. el' \in [Owners -> Int \cup {NoAccount}] BY <2>1, <2>2
    <2>5. handler' \in Loop /\ handler'.pc = "sync" BY <1>1, <2>1, <2>3 DEF Columns, Loop
    <2> QED BY <1>1, <2>1, <2>4, <2>5, Rest, Still, SameZeroed DEF Columns
  <1>5. CASE SyncWrite
    <2>1. /\ handler.pc = "sync"
          /\ UNCHANGED <<date, cl, hist, histDates, credits, spent, req, expiry, expired,
                         zeroed, charged, scan, restarts>>
      BY <1>5 DEF SyncWrite
    <2>2. /\ handler.sums \in [Owners -> Int] /\ handler.todo \subseteq Owners
          /\ handler = [pc |-> "sync", sums |-> handler.sums, todo |-> handler.todo]
      BY <1>1, <2>1, LoopKinds
    <2>3. CASE handler.todo = {}
      <3>1. handler' = NoJob /\ el' = el BY <1>5, <2>3 DEF SyncWrite
      <3>2. handler' \in Loop /\ handler'.pc = "idle" BY <3>1, Rest DEF Loop
      <3> QED BY <1>1, <2>1, <3>1, <3>2, Still, SameZeroed DEF Columns
    <2>4. CASE handler.todo # {}
      <3>1. PICK u \in handler.todo :
              /\ el' = [el EXCEPT ![u] = IF @ = NoAccount THEN @ ELSE handler.sums[u]]
              /\ handler' = [handler EXCEPT !.todo = @ \ {u}]
        BY <1>5, <2>4 DEF SyncWrite
      <3>2. el' \in [Owners -> Int \cup {NoAccount}] BY <1>1, <2>2, <3>1 DEF Columns
      <3>3. handler' = [pc |-> "sync", sums |-> handler.sums, todo |-> handler.todo \ {u}]
        BY <2>2, <3>1
      <3>4. handler' \in Loop /\ handler'.pc = "sync" BY <2>2, <3>3 DEF Loop
      <3> QED BY <1>1, <2>1, <3>2, <3>4, Still, SameZeroed DEF Columns
    <2> QED BY <2>3, <2>4
  <1> QED BY <1>2, <1>3, <1>4, <1>5

\* The statements of a crediting scan, between any statements of an endpoint.
LEMMA CreditKeeps ==
  ASSUME BalanceSettings, BalanceInv, NEW u \in Owners,
         CreditCheck(u) \/ CreditLog(u) \/ CreditRead(u) \/ CreditWrite(u)
  PROVE  BalanceInv'
  <1>1. Columns BY DEF BalanceInv
  <1>2. UNCHANGED <<date, cl, spent, req, expiry, expired, zeroed, charged, handler, restarts>>
    BY DEF CreditCheck, CreditLog, CreditRead, CreditWrite, balances
  <1>3. Approving' BY <1>2 DEF BalanceInv, Approving
  <1>4. Booked' BY <1>2, ListKept DEF BalanceInv
  <1>5. CASE CreditCheck(u)
    <2>1. /\ date \notin histDates[u]
          /\ scan' = [scan EXCEPT ![u] = [pc |-> "log"]]
          /\ UNCHANGED <<el, hist, histDates, credits>>
      BY <1>5 DEF CreditCheck, balances
    <2>2. scan' \in [Owners -> Scan] BY <1>1, <2>1 DEF Columns, Scan
    <2>3. Columns' BY <1>1, <1>2, <2>1, <2>2 DEF Columns
    <2>4. credits[u][date] = 0 BY <1>1, <2>1 DEF BalanceInv, Pointed, Columns
    <2>5. Pointed'
      BY <1>1, <1>2, <2>1, <2>4 DEF BalanceInv, Pointed, Columns
    <2>6. OnePointPerDay' BY <2>1 DEF BalanceInv, OnePointPerDay
    <2> QED BY <1>3, <1>4, <2>3, <2>5, <2>6 DEF BalanceInv
  <1>6. CASE CreditLog(u)
    <2>1. /\ scan[u].pc = "log"
          /\ hist' = [hist EXCEPT ![u] = @ + Point]
          /\ histDates' = [histDates EXCEPT ![u] = @ \cup {date}]
          /\ credits' = [credits EXCEPT ![u][date] = @ + 1]
          /\ scan' = [scan EXCEPT ![u] = [pc |-> "read"]]
          /\ UNCHANGED el
      BY <1>6 DEF CreditLog
    <2>2. date \in Dates /\ credits \in [Owners -> [Dates -> Nat]] BY <1>1 DEF Columns
    <2>3. scan' \in [Owners -> Scan] BY <1>1, <2>1 DEF Columns, Scan
    <2>4. hist' \in [Owners -> Int] BY <1>1, <2>1 DEF Columns, Point
    <2>5. histDates' \in [Owners -> SUBSET Dates] BY <1>1, <2>1 DEF Columns
    <2>6. credits' \in [Owners -> [Dates -> Nat]] BY <2>1, <2>2
    <2>7. Columns' BY <1>1, <1>2, <2>1, <2>3, <2>4, <2>5, <2>6 DEF Columns
    <2>8. credits[u][date] = 0 BY <2>1 DEF BalanceInv, Pointed
    <2>9. \A v \in Owners, d \in Dates :
            credits'[v][d] = IF v = u /\ d = date THEN 1 ELSE credits[v][d]
      BY <2>1, <2>2, <2>8
    <2>10. OnePointPerDay' BY <2>9 DEF BalanceInv, OnePointPerDay
    <2>11. ASSUME NEW v \in Owners
           PROVE  /\ \A d \in Dates : credits'[v][d] > 0 => d \in histDates'[v]
                  /\ scan'[v].pc = "log" => credits'[v][date] = 0
      <3>1. /\ \A d \in Dates : credits[v][d] > 0 => d \in histDates[v]
            /\ scan[v].pc = "log" => credits[v][date] = 0
        BY DEF BalanceInv, Pointed
      <3>2. CASE v = u
        <4>1. histDates'[v] = histDates[v] \cup {date} /\ scan'[v].pc = "read"
          BY <1>1, <2>1, <3>2 DEF Columns
        <4> QED BY <2>9, <3>1, <3>2, <4>1
      <3>3. CASE v # u
        <4>1. histDates'[v] = histDates[v] /\ scan'[v] = scan[v] BY <1>1, <2>1, <3>3 DEF Columns
        <4> QED BY <2>2, <2>9, <3>1, <3>3, <4>1
      <3> QED BY <3>2, <3>3
    <2>12. Pointed' BY <1>2, <2>11 DEF Pointed
    <2> QED BY <1>3, <1>4, <2>7, <2>10, <2>12 DEF BalanceInv
  <1>7. CASE CreditRead(u)
    <2>1. /\ scan[u].pc = "read"
          /\ scan' = [scan EXCEPT ![u] = IF el[u] = NoAccount THEN NoJob
                                         ELSE [pc |-> "write", bal |-> el[u]]]
          /\ UNCHANGED <<el, hist, histDates, credits>>
      BY <1>7 DEF CreditRead, balances
    <2>2. el[u] \in Int \cup {NoAccount} BY <1>1 DEF Columns
    <2>3. /\ (IF el[u] = NoAccount THEN NoJob ELSE [pc |-> "write", bal |-> el[u]]) \in Scan
          /\ (IF el[u] = NoAccount THEN NoJob ELSE [pc |-> "write", bal |-> el[u]]).pc # "log"
      BY <2>2, Rest DEF Scan
    <2>4. scan' \in [Owners -> Scan] BY <1>1, <2>1, <2>3 DEF Columns
    <2>5. Columns' BY <1>1, <1>2, <2>1, <2>4 DEF Columns
    <2>6. \A v \in Owners : scan'[v].pc = "log" => scan[v].pc = "log"
      BY <1>1, <2>1, <2>3 DEF Columns
    <2>7. Pointed' /\ OnePointPerDay' BY <1>2, <2>1, <2>6, PointsKept DEF BalanceInv
    <2> QED BY <1>3, <1>4, <2>5, <2>7 DEF BalanceInv
  <1>8. CASE CreditWrite(u)
    <2>1. /\ scan[u].pc = "write"
          /\ el' = [el EXCEPT ![u] = IF @ = NoAccount THEN @ ELSE scan[u].bal + Point]
          /\ scan' = [scan EXCEPT ![u] = NoJob]
          /\ UNCHANGED <<hist, histDates, credits>>
      BY <1>8 DEF CreditWrite
    <2>2. scan[u].bal + Point \in Int BY <1>1, <2>1, ScanKinds DEF Point
    <2>3. el' \in [Owners -> Int \cup {NoAccount}] BY <1>1, <2>1, <2>2 DEF Columns
    <2>4. scan' \in [Owners -> Scan] BY <1>1, <2>1 DEF Columns, Scan
    <2>5. Columns' BY <1>1, <1>2, <2>1, <2>3, <2>4 DEF Columns
    <2>6. \A v \in Owners : scan'[v].pc = "log" => scan[v].pc = "log"
      BY <1>1, <2>1, Rest DEF Columns
    <2>7. Pointed' /\ OnePointPerDay' BY <1>2, <2>1, <2>6, PointsKept DEF BalanceInv
    <2> QED BY <1>3, <1>4, <2>5, <2>7 DEF BalanceInv
  <1> QED BY <1>5, <1>6, <1>7, <1>8

-----------------------------------------------------------------------------
\* A request that is not decided changes, or is closed.
LEMMA RequestKeeps ==
  ASSUME BalanceSettings, BalanceInv, NEW r \in Requests,
         \/ Close(r)
         \/ \E t \in Kinds, d \in Days : Submit(r, t, d) \/ Update(r, t, d)
  PROVE  BalanceInv'
  <1>1. Columns /\ Owner[r] \in Owners BY DEF BalanceInv, BalanceSettings
  <1>2. /\ handler = NoJob /\ handler.pc = "idle" /\ req[r].st # "approved"
        /\ UNCHANGED <<date, hist, histDates, credits, spent, expiry, expired, zeroed,
                       charged, scan, handler, restarts, el>>
    BY Rest DEF Close, Submit, Update, balances
  <1>3. req[r] \in RequestLeave BY <1>1 DEF Columns
  <1>4. PICK q \in RequestLeave : req' = [req EXCEPT ![r] = q]
    <2>1. CASE Close(r)
      <3>1. [req[r] EXCEPT !.st = "rejected"] \in RequestLeave BY <1>3 DEF RequestLeave
      <3>2. req' = [req EXCEPT ![r] = [req[r] EXCEPT !.st = "rejected"]]
        BY <2>1, <1>1 DEF Close, Columns
      <3> QED BY <3>1, <3>2
    <2>2. ASSUME NEW t \in Kinds, NEW d \in Days, Submit(r, t, d)
          PROVE  \E q \in RequestLeave : req' = [req EXCEPT ![r] = q]
      <3>1. [st |-> "pending", type |-> t, days |-> d] \in RequestLeave BY DEF RequestLeave
      <3>2. req' = [req EXCEPT ![r] = [st |-> "pending", type |-> t, days |-> d]]
        BY <2>2 DEF Submit
      <3> QED BY <3>1, <3>2
    <2>3. ASSUME NEW t \in Kinds, NEW d \in Days, Update(r, t, d)
          PROVE  \E q \in RequestLeave : req' = [req EXCEPT ![r] = q]
      <3>1. [req[r] EXCEPT !.type = t, !.days = d] \in RequestLeave BY <1>3 DEF RequestLeave
      <3>2. req' = [req EXCEPT ![r] = [req[r] EXCEPT !.type = t, !.days = d]]
        BY <2>3, <1>1 DEF Update, Columns
      <3> QED BY <3>1, <3>2
    <2> QED BY <2>1, <2>2, <2>3
  <1>5. req' \in [Requests -> RequestLeave] BY <1>1, <1>4 DEF Columns
  <1>6. cl' \in [Owners -> ClRow \cup {NoAccount}]
    <2>1. Initialised(Owner[r]) \in ClRow BY <1>1, RowType
    <2>2. \/ cl' = cl \/ cl' = [cl EXCEPT ![Owner[r]] = Initialised(Owner[r])]
      BY DEF Close, Submit, Update, balances
    <2> QED BY <1>1, <2>1, <2>2 DEF Columns
  <1>7. Columns' BY <1>1, <1>2, <1>5, <1>6 DEF Columns
  <1>8. Approving'
    <2>1. handler'.pc = "idle" BY <1>2
    <2> SUFFICES ASSUME NEW p \in Requests
                 PROVE  charged[p] <= restarts + (IF req'[p].st = "approved" THEN 1 ELSE 0)
      BY <1>2, <2>1 DEF Approving
    <2>2. charged[p] <= restarts + (IF req[p].st = "approved" THEN 1 ELSE 0)
      BY <1>2 DEF BalanceInv, Approving
    <2>3. charged[p] \in Nat /\ restarts \in Nat BY <1>1 DEF Columns
    <2>4. CASE p = r
      <3>1. charged[p] <= restarts BY <1>2, <2>2, <2>3, <2>4
      <3> QED BY <2>3, <3>1
    <2>5. CASE p # r
      <3>1. req'[p] = req[p] BY <1>1, <1>4, <2>5 DEF Columns
      <3> QED BY <2>2, <3>1
    <2> QED BY <2>4, <2>5
  <1>9. Pointed' /\ OnePointPerDay' BY <1>2, PointsKept DEF BalanceInv
  <1>10. Booked' BY <1>1, <1>2, ListIdle, SameZeroed DEF BalanceInv
  <1> QED BY <1>7, <1>8, <1>9, <1>10 DEF BalanceInv

\* The start of an approval, the charge and the status.
LEMMA ApproveKeeps ==
  ASSUME BalanceSettings, BalanceInv, NEW r \in Requests, Approve(r)
  PROVE  BalanceInv'
  <1>1. Columns BY DEF BalanceInv
  <1>2. /\ handler = NoJob /\ handler.pc = "idle" /\ req[r].st = "pending"
        /\ handler' = [pc |-> "charge", r |-> r]
        /\ UNCHANGED <<date, cl, el, hist, histDates, credits, spent, req, expiry, expired,
                       zeroed, charged, scan, restarts>>
    BY Rest DEF Approve, balances
  <1>3. handler' \in Loop /\ handler'.pc = "charge" /\ handler'.r = r BY <1>2 DEF Loop
  <1>4. Columns' BY <1>1, <1>2, <1>3 DEF Columns
  <1>5. Approving' BY <1>2, <1>3 DEF BalanceInv, Approving
  <1>6. Pointed' /\ OnePointPerDay' BY <1>2, PointsKept DEF BalanceInv
  <1>7. Booked' BY <1>1, <1>2, <1>3, ListIdle, SameZeroed DEF BalanceInv
  <1> QED BY <1>4, <1>5, <1>6, <1>7 DEF BalanceInv

LEMMA ChargeKeeps ==
  ASSUME BalanceSettings, BalanceInv, Charge \/ Deduct
  PROVE  BalanceInv'
  <1> DEFINE r == handler.r
             u == Owner[handler.r]
  <1>1. Columns BY DEF BalanceInv
  <1>2. /\ handler.pc \in {"charge", "deduct"}
        /\ UNCHANGED <<date, hist, histDates, credits, req, expiry, expired, zeroed, scan,
                       restarts>>
    BY DEF Charge, Deduct
  <1>3. r \in Requests /\ req[r].st = "pending" /\ u \in Owners
    BY <1>1, <1>2, LoopKinds DEF BalanceInv, Approving, BalanceSettings
  <1>4. req[r].days \in Nat /\ el[u] \in Int \cup {NoAccount} /\ cl[u] \in ClRow \cup {NoAccount}
    BY <1>1, <1>3 DEF Columns, RequestLeave, BalanceSettings
  <1>5. charged[r] \in Nat /\ restarts \in Nat /\ charged[r] <= restarts
    <2>1. charged[r] \in Nat /\ restarts \in Nat BY <1>1, <1>3 DEF Columns
    <2>2. charged[r] <= restarts + 0 BY <1>2, <1>3 DEF BalanceInv, Approving
    <2> QED BY <2>1, <2>2
  <1>6. /\ cl' \in [Owners -> ClRow \cup {NoAccount}]
        /\ el' \in [Owners -> Int \cup {NoAccount}]
        /\ spent' \in [Owners -> Int]
        /\ \/ handler' = [pc |-> "finish", r |-> r] /\ charged' = [charged EXCEPT ![r] = @ + 1]
           \/ /\ handler' = [pc |-> "finish", r |-> r] \/ handler' = [pc |-> "deduct", r |-> r, bal |-> el[u]]
              /\ handler'.pc = "deduct" => el[u] \in Int
              /\ charged' = charged
    <2>1. CASE Charge /\ req[r].type = "cl"
      <3>1. /\ cl' = [cl EXCEPT ![u] = IF @ = NoAccount \/ @.month # Month THEN @
                                       ELSE Charged(@, req[r].days)]
            /\ charged' = [charged EXCEPT ![r] = @ + 1]
            /\ handler' = [pc |-> "finish", r |-> r]
            /\ UNCHANGED <<el, spent>>
        BY <2>1 DEF Charge
      <3>2. cl[u] # NoAccount => Charged(cl[u], req[r].days) \in ClRow BY <1>4, RowUsed
      <3>3. (IF cl[u] = NoAccount \/ cl[u].month # Month THEN cl[u] ELSE Charged(cl[u], req[r].days))
              \in ClRow \cup {NoAccount}
        BY <1>4, <3>2
      <3> HIDE DEF r, u
      <3>4. cl' \in [Owners -> ClRow \cup {NoAccount}] BY <1>1, <1>3, <3>1, <3>3 DEF Columns
      <3> QED BY <1>1, <3>1, <3>4 DEF Columns
    <2>2. CASE Charge /\ req[r].type # "cl"
      <3>1. /\ handler' = IF el[u] = NoAccount THEN [pc |-> "finish", r |-> r]
                          ELSE [pc |-> "deduct", r |-> r, bal |-> el[u]]
            /\ UNCHANGED <<cl, charged, el, spent>>
        BY <2>2 DEF Charge
      <3> QED BY <1>1, <1>4, <3>1 DEF Columns
    <2>3. CASE Deduct
      <3>1. /\ handler.pc = "deduct"
            /\ el' = [el EXCEPT ![u] = IF @ = NoAccount THEN @ ELSE Over(handler.bal, req[r].days)]
            /\ spent' = [spent EXCEPT ![u] = @ + Min2(handler.bal, req[r].days)]
            /\ charged' = [charged EXCEPT ![r] = @ + 1]
            /\ handler' = [pc |-> "finish", r |-> r]
            /\ UNCHANGED cl
        BY <2>3 DEF Deduct
      <3>2. handler.bal \in Int BY <1>1, <3>1, LoopKinds
      <3>3. Over(handler.bal, req[r].days) \in Int /\ Min2(handler.bal, req[r].days) \in Int
        BY <1>4, <3>2 DEF Over, Min2
      <3> HIDE DEF r, u
      <3>4. el' \in [Owners -> Int \cup {NoAccount}] BY <1>1, <1>3, <3>1, <3>3 DEF Columns
      <3>5. spent' \in [Owners -> Int] BY <1>1, <1>3, <3>1, <3>3 DEF Columns
      <3> QED BY <1>1, <3>1, <3>4, <3>5 DEF Columns
    <2> QED BY <2>1, <2>2, <2>3
  <1> HIDE DEF r, u
  <1>7. handler' \in Loop /\ handler'.pc \in {"finish", "deduct"} /\ handler'.r = r
    BY <1>3, <1>6 DEF Loop
  <1>8. charged' \in [Requests -> Nat]
    <2>1. charged \in [Requests -> Nat] BY <1>1 DEF Columns
    <2>2. charged' = charged \/ charged' = [charged EXCEPT ![r] = @ + 1] BY <1>6
    <2> QED BY <1>3, <2>1, <2>2
  <1>9. Columns' BY <1>1, <1>2, <1>6, <1>7, <1>8 DEF Columns
  <1>10. Approving'
    <2>1. req'[handler'.r].st = "pending" BY <1>2, <1>3, <1>7
    <2>2. ASSUME NEW p \in Requests
          PROVE  charged'[p] <= restarts' + (IF \/ req'[p].st = "approved"
                                                \/ handler'.pc = "finish" /\ handler'.r = p THEN 1 ELSE 0)
      <3>1. charged[p] \in Nat BY <1>1 DEF Columns
      <3>2. CASE p = r
        <4>1. CASE charged' = charged BY <1>2, <1>5, <3>2, <4>1
        <4>2. CASE charged' # charged
          <5>1. handler'.pc = "finish" /\ charged' = [charged EXCEPT ![r] = @ + 1] BY <1>6, <4>2
          <5>2. charged'[r] = charged[r] + 1 BY <1>1, <1>3, <5>1 DEF Columns
          <5> QED BY <1>2, <1>5, <1>7, <3>2, <5>1, <5>2
        <4> QED BY <4>1, <4>2
      <3>3. CASE p # r
        <4>1. charged'[p] = charged[p] BY <1>1, <1>6, <3>3 DEF Columns
        <4>2. charged[p] <= restarts + (IF req[p].st = "approved" THEN 1 ELSE 0)
          BY <1>2 DEF BalanceInv, Approving
        <4> QED BY <1>2, <1>7, <3>3, <4>1, <4>2
      <3> QED BY <3>2, <3>3
    <2> QED BY <2>1, <2>2 DEF Approving
  <1>11. Pointed' /\ OnePointPerDay' BY <1>2, PointsKept DEF BalanceInv
  <1>12. Booked' BY <1>1, <1>2, <1>7, ListIdle, SameZeroed DEF BalanceInv
  <1> QED BY <1>9, <1>10, <1>11, <1>12 DEF BalanceInv

LEMMA FinishKeeps ==
  ASSUME BalanceSettings, BalanceInv, FinishApproval
  PROVE  BalanceInv'
  <1>1. Columns BY DEF BalanceInv
  <1>2. /\ handler.pc = "finish"
        /\ req' = [req EXCEPT ![handler.r].st = "approved"]
        /\ handler' = NoJob /\ handler'.pc = "idle"
        /\ UNCHANGED <<date, cl, el, hist, histDates, credits, spent, expiry, expired, zeroed,
                       charged, scan, restarts>>
    BY Rest DEF FinishApproval, balances
  <1>3. handler.r \in Requests /\ req[handler.r] \in RequestLeave BY <1>1, <1>2, LoopKinds DEF Columns
  <1>4. PICK q \in RequestLeave : q.st = "approved" /\ req' = [req EXCEPT ![handler.r] = q]
    <2>1. [req[handler.r] EXCEPT !.st = "approved"] \in RequestLeave BY <1>3 DEF RequestLeave
    <2>2. [req[handler.r] EXCEPT !.st = "approved"].st = "approved" BY <1>3 DEF RequestLeave
    <2>3. req' = [req EXCEPT ![handler.r] = [req[handler.r] EXCEPT !.st = "approved"]]
      BY <1>1, <1>2 DEF Columns
    <2> QED BY <2>1, <2>2, <2>3
  <1>5. req' \in [Requests -> RequestLeave] /\ handler' \in Loop BY <1>1, <1>2, <1>4 DEF Columns, Loop
  <1>6. Columns' BY <1>1, <1>2, <1>5 DEF Columns
  <1>7. Approving'
    <2> SUFFICES ASSUME NEW p \in Requests
                 PROVE  charged[p] <= restarts + (IF req'[p].st = "approved" THEN 1 ELSE 0)
      BY <1>2 DEF Approving
    <2>1. CASE p = handler.r
      <3>1. charged[p] <= restarts + 1 BY <1>2, <2>1 DEF BalanceInv, Approving
      <3>2. req'[p].st = "approved" BY <1>1, <1>3, <1>4, <2>1 DEF Columns
      <3> QED BY <3>1, <3>2
    <2>2. CASE p # handler.r
      <3>1. req'[p] = req[p] BY <1>1, <1>4, <2>2 DEF Columns
      <3>2. charged[p] <= restarts + (IF req[p].st = "approved" THEN 1 ELSE 0)
        BY <2>2 DEF BalanceInv, Approving
      <3> QED BY <3>1, <3>2
    <2> QED BY <2>1, <2>2
  <1>8. Pointed' /\ OnePointPerDay' BY <1>2, PointsKept DEF BalanceInv
  <1>9. Booked' BY <1>1, <1>2, ListIdle, SameZeroed DEF BalanceInv
  <1> QED BY <1>6, <1>7, <1>8, <1>9 DEF BalanceInv

-----------------------------------------------------------------------------
\* Expiry: the balances are read, listed one by one, and taken.
LEMMA ExpiryDateKeeps ==
  ASSUME BalanceSettings, BalanceInv,
         ClearExpiry \/ \E k \in Kinds : ReachExpiry(k) \/ DailyExpiry(k)
  PROVE  BalanceInv'
  <1>1. Columns BY DEF BalanceInv
  <1>2. CASE ClearExpiry
    <2>1. /\ handler.pc = "clear" /\ handler' = NoJob /\ expiry' = expiry \ {handler.k}
          /\ UNCHANGED <<date, cl, el, hist, histDates, credits, spent, req, expired, zeroed,
                         charged, scan, restarts>>
      BY <1>2 DEF ClearExpiry, balances
    <2>2. handler' \in Loop /\ handler'.pc = "idle" /\ expiry' \subseteq Kinds
      BY <1>1, <2>1, Rest DEF Loop, Columns
    <2> QED BY <1>1, <2>1, <2>2, Still, SameZeroed DEF Columns
  <1>3. ASSUME NEW k \in Kinds, ReachExpiry(k) PROVE BalanceInv'
    <2>1. /\ handler.pc = "idle" /\ expiry' \subseteq Kinds
          /\ UNCHANGED <<date, cl, el, hist, histDates, credits, spent, req, expired, zeroed,
                         charged, scan, handler, restarts>>
      BY <1>1, <1>3, Rest DEF ReachExpiry, balances, Columns
    <2> QED BY <1>1, <2>1, Still, SameZeroed DEF Columns
  <1>4. ASSUME NEW k \in Kinds, DailyExpiry(k) PROVE BalanceInv'
    <2>1. /\ handler.pc = "idle" /\ EmptyAccounts(k)
          /\ UNCHANGED <<date, hist, histDates, credits, spent, req, expiry, expired, charged,
                         scan, handler, restarts>>
      BY <1>4, Rest DEF DailyExpiry
    <2>2. /\ cl' \in [Owners -> ClRow \cup {NoAccount}]
          /\ el' \in [Owners -> Int \cup {NoAccount}]
          /\ zeroed' \in [Owners -> [Kinds -> Nat]]
          /\ "cl" \in Kinds => \A u \in Owners : zeroed[u]["cl"] <= zeroed'[u]["cl"]
      BY <1>1, <2>1, EmptyType
    <2> QED BY <1>1, <2>1, <2>2, Still DEF Columns
  <1> QED BY <1>2, <1>3, <1>4

LEMMA StartExpiryKeeps ==
  ASSUME BalanceSettings, BalanceInv, NEW k \in Kinds, NEW auto \in BOOLEAN, StartExpiry(k, auto)
  PROVE  BalanceInv'
  <1> DEFINE due == {<<u, Balance(k, u)>> : u \in {v \in Owners : Balance(k, v) > 0}}
  <1>1. Columns BY DEF BalanceInv
  <1>2. /\ handler = NoJob /\ handler.pc = "idle"
        /\ handler' = [pc |-> "record", k |-> k, auto |-> auto, todo |-> due]
        /\ UNCHANGED <<date, cl, el, hist, histDates, credits, spent, req, expiry, expired,
                       zeroed, charged, scan, restarts>>
    BY Rest DEF StartExpiry, balances
  <1>3. Kinds \subseteq {"cl", "el"} BY DEF BalanceSettings
  <1>4. \A u \in Owners : Balance(k, u) \in Nat BY <1>1, <1>3, BalanceType
  <1>5. due \subseteq Owners \X Nat BY <1>4
  <1>6. /\ \A e \in due : e[2] = Balance(k, e[1])
        /\ \A u \in Owners : Balance(k, u) > 0 => <<u, Balance(k, u)>> \in due
    OBVIOUS
  <1> HIDE DEF due
  <1>7. /\ handler' \in Loop /\ handler'.pc = "record" /\ handler'.k = k /\ handler'.todo = due
    BY <1>2, <1>5 DEF Loop
  <1>8. Columns' BY <1>1, <1>2, <1>7 DEF Columns
  <1>9. Approving' BY <1>2, <1>7, ApprovalKept DEF BalanceInv
  <1>10. Pointed' /\ OnePointPerDay' BY <1>2, PointsKept DEF BalanceInv
  <1>11. CASE k # "cl"
    <2>1. Booked' BY <1>1, <1>2, <1>7, <1>11, ListIdle, SameZeroed DEF BalanceInv
    <2> QED BY <1>8, <1>9, <1>10, <2>1 DEF BalanceInv
  <1>12. CASE k = "cl"
    <2>1. \A u \in Owners : Balance("cl", u)' = Balance("cl", u) BY <1>2, SameBalance
    <2>2. \A e \in handler'.todo : e[1] \in Owners BY <1>5, <1>7
    <2>3. ASSUME restarts' = 0 PROVE Booked'
      <3>1. \A e \in handler'.todo : e[2] = Balance("cl", e[1])'
        BY <1>6, <1>7, <1>12, <2>1, <2>2
      <3>2. ASSUME NEW u \in Owners
            PROVE  expired'[u]["cl"] <=
                     zeroed'[u]["cl"] + (IF Recorded(u)' THEN 0 ELSE Balance("cl", u)')
        <4>1. expired[u]["cl"] <= zeroed[u]["cl"] + 0
          BY <1>2, <1>12, <2>3 DEF BalanceInv, Booked, Recorded
        <4>2. CASE Balance("cl", u) > 0
          <5>1. Recorded(u)' BY <1>6, <1>7, <1>12, <2>1, <4>2 DEF Recorded
          <5> QED BY <1>2, <4>1, <5>1
        <4>3. CASE ~ (Balance("cl", u) > 0)
          <5>1. Balance("cl", u)' = 0 BY <1>4, <1>12, <2>1, <4>3
          <5> QED BY <1>2, <4>1, <5>1
        <4> QED BY <4>2, <4>3
      <3> QED BY <3>1, <3>2 DEF Booked
    <2>4. CASE restarts' # 0 BY <1>8, <1>9, <1>10, <2>4 DEF BalanceInv, Booked
    <2> QED BY <1>8, <1>9, <1>10, <2>3, <2>4 DEF BalanceInv
  <1> QED BY <1>11, <1>12

LEMMA RecordKeeps ==
  ASSUME BalanceSettings, BalanceInv, RecordExpiry
  PROVE  BalanceInv'
  <1>1. Columns BY DEF BalanceInv
  <1>2. /\ handler.pc = "record"
        /\ UNCHANGED <<date, cl, el, hist, histDates, credits, spent, req, expiry, zeroed,
                       charged, scan, restarts>>
    BY DEF RecordExpiry, balances
  <1>3. PICK e \in handler.todo : /\ expired' = [expired EXCEPT ![e[1]][handler.k] = @ + e[2]]
                                  /\ handler' = [handler EXCEPT !.todo = @ \ {e}]
    BY DEF RecordExpiry
  <1>4. /\ handler.k \in Kinds /\ handler.auto \in BOOLEAN /\ handler.todo \subseteq Owners \X Nat
        /\ handler = [pc |-> "record", k |-> handler.k, auto |-> handler.auto, todo |-> handler.todo]
    BY <1>1, <1>2, LoopKinds
  <1>5. e[1] \in Owners /\ e[2] \in Nat /\ e = <<e[1], e[2]>> BY <1>3, <1>4
  <1>6. handler' = [pc |-> "record", k |-> handler.k, auto |-> handler.auto, todo |-> handler.todo \ {e}]
    <2>1. PICK rest : rest = handler.todo \ {e} OBVIOUS
    <2>2. handler' = [handler EXCEPT !.todo = rest] BY <1>3, <2>1
    <2>3. PICK k, auto, todo : k = handler.k /\ auto = handler.auto /\ todo = handler.todo
      BY <1>4
    <2>4. handler = [pc |-> "record", k |-> k, auto |-> auto, todo |-> todo] BY <1>4, <2>3
    <2>5. handler' = [pc |-> "record", k |-> k, auto |-> auto, todo |-> rest] BY <2>2, <2>4
    <2> QED BY <2>1, <2>3, <2>5
  <1>7. /\ handler' \in Loop /\ handler'.pc = "record" /\ handler'.k = handler.k
        /\ handler'.todo = handler.todo \ {e}
    BY <1>4, <1>6 DEF Loop
  <1>8. expired \in [Owners -> [Kinds -> Nat]] BY <1>1 DEF Columns
  <1>9. /\ expired' \in [Owners -> [Kinds -> Nat]]
        /\ \A u \in Owners, k \in Kinds :
              expired'[u][k] = IF u = e[1] /\ k = handler.k THEN expired[u][k] + e[2]
                               ELSE expired[u][k]
    BY <1>3, <1>4, <1>5, <1>8
  <1>10. Columns' BY <1>1, <1>2, <1>7, <1>9 DEF Columns
  <1>11. Approving' BY <1>2, <1>7, ApprovalKept DEF BalanceInv
  <1>12. Pointed' /\ OnePointPerDay' BY <1>2, PointsKept DEF BalanceInv
  <1>13. \A u \in Owners : Balance("cl", u)' = Balance("cl", u) BY <1>2, SameBalance
  <1>14. ASSUME restarts = 0, "cl" \in Kinds PROVE Booked'
    <2>1. CASE handler.k # "cl"
      <3>1. \A u \in Owners : expired'[u]["cl"] = expired[u]["cl"] BY <1>9, <1>14, <2>1
      <3>2. \A u \in Owners : expired[u]["cl"] <= zeroed[u]["cl"] + 0
        BY <1>14, <2>1 DEF BalanceInv, Booked, Recorded
      <3>3. \A u \in Owners : Recorded(u)' BY <1>7, <2>1 DEF Recorded
      <3> QED BY <1>2, <1>7, <2>1, <3>1, <3>2, <3>3 DEF Booked
    <2>2. CASE handler.k = "cl"
      <3>1. \A d \in handler.todo : d[2] = Balance("cl", d[1])
        BY <1>2, <1>14, <2>2 DEF BalanceInv, Booked
      <3>2. \A d \in handler'.todo : d[2] = Balance("cl", d[1])'
        BY <1>4, <1>7, <1>13, <3>1
      <3>3. ASSUME NEW u \in Owners
            PROVE  expired'[u]["cl"] <=
                     zeroed'[u]["cl"] + (IF Recorded(u)' THEN 0 ELSE Balance("cl", u)')
        <4>1. expired[u]["cl"] <= zeroed[u]["cl"] + (IF Recorded(u) THEN 0 ELSE Balance("cl", u))
          BY <1>14 DEF BalanceInv, Booked
        <4>2. CASE u = e[1]
          <5>1. <<u, Balance("cl", u)>> = e BY <1>5, <3>1, <4>2
          <5>2. Recorded(u) BY <5>1 DEF Recorded
          <5>3. ~ Recorded(u)' BY <1>7, <1>13, <2>2, <5>1 DEF Recorded
          <5>4. expired'[u]["cl"] = expired[u]["cl"] + e[2] BY <1>9, <1>14, <2>2, <4>2
          <5>5. Balance("cl", u)' = e[2] BY <1>5, <1>13, <3>1, <4>2
          <5>6. expired[u]["cl"] <= zeroed[u]["cl"] + 0 BY <4>1, <5>2
          <5>7. expired[u]["cl"] \in Nat /\ zeroed[u]["cl"] \in Nat
            BY <1>1, <1>14 DEF Columns
          <5>8. expired[u]["cl"] + e[2] <= zeroed[u]["cl"] + e[2] BY <1>5, <5>6, <5>7
          <5> QED BY <1>2, <5>3, <5>4, <5>5, <5>8
        <4>3. CASE u # e[1]
          <5>1. expired'[u]["cl"] = expired[u]["cl"] BY <1>9, <1>14, <4>3
          <5>2. <<u, Balance("cl", u)>> # e BY <4>3
          <5>3. Recorded(u)' = Recorded(u)
            BY <1>2, <1>7, <1>13, <2>2, <5>2 DEF Recorded
          <5> QED BY <1>2, <1>13, <4>1, <5>1, <5>3
        <4> QED BY <4>2, <4>3
      <3> QED BY <3>2, <3>3 DEF Booked
    <2> QED BY <2>1, <2>2
  <1>15. CASE ~ (restarts = 0 /\ "cl" \in Kinds)
    <2>1. Booked' BY <1>2, <1>15 DEF Booked
    <2> QED BY <1>10, <1>11, <1>12, <2>1 DEF BalanceInv
  <1> QED BY <1>10, <1>11, <1>12, <1>14, <1>15 DEF BalanceInv

LEMMA EmptyKeeps ==
  ASSUME BalanceSettings, BalanceInv, EmptyRecorded
  PROVE  BalanceInv'
  <1>1. Columns BY DEF BalanceInv
  <1>2. /\ handler.pc = "record" /\ handler.todo = {} /\ EmptyAccounts(handler.k)
        /\ handler' = IF handler.auto THEN [pc |-> "clear", k |-> handler.k] ELSE NoJob
        /\ UNCHANGED <<date, hist, histDates, credits, spent, req, expiry, expired, charged,
                       scan, restarts>>
    BY DEF EmptyRecorded
  <1>3. handler.k \in Kinds BY <1>1, <1>2, LoopKinds
  <1>4. /\ cl' \in [Owners -> ClRow \cup {NoAccount}]
        /\ el' \in [Owners -> Int \cup {NoAccount}]
        /\ zeroed' \in [Owners -> [Kinds -> Nat]]
        /\ \A u \in Owners : zeroed'[u][handler.k] = zeroed[u][handler.k] + Balance(handler.k, u)
        /\ "cl" \in Kinds => \A u \in Owners : zeroed[u]["cl"] <= zeroed'[u]["cl"]
    BY <1>1, <1>2, <1>3, EmptyType
  <1>5. handler' \in Loop /\ handler'.pc \in {"clear", "idle"} BY <1>2, <1>3, Rest DEF Loop
  <1>6. CASE handler.k # "cl"
    BY <1>1, <1>2, <1>4, <1>5, <1>6, Still DEF Columns
  <1>7. CASE handler.k = "cl"
    <2>1. Columns' BY <1>1, <1>2, <1>4, <1>5 DEF Columns
    <2>2. Approving' BY <1>2, <1>5, ApprovalKept DEF BalanceInv
    <2>3. Pointed' /\ OnePointPerDay' BY <1>2, PointsKept DEF BalanceInv
    <2>4. ASSUME restarts = 0, NEW u \in Owners
          PROVE  expired'[u]["cl"] <=
                   zeroed'[u]["cl"] + (IF Recorded(u)' THEN 0 ELSE Balance("cl", u)')
      <3>1. ~ Recorded(u) BY <1>2, <1>7 DEF Recorded
      <3>2. expired[u]["cl"] <= zeroed[u]["cl"] + Balance("cl", u)
        BY <1>3, <1>7, <2>4, <3>1 DEF BalanceInv, Booked
      <3>3. expired[u]["cl"] <= zeroed'[u]["cl"] BY <1>4, <1>7, <3>2
      <3>4. Recorded(u)' BY <1>5 DEF Recorded
      <3>5. zeroed'[u]["cl"] \in Nat BY <1>3, <1>4, <1>7
      <3> QED BY <1>2, <3>3, <3>4, <3>5
    <2>5. Booked' BY <1>2, <1>5, <2>4 DEF Booked
    <2> QED BY <2>1, <2>2, <2>3, <2>5 DEF BalanceInv
  <1> QED BY <1>6, <1>7

\* The end of a day, when no scan is under way, and a restart.
LEMMA ClockKeeps ==
  ASSUME BalanceSettings, BalanceInv, NextDate \/ Restart
  PROVE  BalanceInv'
  <1>1. Columns BY DEF BalanceInv
  <1>2. CASE NextDate
    <2>1. /\ date < MaxDate /\ date' = date + 1 /\ \A u \in Owners : scan[u] = NoJob
          /\ UNCHANGED <<cl, el, hist, histDates, credits, spent, req, expiry, expired,
                         zeroed, charged, scan, handler, restarts>>
      BY <1>2 DEF NextDate, balances
    <2>2. date' \in Dates BY <1>1, <2>1 DEF Columns, Dates, BalanceSettings
    <2>3. Columns' BY <1>1, <2>1, <2>2 DEF Columns
    <2>4. Approving' BY <2>1 DEF BalanceInv, Approving
    <2>5. Pointed' /\ OnePointPerDay'
      BY <2>1, Rest DEF BalanceInv, Pointed, OnePointPerDay
    <2>6. Booked' BY <2>1, ListKept DEF BalanceInv
    <2> QED BY <2>3, <2>4, <2>5, <2>6 DEF BalanceInv
  <1>3. CASE Restart
    <2>1. /\ restarts < MaxRestarts /\ restarts' = restarts + 1
          /\ handler' = NoJob /\ scan' = [u \in Owners |-> NoJob]
          /\ UNCHANGED <<date, cl, el, hist, histDates, credits, spent, req, expiry, expired,
                         zeroed, charged>>
      BY <1>3 DEF Restart, balances
    <2>2. restarts \in Nat /\ restarts' \in 0 .. MaxRestarts /\ restarts' # 0
      BY <1>1, <2>1 DEF Columns, BalanceSettings
    <2>3. handler' \in Loop /\ scan' \in [Owners -> Scan] /\ handler'.pc = "idle"
      BY <2>1, Rest DEF Loop, Scan
    <2>4. Columns' BY <1>1, <2>1, <2>2, <2>3 DEF Columns
    <2>5. Approving'
      <3> SUFFICES ASSUME NEW r \in Requests
                   PROVE  charged[r] <= restarts' + (IF req[r].st = "approved" THEN 1 ELSE 0)
        BY <2>1, <2>3 DEF Approving
      <3>1. charged[r] <= restarts + (IF \/ req[r].st = "approved"
                                         \/ handler.pc = "finish" /\ handler.r = r THEN 1 ELSE 0)
        BY DEF BalanceInv, Approving
      <3>2. charged[r] \in Nat BY <1>1 DEF Columns
      <3>3. charged[r] <= restarts + 1 BY <2>2, <3>1, <3>2
      <3> QED BY <2>1, <2>2, <3>2, <3>3
    <2>6. \A u \in Owners : scan'[u].pc = "log" => scan[u].pc = "log" BY <2>1, Rest
    <2>7. Pointed' /\ OnePointPerDay' BY <2>1, <2>6, PointsKept DEF BalanceInv
    <2>8. Booked' BY <2>2 DEF Booked
    <2> QED BY <2>4, <2>5, <2>7, <2>8 DEF BalanceInv
  <1> QED BY <1>2, <1>3

-----------------------------------------------------------------------------
LEMMA NextBalance ==
  ASSUME BalanceSettings, BalanceInv, [BalanceNext]_balanceVars
  PROVE  BalanceInv'
  <1>1. ASSUME NEW u \in Owners, InitCl(u) \/ UseCl(u) \/ \E a, c \in Targets : AdjustCl(u, a, c)
        PROVE  BalanceInv'
    BY <1>1, CasualKeeps
  <1>2. ASSUME NEW u \in Owners, "el" \in Kinds,
               EnsureEl(u) \/ DeleteEl(u) \/ \E t \in Targets : AdjustRead(u, t)
        PROVE  BalanceInv'
    BY <1>2, EarnedKeeps
  <1>3. ASSUME NEW u \in Owners,
               CreditCheck(u) \/ CreditLog(u) \/ CreditRead(u) \/ CreditWrite(u)
        PROVE  BalanceInv'
    BY <1>3, CreditKeeps
  <1>4. ASSUME NEW r \in Requests, Close(r) \/ \E t \in Kinds, d \in Days : Submit(r, t, d) \/ Update(r, t, d)
        PROVE  BalanceInv'
    BY <1>4, RequestKeeps
  <1>5. ASSUME NEW r \in Requests, Approve(r) PROVE BalanceInv' BY <1>5, ApproveKeeps
  <1>6. CASE \E k \in Kinds : ReachExpiry(k) \/ DailyExpiry(k) BY <1>6, ExpiryDateKeeps
  <1>7. CASE \E k \in Kinds, auto \in BOOLEAN : StartExpiry(k, auto) BY <1>7, StartExpiryKeeps
  <1>8. CASE SyncRead BY <1>8, AdjustKeeps
  <1>9. CASE Busy
    BY <1>9, AdjustKeeps, ChargeKeeps, FinishKeeps, RecordKeeps, EmptyKeeps, ExpiryDateKeeps
       DEF Busy
  <1>10. CASE NextDate \/ Restart BY <1>10, ClockKeeps
  <1>11. CASE UNCHANGED balanceVars
    <2>1. UNCHANGED <<date, cl, el, hist, histDates, credits, spent, req, expiry, expired,
                      zeroed, charged, scan, handler, restarts>>
      BY <1>11 DEF balanceVars, balances
    <2>2. Columns' BY <2>1 DEF BalanceInv, Columns
    <2>3. Approving' BY <2>1 DEF BalanceInv, Approving
    <2>4. Pointed' /\ OnePointPerDay' BY <2>1, PointsKept DEF BalanceInv
    <2>5. Booked' BY <2>1, ListKept DEF BalanceInv
    <2> QED BY <2>2, <2>3, <2>4, <2>5 DEF BalanceInv
  <1> QED BY <1>1, <1>2, <1>3, <1>4, <1>5, <1>6, <1>7, <1>8, <1>9, <1>10, <1>11 DEF BalanceNext

LEMMA BalanceHolds ==
  ASSUME BalanceSettings
  PROVE  BalanceSpec => []BalanceInv
  <1>1. BalanceInit => BalanceInv BY InitBalance
  <1>2. BalanceInv /\ [BalanceNext]_balanceVars => BalanceInv' BY NextBalance
  <1> QED BY <1>1, <1>2, PTL DEF BalanceSpec

-----------------------------------------------------------------------------
(***************************************************************************)
(* The theorems.  BalanceSettings says that amounts are natural numbers,   *)
(* days positive, and each request somebody's.                             *)
(***************************************************************************)
\* The columns stay within their types.
THEOREM BalanceTypes == ASSUME BalanceSettings PROVE BalanceSpec => []BalanceTypeOK
  <1>1. ASSUME Columns PROVE BalanceTypeOK
    <2>1. \A u \in Owners : (cl[u] = NoAccount \/ cl[u] \in ClRow) /\ (el[u] = NoAccount \/ el[u] \in Int)
      BY <1>1 DEF Columns
    <2>2. \A u \in Owners : scan[u] \in Scan BY <1>1 DEF Columns
    <2>3. \A u \in Owners : scan[u].pc \in {"idle", "log", "read", "write"}
      BY <2>2 DEF Scan, NoJob
    <2>4. handler.pc \in {"idle", "charge", "deduct", "finish", "adjust", "history",
                          "sync", "record", "clear"}
      BY <1>1 DEF Columns, Loop, NoJob
    <2> QED BY <1>1, <2>1, <2>3, <2>4 DEF Columns, BalanceTypeOK
  <1>2. BalanceInv => BalanceTypeOK BY <1>1 DEF BalanceInv
  <1> QED BY <1>2, BalanceHolds, PTL

\* A request is charged at most once (admin_approve_leave_request), and only
\* when it is approved; each restart can add one more charge.
THEOREM ChargedOnceSafe == ASSUME BalanceSettings PROVE BalanceSpec => []ChargedOnce
  <1>1. ASSUME BalanceInv PROVE ChargedOnce
    <2> SUFFICES ASSUME NEW r \in Requests
                 PROVE  charged[r] <= restarts + (IF req[r].st = "approved" \/ handler # NoJob THEN 1 ELSE 0)
      BY DEF ChargedOnce
    <2>1. handler.pc = "finish" => handler # NoJob BY Rest
    <2>2. charged[r] \in Nat /\ restarts \in Nat BY <1>1 DEF BalanceInv, Columns
    <2> QED BY <1>1, <2>1, <2>2 DEF BalanceInv, Approving
  <1> QED BY <1>1, BalanceHolds, PTL

\* A scan earns at most one point a day (_secure_verify_and_mark), whatever
\* the endpoints write between its check and its log entry.
THEOREM PointSafe == ASSUME BalanceSettings PROVE BalanceSpec => []OnePointPerDay
  <1>1. BalanceInv => OnePointPerDay BY DEF BalanceInv
  <1> QED BY <1>1, BalanceHolds, PTL

\* expired_leaves never lists more casual leave than the expiries took, in a
\* process that has not been restarted.
THEOREM RecordedSafe == ASSUME BalanceSettings PROVE BalanceSpec => []RecordedWasTaken
  <1>1. ASSUME BalanceInv PROVE RecordedWasTaken
    <2> SUFFICES ASSUME restarts = 0, handler = NoJob, NEW u \in Owners, NEW k \in Kinds \ {"el"}
                 PROVE  expired[u][k] <= zeroed[u][k]
      BY DEF RecordedWasTaken
    <2>1. k = "cl" /\ "cl" \in Kinds BY DEF BalanceSettings
    <2>2. Recorded(u) BY Rest DEF Recorded
    <2>3. expired[u]["cl"] <= zeroed[u]["cl"] + 0 BY <1>1, <2>1, <2>2 DEF BalanceInv, Booked
    <2>4. expired[u]["cl"] \in Nat /\ zeroed[u]["cl"] \in Nat
      BY <1>1, <2>1 DEF BalanceInv, Columns
    <2> QED BY <2>1, <2>3, <2>4
  <1> QED BY <1>1, BalanceHolds, PTL

\* The balances are what requests, points and expiries come to: the three above.
THEOREM BooksSafe == ASSUME BalanceSettings PROVE BalanceSpec => []BalanceBooks
  <1>1. BalanceSpec => []ChargedOnce BY ChargedOnceSafe
  <1>2. BalanceSpec => []OnePointPerDay BY PointSafe
  <1>3. BalanceSpec => []RecordedWasTaken BY RecordedSafe
  <1>4. ChargedOnce /\ OnePointPerDay /\ RecordedWasTaken => BalanceBooks BY DEF BalanceBooks
  <1> QED BY <1>1, <1>2, <1>3, <1>4, PTL

\* An approved or rejected request stays what it is, whatever approval was
\* under way when it was decided.
THEOREM DecisionsStand == ASSUME BalanceSettings PROVE BalanceSpec => [][DecisionStands]_balanceVars
  <1>1. ASSUME BalanceInv, [BalanceNext]_balanceVars PROVE [DecisionStands]_balanceVars
    <2>1. CASE req' = req BY <2>1 DEF DecisionStands
    <2>2. ASSUME NEW r \in Requests, Close(r) \/ \E t \in Kinds, d \in Days : Submit(r, t, d) \/ Update(r, t, d)
          PROVE  DecisionStands
      <3>1. /\ req[r].st \in {"none", "pending"}
            /\ \A q \in Requests \ {r} : req'[q] = req[q]
        BY <1>1, <2>2 DEF Close, Submit, Update, BalanceInv, Columns
      <3> QED BY <3>1 DEF DecisionStands
    <2>3. CASE FinishApproval
      <3>1. /\ req[handler.r].st = "pending"
            /\ \A q \in Requests \ {handler.r} : req'[q] = req[q]
        BY <1>1, <2>3 DEF FinishApproval, BalanceInv, Approving, Columns
      <3> QED BY <3>1 DEF DecisionStands
    <2> QED
      BY <1>1, <2>1, <2>2, <2>3
      DEF BalanceNext, Busy, InitCl, UseCl, AdjustCl, EnsureEl, DeleteEl, CreditCheck, CreditLog,
          CreditRead, CreditWrite, AdjustRead, Approve, ReachExpiry, DailyExpiry, StartExpiry,
          SyncRead, NextDate, Restart, AdjustWrite, AdjustHistory, SyncWrite, Charge, Deduct,
          RecordExpiry, EmptyRecorded, ClearExpiry, balanceVars
  <1> QED BY <1>1, BalanceHolds, PTL DEF BalanceSpec

-----------------------------------------------------------------------------
(***************************************************************************)
(* Accounts: who is deleted leaves nothing behind.                         *)
(***************************************************************************)
\* A user name and a number belong to one row of a table.
Unique(A) == \A a, b \in A : a.tab = b.tab /\ (a.user = b.user \/ a.reg = b.reg) => a = b

AccInv == AccTypeOK /\ IsFiniteSet(accounts)

LEMMA LeastFree ==
  ASSUME NEW S \in SUBSET Nat, S # {}
  PROVE  Min(S) \in S
  <1> DEFINE R == {r \in Nat \X Nat : r[1] < r[2]}
  <1>1. \A x \in Nat, y \in Nat : <<x, y>> \in R <=> x < y OBVIOUS
  <1>2. IsWellFoundedOn(R, Nat) BY NatLessThanWellFounded DEF OpToRel
  <1> HIDE DEF R
  <1>3. PICK x \in S : \A y \in S : ~ (<<y, x>> \in R) BY <1>2, WFMin
  <1>4. \A y \in S : x =< y
    <2> TAKE y \in S
    <2>1. x \in Nat /\ y \in Nat /\ ~ (y < x) BY <1>1, <1>3
    <2> QED BY <2>1
  <1> QED BY <1>4 DEF Min

\* A row whose user name and number are new to its table.
LEMMA Joins ==
  ASSUME NEW A \in SUBSET Account, Unique(A), IsFiniteSet(A), NEW x \in Account,
         \A a \in A : a.tab = x.tab => a.user # x.user /\ a.reg # x.reg
  PROVE  /\ Unique(A \cup {x}) /\ A \cup {x} \in SUBSET Account
         /\ IsFiniteSet(A \cup {x})
  <1>1. IsFiniteSet(A \cup {x}) BY FS_AddElement
  <1>2. Unique(A \cup {x}) BY DEF Unique
  <1> QED BY <1>1, <1>2

\* A row that takes the place of another.
LEMMA Replaces ==
  ASSUME NEW A \in SUBSET Account, Unique(A), IsFiniteSet(A), NEW o \in A, NEW x \in Account,
         \A a \in A \ {o} : a.tab = x.tab => a.user # x.user /\ a.reg # x.reg
  PROVE  /\ Unique((A \ {o}) \cup {x}) /\ (A \ {o}) \cup {x} \in SUBSET Account
         /\ IsFiniteSet((A \ {o}) \cup {x})
  <1>1. Unique(A \ {o}) BY DEF Unique
  <1>2. IsFiniteSet(A \ {o}) BY FS_RemoveElement
  <1>3. A \ {o} \in SUBSET Account OBVIOUS
  <1> QED BY <1>1, <1>2, <1>3, Joins

\* A number counted up from one, of any role.
LEMMA NumberIn ==
  ASSUME AccountsAssumption, NEW role, NEW n \in 1 .. MaxNum
  PROVE  <<Prefix(role), n>> \in Reg
  BY DEF Prefix, Reg

\* The numbers that NextReg, LowestReg and AddRow hand out are free in the table.
LEMMA NextRegFree ==
  ASSUME AccountsAssumption, AccInv, NEW tab, NEW role, NEW reg \in NextReg(tab, role)
  PROVE  reg \in Reg /\ \A a \in accounts : a.tab = tab => a.reg # reg
  <1> DEFINE count == Cardinality({a \in Of(tab) : a.role = role})
             free  == {n \in (count + 1) .. MaxNum : <<Prefix(role), n>> \notin {a.reg : a \in Of(tab)}}
  <1>1. count \in Nat
    <2>1. {a \in Of(tab) : a.role = role} \in SUBSET accounts BY DEF Of
    <2>2. IsFiniteSet({a \in Of(tab) : a.role = role}) BY <2>1, FS_Subset DEF AccInv
    <2> QED BY <2>2, FS_CardinalityType
  <1>2. NextReg(tab, role) = IF free = {} THEN {} ELSE {<<Prefix(role), Min(free)>>} BY DEF NextReg
  <1> HIDE DEF count
  <1>3. free \in SUBSET Nat /\ free \subseteq 1 .. MaxNum BY <1>1 DEF AccountsAssumption
  <1>4. free # {} /\ reg = <<Prefix(role), Min(free)>> BY <1>2
  <1> DEFINE n == Min(free)
  <1>5. n \in free BY <1>3, <1>4, LeastFree
  <1>6. n \in 1 .. MaxNum /\ <<Prefix(role), n>> \notin {a.reg : a \in Of(tab)} BY <1>3, <1>5
  <1>7. reg = <<Prefix(role), n>> BY <1>4
  <1> HIDE DEF n, free
  <1>8. reg \in Reg BY <1>6, <1>7, NumberIn
  <1> QED BY <1>6, <1>7, <1>8 DEF Of

LEMMA LowestRegFree ==
  ASSUME AccountsAssumption, NEW role, NEW reg \in LowestReg(role)
  PROVE  reg \in Reg /\ \A a \in accounts : a.tab = "users" => a.reg # reg
  <1> DEFINE free == {n \in 1 .. MaxNum : <<Prefix(role), n>> \notin {a.reg : a \in Of("users")}}
  <1>2. LowestReg(role) = IF free = {} THEN {} ELSE {<<Prefix(role), Min(free)>>} BY DEF LowestReg
  <1>3. free \in SUBSET Nat /\ free \subseteq 1 .. MaxNum BY DEF AccountsAssumption
  <1>4. free # {} /\ reg = <<Prefix(role), Min(free)>> BY <1>2
  <1> DEFINE n == Min(free)
  <1>5. n \in free BY <1>3, <1>4, LeastFree
  <1>6. n \in 1 .. MaxNum /\ <<Prefix(role), n>> \notin {a.reg : a \in Of("users")} BY <1>3, <1>5
  <1>7. reg = <<Prefix(role), n>> BY <1>4
  <1> HIDE DEF n, free
  <1>8. reg \in Reg BY <1>6, <1>7, NumberIn
  <1> QED BY <1>6, <1>7, <1>8 DEF Of

-----------------------------------------------------------------------------
\* What an upload has written so far is a table of accounts, and nobody is gone.
Good(acc) ==
  /\ acc \in [accounts : SUBSET Account, depts : SUBSET Depts]
  /\ Unique(acc.accounts) /\ IsFiniteSet(acc.accounts) /\ accounts \subseteq acc.accounts

Line == [user : Names, role : Roles, dept : Depts]

LEMMA AddRowGood ==
  ASSUME AccountsAssumption, NEW acc, Good(acc), NEW tab \in Tab, NEW r \in Line
  PROVE  Good(AddRow(acc, tab, r))
  <1> DEFINE mine  == {a \in acc.accounts : a.tab = tab}
             count == Cardinality({a \in mine : a.role = r.role})
             free  == {n \in (count + 1) .. MaxNum : <<Prefix(r.role), n>> \notin {a.reg : a \in mine}}
             new   == [tab |-> tab, reg |-> <<Prefix(r.role), Min(free)>>, user |-> r.user,
                       role |-> r.role, dept |-> r.dept]
             skip  == free = {} \/ \E a \in mine : a.user = r.user
  <1>1. AddRow(acc, tab, r) = IF skip THEN acc ELSE [acc EXCEPT !.accounts = acc.accounts \cup {new}]
    BY DEF AddRow
  <1>2. CASE skip BY <1>1, <1>2
  <1>3. CASE ~skip
    <2>1. count \in Nat
      <3>1. {a \in mine : a.role = r.role} \in SUBSET acc.accounts OBVIOUS
      <3>2. IsFiniteSet({a \in mine : a.role = r.role}) BY <3>1, FS_Subset DEF Good
      <3> QED BY <3>2, FS_CardinalityType
    <2> HIDE DEF count
    <2>2. free \in SUBSET Nat /\ free \subseteq 1 .. MaxNum BY <2>1 DEF AccountsAssumption
    <2> DEFINE n == Min(free)
    <2>3. n \in free BY <1>3, <2>2, LeastFree
    <2>4. n \in 1 .. MaxNum /\ <<Prefix(r.role), n>> \notin {a.reg : a \in mine} BY <2>2, <2>3
    <2> DEFINE reg == <<Prefix(r.role), n>>
    <2>5. reg \in Reg BY <2>4, NumberIn
    <2>6. new = [tab |-> tab, reg |-> reg, user |-> r.user, role |-> r.role, dept |-> r.dept] OBVIOUS
    <2>7. reg \notin {a.reg : a \in mine} BY <2>4
    <2> HIDE DEF n, reg, free
    <2>8. new \in Account BY <2>5, <2>6 DEF Account, Line
    <2>9. \A a \in acc.accounts : a.tab = new.tab => a.user # new.user /\ a.reg # new.reg
      <3> TAKE a \in acc.accounts
      <3> HAVE a.tab = new.tab
      <3>1. new.tab = tab /\ new.reg = reg /\ new.user = r.user BY <2>6
      <3>2. a \in mine BY <3>1
      <3>3. a.user # r.user BY <1>3, <3>2
      <3>4. a.reg # reg BY <2>7, <3>2
      <3> QED BY <3>1, <3>3, <3>4
    <2> HIDE DEF new, mine, skip
    <2> DEFINE A == acc.accounts
    <2>10. A \in SUBSET Account /\ Unique(A) /\ IsFiniteSet(A) /\ accounts \subseteq A BY DEF Good
    <2>11. \A a \in A : a.tab = new.tab => a.user # new.user /\ a.reg # new.reg BY <2>9
    <2>12. acc \in [accounts : SUBSET Account, depts : SUBSET Depts] BY DEF Good
    <2>13. AddRow(acc, tab, r) = [acc EXCEPT !.accounts = A \cup {new}] BY <1>1, <1>3
    <2> HIDE DEF A
    <2>14. Unique(A \cup {new}) /\ A \cup {new} \in SUBSET Account /\ IsFiniteSet(A \cup {new})
      BY <2>8, <2>10, <2>11, Joins
    <2> QED BY <2>10, <2>12, <2>13, <2>14 DEF Good
  <1> QED BY <1>2, <1>3

LEMMA AddDeptGood ==
  ASSUME NEW acc, Good(acc), NEW d \in Depts PROVE Good(AddDept(acc, d))
  BY DEF Good, AddDept

LEMMA BulkRowGood ==
  ASSUME AccountsAssumption, NEW acc, Good(acc), NEW r \in Line PROVE Good(BulkRow(acc, r))
  BY AddRowGood DEF BulkRow, Tab

LEMMA UserRowGood ==
  ASSUME AccountsAssumption, NEW acc, Good(acc), NEW r \in Line PROVE Good(UserRow(acc, r))
  <1>1. r.dept \in Depts BY DEF Line
  <1>2. Good(AddDept(acc, r.dept)) BY <1>1, AddDeptGood
  <1>3. Good(AddRow(AddDept(acc, r.dept), "users", r)) BY <1>2, AddRowGood DEF Tab
  <1> QED BY <1>3 DEF UserRow

LEMMA OtherRowGood ==
  ASSUME AccountsAssumption, NEW acc, Good(acc), NEW r \in Line PROVE Good(OtherRow(acc, r))
  <1>1. r.dept \in Depts BY DEF Line
  <1>2. Good(AddDept(acc, r.dept)) BY <1>1, AddDeptGood
  <1>3. Good(AddRow(AddDept(acc, r.dept), "other_staff", r)) BY <1>2, AddRowGood DEF Tab
  <1> QED BY <1>3 DEF OtherRow

\* A file leaves good tables, and the caches as they were or as a stop leaves them.
Filed ==
  /\ Good([accounts |-> accounts', depts |-> depts'])
  /\ UNCHANGED <<data, left>>
  /\ UNCHANGED <<faces, listed, acting>> \/ Stop

LEMMA Start == ASSUME AccInv PROVE Good([accounts |-> accounts, depts |-> depts])
  BY DEF AccInv, AccTypeOK, Good, Unique

LEMMA BulkFiled == ASSUME AccountsAssumption, AccInv, BulkCreate PROVE Filed
  <1>1. PICK u1 \in Names, u2 \in Names, d \in Depts, role \in Roles, n \in 0 .. 2 :
          LET line(u) == [user |-> u, role |-> role, dept |-> d]
              none == [accounts |-> accounts, depts |-> depts]
              res == CASE n = 0 -> none
                       [] n = 1 -> BulkRow(none, line(u1))
                       [] OTHER -> BulkRow(BulkRow(none, line(u1)), line(u2))
          IN /\ accounts' = res.accounts /\ depts' = res.depts
             /\ IF n = 2 THEN UNCHANGED <<faces, listed, acting>> ELSE Stop
    BY DEF BulkCreate, File
  <1> DEFINE l1 == [user |-> u1, role |-> role, dept |-> d]
             l2 == [user |-> u2, role |-> role, dept |-> d]
             none == [accounts |-> accounts, depts |-> depts]
             res == CASE n = 0 -> none
                      [] n = 1 -> BulkRow(none, l1)
                      [] OTHER -> BulkRow(BulkRow(none, l1), l2)
  <1>2. accounts' = res.accounts /\ depts' = res.depts BY <1>1
  <1>3. l1 \in Line /\ l2 \in Line BY DEF Line
  <1>4. Good(none) BY Start
  <1> HIDE DEF l1, l2, none
  <1>5. Good(BulkRow(none, l1)) BY <1>3, <1>4, BulkRowGood
  <1>6. Good(BulkRow(BulkRow(none, l1), l2)) BY <1>3, <1>5, BulkRowGood
  <1>7. Good(res) BY <1>4, <1>5, <1>6
  <1> HIDE DEF res
  <1>8. Good([accounts |-> accounts', depts |-> depts']) BY <1>2, <1>7 DEF Good
  <1>9. UNCHANGED <<data, left>> BY DEF BulkCreate, File
  <1> QED BY <1>1, <1>8, <1>9 DEF Filed

LEMMA UserFiled == ASSUME AccountsAssumption, AccInv, Upload PROVE Filed
  <1>1. PICK u1 \in Names, u2 \in Names, d \in Depts, role \in Roles, n \in 0 .. 2 :
          LET line(u) == [user |-> u, role |-> role, dept |-> d]
              none == [accounts |-> accounts, depts |-> depts]
              res == CASE n = 0 -> none
                       [] n = 1 -> UserRow(none, line(u1))
                       [] OTHER -> UserRow(UserRow(none, line(u1)), line(u2))
          IN /\ accounts' = res.accounts /\ depts' = res.depts
             /\ IF n = 2 THEN UNCHANGED <<faces, listed, acting>> ELSE Stop
    BY DEF Upload, File
  <1> DEFINE l1 == [user |-> u1, role |-> role, dept |-> d]
             l2 == [user |-> u2, role |-> role, dept |-> d]
             none == [accounts |-> accounts, depts |-> depts]
             res == CASE n = 0 -> none
                      [] n = 1 -> UserRow(none, l1)
                      [] OTHER -> UserRow(UserRow(none, l1), l2)
  <1>2. accounts' = res.accounts /\ depts' = res.depts BY <1>1
  <1>3. l1 \in Line /\ l2 \in Line BY DEF Line
  <1>4. Good(none) BY Start
  <1> HIDE DEF l1, l2, none
  <1>5. Good(UserRow(none, l1)) BY <1>3, <1>4, UserRowGood
  <1>6. Good(UserRow(UserRow(none, l1), l2)) BY <1>3, <1>5, UserRowGood
  <1>7. Good(res) BY <1>4, <1>5, <1>6
  <1> HIDE DEF res
  <1>8. Good([accounts |-> accounts', depts |-> depts']) BY <1>2, <1>7 DEF Good
  <1>9. UNCHANGED <<data, left>> BY DEF Upload, File
  <1> QED BY <1>1, <1>8, <1>9 DEF Filed

LEMMA OtherFiled == ASSUME AccountsAssumption, AccInv, OtherUpload PROVE Filed
  <1>1. PICK u1 \in Names, u2 \in Names, d \in Depts, role \in Roles, n \in 0 .. 2 :
          LET line(u) == [user |-> u, role |-> role, dept |-> d]
              none == [accounts |-> accounts, depts |-> depts]
              res == CASE n = 0 -> none
                       [] n = 1 -> OtherRow(none, line(u1))
                       [] OTHER -> OtherRow(OtherRow(none, line(u1)), line(u2))
          IN /\ accounts' = res.accounts /\ depts' = res.depts
             /\ IF n = 2 THEN UNCHANGED <<faces, listed, acting>> ELSE Stop
    BY DEF OtherUpload, File
  <1> DEFINE l1 == [user |-> u1, role |-> role, dept |-> d]
             l2 == [user |-> u2, role |-> role, dept |-> d]
             none == [accounts |-> accounts, depts |-> depts]
             res == CASE n = 0 -> none
                      [] n = 1 -> OtherRow(none, l1)
                      [] OTHER -> OtherRow(OtherRow(none, l1), l2)
  <1>2. accounts' = res.accounts /\ depts' = res.depts BY <1>1
  <1>3. l1 \in Line /\ l2 \in Line BY DEF Line
  <1>4. Good(none) BY Start
  <1> HIDE DEF l1, l2, none
  <1>5. Good(OtherRow(none, l1)) BY <1>3, <1>4, OtherRowGood
  <1>6. Good(OtherRow(OtherRow(none, l1), l2)) BY <1>3, <1>5, OtherRowGood
  <1>7. Good(res) BY <1>4, <1>5, <1>6
  <1> HIDE DEF res
  <1>8. Good([accounts |-> accounts', depts |-> depts']) BY <1>2, <1>7 DEF Good
  <1>9. UNCHANGED <<data, left>> BY DEF OtherUpload, File
  <1> QED BY <1>1, <1>8, <1>9 DEF Filed

-----------------------------------------------------------------------------
\* A new account has a user name and a number its table did not have.
LEMMA Inserted ==
  ASSUME AccInv, NEW tab \in Tab, NEW reg \in Reg, NEW user \in Names, NEW role \in Roles,
         NEW dept \in Depts, Insert(tab, reg, user, role, dept),
         \A a \in accounts : a.tab = tab => a.user # user /\ a.reg # reg,
         UNCHANGED <<data, depts, faces, listed, acting, left>>
  PROVE  AccInv' /\ Regs \subseteq Regs'
  <1> DEFINE x == [tab |-> tab, reg |-> reg, user |-> user, role |-> role, dept |-> dept]
  <1>1. accounts' = accounts \cup {x} BY DEF Insert
  <1>2. x \in Account BY DEF Account
  <1>3. \A a \in accounts : a.tab = x.tab => a.user # x.user /\ a.reg # x.reg OBVIOUS
  <1>4. accounts \in SUBSET Account /\ Unique(accounts) /\ IsFiniteSet(accounts)
    BY DEF AccInv, AccTypeOK, Unique
  <1> HIDE DEF x
  <1>5. /\ Unique(accounts \cup {x}) /\ accounts \cup {x} \in SUBSET Account
        /\ IsFiniteSet(accounts \cup {x})
    BY <1>2, <1>3, <1>4, Joins
  <1>6. AccInv' BY <1>1, <1>5 DEF AccInv, AccTypeOK, Unique
  <1> QED BY <1>1, <1>6 DEF Regs

LEMMA CreateUserTypes ==
  ASSUME AccountsAssumption, AccInv, CreateUser PROVE AccInv' /\ Regs \subseteq Regs'
  <1>1. PICK role \in Roles, dept \in Depts, user \in Names \ {a.user : a \in Of("users")} :
          \E reg \in NextReg("users", role) : Insert("users", reg, user, role, dept)
    BY DEF CreateUser
  <1>2. PICK reg \in NextReg("users", role) : Insert("users", reg, user, role, dept) BY <1>1
  <1>3. reg \in Reg /\ \A a \in accounts : a.tab = "users" => a.reg # reg BY NextRegFree
  <1>4. \A a \in accounts : a.tab = "users" => a.user # user BY DEF Of
  <1>5. UNCHANGED <<data, depts, faces, listed, acting, left>> BY DEF CreateUser
  <1> QED BY <1>2, <1>3, <1>4, <1>5, Inserted DEF Tab

LEMMA CreateOtherTypes ==
  ASSUME AccountsAssumption, AccInv, CreateOther PROVE AccInv' /\ Regs \subseteq Regs'
  <1>1. PICK dept \in Depts, user \in Names \ {a.user : a \in Of("other_staff")},
             reg \in NextReg("other_staff", "principal") :
               Insert("other_staff", reg, user, "principal", dept)
    BY DEF CreateOther
  <1>2. reg \in Reg /\ \A a \in accounts : a.tab = "other_staff" => a.reg # reg BY NextRegFree
  <1>3. \A a \in accounts : a.tab = "other_staff" => a.user # user BY DEF Of
  <1>4. UNCHANGED <<data, depts, faces, listed, acting, left>> /\ "principal" \in Roles
    BY DEF CreateOther, AccountsAssumption
  <1> QED BY <1>1, <1>2, <1>3, <1>4, Inserted DEF Tab

LEMMA HodCreateTypes ==
  ASSUME AccountsAssumption, AccInv, HodCreate PROVE AccInv' /\ Regs \subseteq Regs'
  <1>1. PICK hod \in Depts, user \in Names \ {a.user : a \in Of("users")} :
          \E want : \E reg \in IF want \in {a.reg : a \in Of("users")} THEN LowestReg("staff")
                                ELSE {want} \cap Reg :
                     Insert("users", reg, user, "staff", hod)
    BY DEF HodCreate
  <1>2. PICK want : \E reg \in IF want \in {a.reg : a \in Of("users")} THEN LowestReg("staff")
                                ELSE {want} \cap Reg :
                     Insert("users", reg, user, "staff", hod)
    BY <1>1
  <1>3. PICK reg \in IF want \in {a.reg : a \in Of("users")} THEN LowestReg("staff")
                     ELSE {want} \cap Reg :
            Insert("users", reg, user, "staff", hod)
    BY <1>2
  <1>4. reg \in Reg /\ \A a \in accounts : a.tab = "users" => a.reg # reg
    <2>1. CASE want \in {a.reg : a \in Of("users")} BY <2>1, LowestRegFree
    <2>2. CASE want \notin {a.reg : a \in Of("users")} BY <1>3, <2>2 DEF Of
    <2> QED BY <2>1, <2>2
  <1>5. \A a \in accounts : a.tab = "users" => a.user # user BY DEF Of
  <1>6. UNCHANGED <<data, depts, faces, listed, acting, left>> /\ "staff" \in Roles BY DEF HodCreate
  <1> QED BY <1>3, <1>4, <1>5, <1>6, Inserted DEF Tab

LEMMA FiledTypes ==
  ASSUME AccInv, Filed PROVE AccInv' /\ accounts \subseteq accounts'
  <1>1. Good([accounts |-> accounts', depts |-> depts']) BY DEF Filed
  <1>2. /\ accounts' \subseteq Account /\ depts' \subseteq Depts /\ Unique(accounts')
        /\ IsFiniteSet(accounts') /\ accounts \subseteq accounts'
    BY <1>1 DEF Good
  <1>3. Regs \subseteq Reg BY DEF Regs, Account, AccInv, AccTypeOK
  <1>4. /\ faces' \subseteq Reg /\ listed' \subseteq Depts /\ acting' \subseteq Reg \X Depts
        /\ data' \subseteq Row /\ left' \subseteq (Tables \cup {"faces"}) \X Reg
    BY <1>3 DEF Filed, Stop, AccInv, AccTypeOK
  <1> QED BY <1>2, <1>4 DEF AccInv, AccTypeOK, Unique

\* A row changed in place keeps the number, except for other staff.
LEMMA Rewritten ==
  ASSUME AccInv, NEW a \in accounts, NEW x \in Account,
         \A b \in accounts \ {a} : b.tab = x.tab => b.user # x.user /\ b.reg # x.reg,
         accounts' = (accounts \ {a}) \cup {x}, UNCHANGED <<data, depts, faces, listed, acting, left>>
  PROVE  AccInv' /\ (x.reg = a.reg => Regs \subseteq Regs')
  <1>1. accounts \in SUBSET Account /\ Unique(accounts) /\ IsFiniteSet(accounts)
    BY DEF AccInv, AccTypeOK, Unique
  <1>2. Unique(accounts') /\ accounts' \in SUBSET Account /\ IsFiniteSet(accounts')
    BY <1>1, Replaces
  <1>3. AccInv' BY <1>2 DEF AccInv, AccTypeOK, Unique
  <1>4. ASSUME x.reg = a.reg PROVE Regs \subseteq Regs'
    <2> SUFFICES ASSUME NEW b \in accounts PROVE b.reg \in Regs' BY DEF Regs
    <2>1. CASE b = a BY <1>4, <2>1 DEF Regs
    <2>2. CASE b # a BY <2>2 DEF Regs
    <2> QED BY <2>1, <2>2
  <1> QED BY <1>3, <1>4

LEMMA UpdateUserTypes == ASSUME AccInv, UpdateUser PROVE AccInv' /\ Regs \subseteq Regs'
  <1>1. PICK a \in Of("users"), dept \in Depts, user \in Names :
          /\ \A b \in Of("users") \ {a} : b.user # user
          /\ accounts' = (accounts \ {a}) \cup {[a EXCEPT !.dept = dept, !.user = user]}
    BY DEF UpdateUser
  <1> DEFINE x == [a EXCEPT !.dept = dept, !.user = user]
  <1>2. a \in accounts /\ a \in Account /\ a.tab = "users" BY DEF Of, AccInv, AccTypeOK
  <1>3. x \in Account /\ x.tab = a.tab /\ x.reg = a.reg /\ x.user = user BY <1>2 DEF Account
  <1> HIDE DEF x
  <1>4. \A b \in accounts \ {a} : b.tab = x.tab => b.user # x.user /\ b.reg # x.reg
    BY <1>1, <1>2, <1>3 DEF Of, AccInv, AccTypeOK
  <1>5. UNCHANGED <<data, depts, faces, listed, acting, left>> BY DEF UpdateUser
  <1>6. accounts' = (accounts \ {a}) \cup {x} BY <1>1 DEF x
  <1> QED BY <1>2, <1>3, <1>4, <1>5, <1>6, Rewritten

LEMMA HodUpdateTypes == ASSUME AccInv, HodUpdate PROVE AccInv' /\ Regs \subseteq Regs'
  <1>1. PICK a \in Of("users"), user \in Names :
          /\ \A b \in Of("users") \ {a} : b.user # user
          /\ accounts' = (accounts \ {a}) \cup {[a EXCEPT !.user = user]}
    BY DEF HodUpdate
  <1> DEFINE x == [a EXCEPT !.user = user]
  <1>2. a \in accounts /\ a \in Account /\ a.tab = "users" BY DEF Of, AccInv, AccTypeOK
  <1>3. x \in Account /\ x.tab = a.tab /\ x.reg = a.reg /\ x.user = user BY <1>2 DEF Account
  <1> HIDE DEF x
  <1>4. \A b \in accounts \ {a} : b.tab = x.tab => b.user # x.user /\ b.reg # x.reg
    BY <1>1, <1>2, <1>3 DEF Of, AccInv, AccTypeOK
  <1>5. UNCHANGED <<data, depts, faces, listed, acting, left>> BY DEF HodUpdate
  <1>6. accounts' = (accounts \ {a}) \cup {x} BY <1>1 DEF x
  <1> QED BY <1>2, <1>3, <1>4, <1>5, <1>6, Rewritten

LEMMA UpdateOtherTypes == ASSUME AccInv, UpdateOther PROVE AccInv'
  <1>1. PICK a \in Of("other_staff"), reg \in Reg, user \in Names, dept \in Depts :
          /\ \A b \in Of("other_staff") \ {a} : b.reg # reg /\ b.user # user
          /\ accounts' = (accounts \ {a}) \cup {[a EXCEPT !.reg = reg, !.user = user, !.dept = dept]}
    BY DEF UpdateOther
  <1> DEFINE x == [a EXCEPT !.reg = reg, !.user = user, !.dept = dept]
  <1>2. a \in accounts /\ a \in Account /\ a.tab = "other_staff" BY DEF Of, AccInv, AccTypeOK
  <1>3. x \in Account /\ x.tab = a.tab /\ x.reg = reg /\ x.user = user BY <1>2 DEF Account
  <1> HIDE DEF x
  <1>4. \A b \in accounts \ {a} : b.tab = x.tab => b.user # x.user /\ b.reg # x.reg
    BY <1>1, <1>2, <1>3 DEF Of
  <1>5. UNCHANGED <<data, depts, faces, listed, acting, left>> BY DEF UpdateOther
  <1>6. accounts' = (accounts \ {a}) \cup {x} BY <1>1 DEF x
  <1> QED BY <1>2, <1>3, <1>4, <1>5, <1>6, Rewritten

-----------------------------------------------------------------------------
\* The cascades: accounts go; a row or a face whose number has lost its account is
\* gone too, or among what is left; and nothing that was left is forgotten while
\* it is there.
Removed ==
  /\ accounts' \subseteq accounts /\ data' \subseteq data /\ faces' \subseteq faces
  /\ depts' \subseteq depts /\ listed' \in {listed, {}} /\ UNCHANGED acting
  /\ left' \subseteq (Tables \cup {"faces"}) \X Reg
  /\ \A r \in data' : r.tbl \in OwnRecords /\ r.reg \notin Regs' =>
       <<r.tbl, r.reg>> \in left' \/ (r.reg \notin Regs /\ (<<r.tbl, r.reg>> \in left => <<r.tbl, r.reg>> \in left'))
  /\ \A g \in faces' : g \notin Regs' =>
       <<"faces", g>> \in left' \/ (g \notin Regs /\ (<<"faces", g>> \in left => <<"faces", g>> \in left'))

LEMMA Listed == OwnRecords \subseteq TablesToPurge
  BY DEF OwnRecords, TablesToPurge

LEMMA LeftTypes ==
  ASSUME AccInv, NEW regs, NEW fail
  PROVE  LeftBy(regs, fail) \subseteq (Tables \cup {"faces"}) \X Reg
  <1> SUFFICES ASSUME NEW x \in LeftBy(regs, fail) PROVE x \in (Tables \cup {"faces"}) \X Reg
    OBVIOUS
  <1>1. CASE x \in left BY <1>1 DEF AccInv, AccTypeOK
  <1>2. CASE x \notin left
    <2>1. PICK d \in data : x = <<d.tbl, d.reg>> BY <1>2 DEF LeftBy
    <2>2. d.tbl \in Tables /\ d.reg \in Reg BY DEF AccInv, AccTypeOK, Row
    <2> QED BY <2>1, <2>2
  <1> QED BY <1>1, <1>2

\* A listed row of a purged number stays only where its statement failed, and what
\* is left of the other numbers is remembered.
LEMMA PurgeLeaves ==
  ASSUME NEW regs, NEW fail, NEW r \in Purged(data, regs, fail), r.tbl \in OwnRecords
  PROVE  /\ r.reg \in regs => <<r.tbl, r.reg>> \in LeftBy(regs, fail)
         /\ r.reg \notin regs /\ <<r.tbl, r.reg>> \in left => <<r.tbl, r.reg>> \in LeftBy(regs, fail)
  <1>1. r \in data /\ ~(r.tbl \in TablesToPurge /\ r.reg \in regs /\ <<"number", r.tbl>> \notin fail)
    BY DEF Purged
  <1>2. r.tbl \in TablesToPurge BY Listed
  <1>3. ASSUME r.reg \in regs PROVE <<r.tbl, r.reg>> \in LeftBy(regs, fail)
    <2>1. <<"number", r.tbl>> \in fail BY <1>1, <1>2, <1>3
    <2> QED BY <1>1, <1>3, <2>1 DEF LeftBy
  <1>4. ASSUME r.reg \notin regs, <<r.tbl, r.reg>> \in left PROVE <<r.tbl, r.reg>> \in LeftBy(regs, fail)
    BY <1>4 DEF LeftBy
  <1> QED BY <1>3, <1>4

LEMMA DeleteRemoves ==
  ASSUME AccInv, NEW a \in accounts, Delete(a) PROVE Removed
  <1>1. PICK fail : /\ accounts' = KeepAccounts({a.reg}, fail)
                    /\ data' = Purged(data, {a.reg}, fail)
                    /\ left' = LeftBy({a.reg}, fail)
    BY DEF Delete
  <1>2. /\ faces' = faces \ {a.reg} /\ UNCHANGED <<depts, listed, acting>> BY DEF Delete
  <1>3. accounts' \subseteq accounts /\ \A b \in accounts : b.reg # a.reg => b \in accounts'
    BY <1>1 DEF KeepAccounts
  <1>4. data' \subseteq data BY <1>1 DEF Purged
  <1>5. \A n \in Regs : n \in Regs' \/ n = a.reg BY <1>3 DEF Regs
  <1>6. ASSUME NEW r \in data', r.tbl \in OwnRecords, r.reg \notin Regs'
        PROVE  <<r.tbl, r.reg>> \in left' \/ (r.reg \notin Regs /\ (<<r.tbl, r.reg>> \in left => <<r.tbl, r.reg>> \in left'))
    BY <1>1, <1>5, <1>6, PurgeLeaves
  <1>7. ASSUME NEW g \in faces', g \notin Regs'
        PROVE  g \notin Regs /\ (<<"faces", g>> \in left => <<"faces", g>> \in left')
    BY <1>1, <1>2, <1>5, <1>7 DEF LeftBy
  <1> QED BY <1>1, <1>2, <1>3, <1>4, <1>6, <1>7, LeftTypes DEF Removed

LEMMA DeptRemoves == ASSUME AccInv, DeleteDept PROVE Removed
  <1>1. PICK d \in Depts, fail \in Failing({"collect", "number", "department"}) :
          LET regs == Collected(d, fail)
              missed == OfDept(d) \ regs
          IN /\ accounts' = {a \in KeepAccounts(regs, fail) :
                                a.dept = d => <<"department", a.tab>> \in fail}
             /\ data' = {r \in Purged(data, regs, fail) :
                            r.tbl \in DeptTablesToPurge /\ r.dept = d => <<"department", r.tbl>> \in fail}
             /\ depts' = depts \ {d}
             /\ faces' = faces \ regs
             /\ left' = LeftBy(regs, fail)
                       \cup {<<r.tbl, r.reg>> : r \in {q \in data : q.reg \in missed}}
                       \cup {<<"faces", g>> : g \in faces \cap missed}
    BY DEF DeleteDept
  <1> DEFINE regs   == Collected(d, fail)
             missed == OfDept(d) \ regs
             rows   == {<<r.tbl, r.reg>> : r \in {q \in data : q.reg \in missed}}
             seen   == {<<"faces", g>> : g \in faces \cap missed}
  <1>2. /\ accounts' = {a \in KeepAccounts(regs, fail) : a.dept = d => <<"department", a.tab>> \in fail}
        /\ data' \subseteq Purged(data, regs, fail) /\ depts' \subseteq depts /\ faces' = faces \ regs
        /\ left' = LeftBy(regs, fail) \cup rows \cup seen
    BY <1>1
  <1>3. listed' = {} /\ UNCHANGED acting BY DEF DeleteDept
  <1>4. \A b \in accounts : b.dept = d => b.reg \in regs \cup missed BY DEF OfDept
  <1> HIDE DEF regs, missed
  <1>5. accounts' \subseteq accounts /\ \A b \in accounts : b.reg \notin regs \cup missed => b \in accounts'
    BY <1>2, <1>4 DEF KeepAccounts
  <1>6. data' \subseteq data BY <1>2 DEF Purged
  <1>7. \A n \in Regs : n \in Regs' \/ n \in regs \/ n \in missed BY <1>5 DEF Regs
  <1>8. ASSUME NEW r \in data', r.tbl \in OwnRecords, r.reg \notin Regs'
        PROVE  <<r.tbl, r.reg>> \in left' \/ (r.reg \notin Regs /\ (<<r.tbl, r.reg>> \in left => <<r.tbl, r.reg>> \in left'))
    <2>1. CASE r.reg \in missed BY <1>2, <1>6, <2>1
    <2>2. CASE r.reg \notin missed
      <3>1. r \in Purged(data, regs, fail) BY <1>2
      <3>2. /\ r.reg \in regs => <<r.tbl, r.reg>> \in LeftBy(regs, fail)
            /\ r.reg \notin regs /\ <<r.tbl, r.reg>> \in left => <<r.tbl, r.reg>> \in LeftBy(regs, fail)
        BY <1>8, <3>1, PurgeLeaves
      <3> HIDE DEF rows, seen
      <3> QED BY <1>2, <1>7, <1>8, <2>2, <3>2
    <2> QED BY <2>1, <2>2
  <1>9. ASSUME NEW g \in faces', g \notin Regs'
        PROVE  <<"faces", g>> \in left' \/ (g \notin Regs /\ (<<"faces", g>> \in left => <<"faces", g>> \in left'))
    <2>1. g \in faces /\ g \notin regs BY <1>2
    <2>2. CASE g \in missed BY <1>2, <2>1, <2>2
    <2>3. CASE g \notin missed
      <3>1. g \notin Regs BY <1>7, <1>9, <2>1, <2>3
      <3>2. <<"faces", g>> \in left => <<"faces", g>> \in LeftBy(regs, fail) BY <2>1 DEF LeftBy
      <3> HIDE DEF rows, seen
      <3> QED BY <1>2, <3>1, <3>2
    <2> QED BY <2>2, <2>3
  <1>10. left' \subseteq (Tables \cup {"faces"}) \X Reg
    <2>1. rows \subseteq Tables \X Reg BY DEF AccInv, AccTypeOK, Row
    <2>2. seen \subseteq {"faces"} \X Reg BY DEF AccInv, AccTypeOK
    <2>3. LeftBy(regs, fail) \subseteq (Tables \cup {"faces"}) \X Reg BY LeftTypes
    <2> HIDE DEF rows, seen
    <2> QED BY <1>2, <2>1, <2>2, <2>3
  <1>11. faces' \subseteq faces BY <1>2
  <1> HIDE DEF rows, seen
  <1> QED BY <1>2, <1>3, <1>5, <1>6, <1>8, <1>9, <1>10, <1>11 DEF Removed

LEMMA Removals ==
  ASSUME AccInv, DeleteUser \/ DeleteOther \/ HodDelete \/ DeleteDept PROVE Removed
  <1>1. CASE DeleteUser \/ DeleteOther \/ HodDelete
    <2>1. \E a \in accounts : Delete(a) BY <1>1 DEF DeleteUser, DeleteOther, HodDelete, Of
    <2> QED BY <2>1, DeleteRemoves
  <1> QED BY <1>1, DeptRemoves

LEMMA RemovedSound ==
  ASSUME AccInv, Removed
  PROVE  AccInv' /\ (DeletedIsGone => DeletedIsGone')
  <1>1. IsFiniteSet(accounts') BY FS_Subset DEF AccInv, Removed
  <1>2. AccInv' BY <1>1 DEF AccInv, AccTypeOK, Removed
  <1>3. NoOrphans => NoOrphans'
    <2> SUFFICES ASSUME NoOrphans, NEW r \in data', r.tbl \in OwnRecords, r.reg \notin Regs'
                 PROVE  r.reg \in LeftIn(r.tbl)'
      BY DEF NoOrphans
    <2>1. r \in data /\ r.reg \in Reg BY DEF AccInv, AccTypeOK, Removed, Row
    <2>2. r.reg \in Regs \/ <<r.tbl, r.reg>> \in left BY <2>1 DEF NoOrphans, LeftIn
    <2>3. <<r.tbl, r.reg>> \in left' BY <2>2 DEF Removed
    <2> QED BY <2>1, <2>3 DEF LeftIn
  <1>4. CachedExists => CachedExists'
    <2> SUFFICES ASSUME CachedExists, NEW g \in faces', g \notin Regs'
                 PROVE  g \in LeftIn("faces")'
      BY DEF CachedExists
    <2>1. g \in faces /\ g \in Reg BY DEF AccInv, AccTypeOK, Removed
    <2>2. g \in Regs \/ <<"faces", g>> \in left BY <2>1 DEF CachedExists, LeftIn
    <2>3. <<"faces", g>> \in left' BY <2>2 DEF Removed
    <2> QED BY <2>1, <2>3 DEF LeftIn
  <1> QED BY <1>2, <1>3, <1>4 DEF DeletedIsGone

LEMMA RenameSound ==
  ASSUME AccInv, RenameDept PROVE AccInv' /\ (DeletedIsGone => DeletedIsGone')
  <1>1. PICK old \in Depts, new \in Depts \ depts, fail \in Failing({"department"}) :
          /\ depts' = (depts \ {old}) \cup {new}
          /\ accounts' = {[a EXCEPT !.dept =
                             IF a.dept = old /\ <<"department", a.tab>> \notin fail THEN new ELSE a.dept]
                             : a \in accounts}
          /\ data' = {[r EXCEPT !.dept =
                         IF r.tbl \in TablesToUpdate /\ (r.dept = old /\ <<"department", r.tbl>> \notin fail)
                         THEN new ELSE r.dept] : r \in data}
    BY DEF RenameDept
  <1>2. listed' = {} /\ UNCHANGED <<faces, acting, left>> BY DEF RenameDept
  <1> DEFINE Renames(tbl, dept) == dept = old /\ <<"department", tbl>> \notin fail
             f(a) == [a EXCEPT !.dept = IF Renames(a.tab, a.dept) THEN new ELSE a.dept]
             g(r) == [r EXCEPT !.dept =
                        IF r.tbl \in TablesToUpdate /\ Renames(r.tbl, r.dept) THEN new ELSE r.dept]
  <1>3. \A a \in accounts : /\ f(a) \in Account /\ f(a).tab = a.tab /\ f(a).reg = a.reg
                            /\ f(a).user = a.user
    <2> TAKE a \in accounts
    <2> DEFINE d == IF Renames(a.tab, a.dept) THEN new ELSE a.dept
    <2>1. a \in Account BY DEF AccInv, AccTypeOK
    <2>2. d \in Depts BY <2>1 DEF Account
    <2>3. f(a) = [a EXCEPT !.dept = d] OBVIOUS
    <2> HIDE DEF f, d
    <2> QED BY <2>1, <2>2, <2>3 DEF Account
  <1>4. \A r \in data : g(r) \in Row /\ g(r).tbl = r.tbl /\ g(r).reg = r.reg
    <2> TAKE r \in data
    <2> DEFINE d == IF r.tbl \in TablesToUpdate /\ Renames(r.tbl, r.dept) THEN new ELSE r.dept
    <2>1. r \in Row BY DEF AccInv, AccTypeOK
    <2>2. d \in Depts BY <2>1 DEF Row
    <2>3. g(r) = [r EXCEPT !.dept = d] OBVIOUS
    <2> HIDE DEF g, d
    <2> QED BY <2>1, <2>2, <2>3 DEF Row
  <1>5. accounts' = {f(a) : a \in accounts} /\ data' = {g(r) : r \in data} BY <1>1
  <1> HIDE DEF f, g
  <1>6. IsFiniteSet(accounts')
    <2> DEFINE F == [a \in accounts |-> f(a)]
    <2>1. F \in Surjection(accounts, accounts') BY <1>5 DEF Surjection
    <2> QED BY <2>1, FS_Surjection DEF AccInv
  <1>7. \A x \in accounts' : \E a \in accounts : x = f(a) BY <1>5
  <1>8. Unique(accounts')
    <2> SUFFICES ASSUME NEW x \in accounts', NEW y \in accounts', x.tab = y.tab,
                        x.user = y.user \/ x.reg = y.reg
                 PROVE  x = y
      BY DEF Unique
    <2>1. PICK a \in accounts : x = f(a) BY <1>7
    <2>2. PICK b \in accounts : y = f(b) BY <1>7
    <2>3. a = b BY <1>3, <2>1, <2>2 DEF AccInv, AccTypeOK
    <2> QED BY <2>1, <2>2, <2>3
  <1>9. accounts' \subseteq Account /\ data' \subseteq Row BY <1>3, <1>4, <1>5
  <1>10. depts' \subseteq Depts BY <1>1 DEF AccInv, AccTypeOK
  <1>11. AccInv' BY <1>2, <1>6, <1>8, <1>9, <1>10 DEF AccInv, AccTypeOK, Unique
  <1>12. Regs \subseteq Regs' BY <1>3, <1>5 DEF Regs
  <1>13. NoOrphans => NoOrphans' BY <1>2, <1>4, <1>5, <1>12 DEF NoOrphans, LeftIn
  <1>14. CachedExists => CachedExists' BY <1>2, <1>12 DEF CachedExists, LeftIn
  <1> QED BY <1>11, <1>13, <1>14 DEF DeletedIsGone

-----------------------------------------------------------------------------
LEMMA AccStarts == AccInit => AccInv /\ DeletedIsGone
  BY FS_EmptySet DEF AccInit, AccInv, AccTypeOK, DeletedIsGone, NoOrphans, CachedExists, LeftIn

LEMMA Grown ==
  ASSUME Regs \subseteq Regs', data' \subseteq data, faces' \subseteq faces \cup Regs,
         left \subseteq left', DeletedIsGone
  PROVE  DeletedIsGone'
  BY DEF DeletedIsGone, NoOrphans, CachedExists, LeftIn

LEMMA AccSteps ==
  ASSUME AccountsAssumption, AccInv, [AccNext]_accVars
  PROVE  AccInv' /\ ("renumber" \notin Features /\ DeletedIsGone => DeletedIsGone')
  <1>1. CASE CreateUser BY <1>1, CreateUserTypes, Grown DEF CreateUser
  <1>2. CASE CreateOther BY <1>2, CreateOtherTypes, Grown DEF CreateOther
  <1>3. CASE HodCreate BY <1>3, HodCreateTypes, Grown DEF HodCreate
  <1>4. CASE BulkCreate \/ Upload \/ OtherUpload
    <2>1. Filed BY <1>4, BulkFiled, UserFiled, OtherFiled
    <2>2. AccInv' /\ accounts \subseteq accounts' BY <2>1, FiledTypes
    <2>3. Regs \subseteq Regs' BY <2>2 DEF Regs
    <2>4. data' \subseteq data /\ faces' \subseteq faces \cup Regs /\ left \subseteq left'
      BY <2>1 DEF Filed, Stop
    <2> QED BY <2>2, <2>3, <2>4, Grown
  <1>5. CASE DeleteUser \/ DeleteOther \/ HodDelete \/ DeleteDept
    BY <1>5, Removals, RemovedSound
  <1>6. CASE UpdateUser BY <1>6, UpdateUserTypes, Grown DEF UpdateUser
  <1>7. CASE HodUpdate BY <1>7, HodUpdateTypes, Grown DEF HodUpdate
  <1>8. CASE UpdateOther BY <1>8, UpdateOtherTypes DEF UpdateOther
  <1>9. CASE AddData
    <2>1. PICK p \in acting, t \in Tables :
            /\ data' = data \cup {[tbl |-> t, reg |-> p[1], dept |-> p[2]]}
            /\ left' = Late(t, p[1])
            /\ acting' \in {acting, acting \ {p}}
      BY <1>9 DEF AddData
    <2>2. UNCHANGED <<accounts, depts, faces, listed>> BY <1>9 DEF AddData
    <2>3. p[1] \in Reg /\ p[2] \in Depts BY DEF AccInv, AccTypeOK
    <2> DEFINE x == [tbl |-> t, reg |-> p[1], dept |-> p[2]]
    <2>4. x \in Row /\ x.tbl = t /\ x.reg = p[1] BY <2>3 DEF Row
    <2>5. data' = data \cup {x} BY <2>1
    <2> HIDE DEF x
    <2>6. left \subseteq left' /\ left' \subseteq left \cup {<<t, p[1]>>} BY <2>1 DEF Late
    <2>7. left' \subseteq (Tables \cup {"faces"}) \X Reg BY <2>3, <2>6 DEF AccInv, AccTypeOK
    <2>8. AccInv' BY <2>1, <2>2, <2>4, <2>5, <2>7 DEF AccInv, AccTypeOK
    <2>9. Regs' = Regs BY <2>2 DEF Regs
    <2>10. p[1] \in Regs \/ <<t, p[1]>> \in left' BY <2>1 DEF Late
    <2>11. NoOrphans => NoOrphans' BY <2>3, <2>4, <2>5, <2>6, <2>9, <2>10 DEF NoOrphans, LeftIn
    <2>12. CachedExists => CachedExists' BY <2>2, <2>6, <2>9 DEF CachedExists, LeftIn
    <2> QED BY <2>8, <2>11, <2>12 DEF DeletedIsGone
  <1>10. CASE CacheFace
    <2>1. PICK p \in acting : /\ faces' = faces \cup {p[1]} /\ left' = Late("faces", p[1])
                              /\ acting' \in {acting, acting \ {p}}
      BY <1>10 DEF CacheFace
    <2>2. UNCHANGED <<accounts, data, depts, listed>> BY <1>10 DEF CacheFace
    <2>3. p[1] \in Reg /\ p[2] \in Depts BY DEF AccInv, AccTypeOK
    <2>6. left \subseteq left' /\ left' \subseteq left \cup {<<"faces", p[1]>>} BY <2>1 DEF Late
    <2>7. left' \subseteq (Tables \cup {"faces"}) \X Reg BY <2>3, <2>6 DEF AccInv, AccTypeOK
    <2>8. AccInv' BY <2>1, <2>2, <2>3, <2>7 DEF AccInv, AccTypeOK
    <2>9. Regs' = Regs BY <2>2 DEF Regs
    <2>10. p[1] \in Regs \/ <<"faces", p[1]>> \in left' BY <2>1 DEF Late
    <2>11. NoOrphans => NoOrphans' BY <2>2, <2>6, <2>9 DEF NoOrphans, LeftIn
    <2>12. CachedExists => CachedExists' BY <2>1, <2>3, <2>6, <2>9, <2>10 DEF CachedExists, LeftIn
    <2> QED BY <2>8, <2>11, <2>12 DEF DeletedIsGone
  <1>11. CASE CreateDept \/ UploadDepts \/ ListDepts
    <2>1. UNCHANGED <<accounts, data, faces, acting, left>>
      BY <1>11 DEF CreateDept, UploadDepts, ListDepts
    <2>2. depts' \subseteq Depts
      BY <1>11 DEF CreateDept, UploadDepts, ListDepts, AccInv, AccTypeOK
    <2>3. AllDepts \subseteq Depts BY DEF AllDepts, AccInv, AccTypeOK, Row
    <2>4. listed' \subseteq Depts
      BY <1>11, <2>3 DEF CreateDept, UploadDepts, ListDepts, AccInv, AccTypeOK
    <2>5. AccInv' BY <2>1, <2>2, <2>4 DEF AccInv, AccTypeOK
    <2>6. Regs' = Regs BY <2>1 DEF Regs
    <2> QED BY <2>1, <2>5, <2>6, Grown
  <1>12. CASE RenameDept BY <1>12, RenameSound
  <1>14. CASE LookUp
    <2>1. PICK a \in accounts : acting' = acting \cup {<<a.reg, a.dept>>} BY <1>14 DEF LookUp
    <2>2. UNCHANGED <<accounts, data, depts, faces, listed, left>> BY <1>14 DEF LookUp
    <2>3. a.reg \in Reg /\ a.dept \in Depts BY DEF AccInv, AccTypeOK, Account
    <2>4. AccInv' BY <2>1, <2>2, <2>3 DEF AccInv, AccTypeOK
    <2>5. Regs' = Regs BY <2>2 DEF Regs
    <2> QED BY <2>2, <2>4, <2>5, Grown
  <1>15. CASE AccountsRestart
    <2>1. UNCHANGED <<accounts, data, depts, left>> /\ acting' = {} /\ listed' = {}
          /\ faces' \subseteq Regs
      BY <1>15 DEF AccountsRestart, Stop
    <2>2. Regs \subseteq Reg BY DEF Regs, Account, AccInv, AccTypeOK
    <2>3. AccInv' BY <2>1, <2>2 DEF AccInv, AccTypeOK
    <2>4. Regs' = Regs BY <2>1 DEF Regs
    <2> QED BY <2>1, <2>3, <2>4, Grown
  <1>13. CASE UNCHANGED accVars
    BY <1>13 DEF accVars, AccInv, AccTypeOK, DeletedIsGone, NoOrphans, CachedExists, Regs, LeftIn
  <1> QED
    BY <1>1, <1>2, <1>3, <1>4, <1>5, <1>6, <1>7, <1>8, <1>9, <1>10, <1>11, <1>12, <1>13,
       <1>14, <1>15
    DEF AccNext

\* Every reachable state of accounts, departments and caches is well typed; in
\* particular a table never has two rows of one user name or one number.
THEOREM AccountTypes == ASSUME AccountsAssumption PROVE AccSpec => []AccTypeOK
  <1>1. AccInit => AccInv BY AccStarts
  <1>2. AccInv /\ [AccNext]_accVars => AccInv' BY AccSteps
  <1>3. AccInv => AccTypeOK BY DEF AccInv
  <1> QED BY <1>1, <1>2, <1>3, PTL DEF AccSpec

\* delete_user_data_by_reg_no, the deletion of a department and its renaming leave
\* no row of a person's tables and no cached face without its account, except what
\* a failed statement left or a request wrote whose account went meanwhile; this as
\* long as no number is changed (admin_update_other_staff leaves the rows under the
\* old one).
THEOREM GoneSafe ==
  ASSUME AccountsAssumption, "renumber" \notin Features PROVE AccSpec => []DeletedIsGone
  <1> DEFINE I == AccInv /\ DeletedIsGone
  <1>1. AccInit => I BY AccStarts
  <1>2. I /\ [AccNext]_accVars => I' BY AccSteps
  <1>3. I => DeletedIsGone OBVIOUS
  <1> QED BY <1>1, <1>2, <1>3, PTL DEF AccSpec

-----------------------------------------------------------------------------
(***************************************************************************)
(* StudentFace, for any requests in progress and numbers of captures: the  *)
(* lock on a registered face. FaceInv says that a permission which can     *)
(* still be used has not been used, or was used by a replacement counted   *)
(* in kept: while the column allows it, and while a submission that the    *)
(* check admitted is under way.  It follows the one job that writes faces; *)
(* the others delete, permit and forbid.                                   *)
(***************************************************************************)
\* Where a job holds a capture that it will write, and where it has written one
\* of a submission without taking the permission back.
Holding == {"s_form", "s_profile"}
Submitted == {"s_delete", "s_insert", "s_proto", "s_lock"}
Writing == Holding \cup Submitted \cup {"u_delete", "u_insert", "u_proto", "u_profile", "k_profile"}

\* One job writes faces: the others delete the student or toggle the permission.
OnlyWriter(w) ==
  w \in Job /\ \A j \in Job \ {w} : Does[j] \cap {"submit", "upload", "kiosk"} = {}

\* A permission is left that no replacement has used.
Unused == changes < grants + kept \/ grants = MaxFaces

Places == {"idle", "clear", "select", "fill", "t_write", "d_embs", "d_proto", "d_profile", "d_student", "d_evict"}
            \cup Writing
JobState == [pc : Places, face : Nat, first : BOOLEAN]

FaceTypes ==
  /\ can \in BOOLEAN /\ faceProfile \in Nat
  /\ captures \in 0 .. MaxFaces /\ grants \in 0 .. MaxFaces /\ changes \in Nat /\ kept \in Nat
  /\ jobs \in [Job -> JobState]

FaceInv(w) ==
  /\ FaceTypes
  /\ \A j \in Job : jobs[j].pc \in Writing => j = w
  /\ changes <= grants + kept /\ changes <= captures
  /\ jobs[w].pc \in Holding => changes < captures
  /\ jobs[w].pc \in Holding /\ jobs[w].first => ~Registered
  /\ can /\ ~Unlocked(w) => Unused
  /\ Registered /\ jobs[w].pc \in Holding => Unused

\* More on the right of a sum.
LEMMA SumGrows ==
  \A a, b, c, d \in Nat :
      b <= d => /\ (a <= b + c => a <= d + c) /\ (a <= c + b => a <= c + d)
                /\ (a < c + b => a < c + d) /\ (a <= c + b /\ d = b + 1 => a < c + d)
  OBVIOUS

LEMMA IdleIn == Idle \in JobState /\ Idle.pc = "idle"
  BY DEF Idle, JobState, Places

LEMMA FaceStarts == ASSUME FaceAssumption, NEW w, OnlyWriter(w), FaceInit PROVE FaceInv(w)
  <1>1. jobs = [j \in Job |-> Idle] /\ w \in Job BY DEF FaceInit, OnlyWriter
  <1>2. \A j \in Job : jobs[j].pc = "idle" BY <1>1, IdleIn
  <1>3. jobs \in [Job -> JobState] BY <1>1, IdleIn
  <1>4. can = FALSE /\ faceProfile = 0 /\ captures = 0 /\ grants = 0 /\ changes = 0 /\ kept = 0 BY DEF FaceInit
  <1>5. FaceTypes
    <2>1. can \in BOOLEAN BY <1>4
    <2>2. captures \in 0 .. MaxFaces /\ grants \in 0 .. MaxFaces /\ faceProfile \in Nat /\ changes \in Nat /\ kept \in Nat
      BY <1>4 DEF FaceAssumption
    <2> QED BY <1>3, <2>1, <2>2 DEF FaceTypes
  <1>6. "idle" \notin Writing /\ "idle" \notin Holding BY DEF Writing, Holding, Submitted
  <1> QED BY <1>1, <1>2, <1>4, <1>5, <1>6 DEF FaceInv

\* A step that leaves the counts, writes no capture and gives no permission
\* keeps all this, whatever it makes of a job that holds none.
Aside(j) ==
  /\ UNCHANGED <<captures, grants, changes, kept>>
  /\ faceProfile' \in {0, faceProfile} /\ (Registered' => Registered) /\ can' \in {FALSE, can}
  /\ \E n \in JobState :
        /\ n.pc \notin Writing /\ jobs[j].pc \notin Submitted
        /\ jobs' = [jobs EXCEPT ![j] = n]

LEMMA AsideKeeps == ASSUME NEW w \in Job, NEW j \in Job, FaceInv(w), Aside(j) PROVE FaceInv(w)'
  <1>1. PICK n \in JobState :
          n.pc \notin Writing /\ jobs' = [jobs EXCEPT ![j] = n] /\ jobs[j].pc \notin Submitted
    BY DEF Aside
  <1>2. \A i \in Job : jobs'[i] = IF i = j THEN n ELSE jobs[i] BY <1>1 DEF FaceInv, FaceTypes
  <1>3. FaceTypes'
    <2>1. jobs' \in [Job -> JobState] BY <1>1 DEF FaceInv, FaceTypes
    <2>2. can \in BOOLEAN /\ can' \in {FALSE, can} BY DEF FaceInv, FaceTypes, Aside
    <2>3. can' \in BOOLEAN BY <2>2
    <2>4. faceProfile' \in Nat BY DEF FaceInv, FaceTypes, Aside
    <2> QED BY <2>1, <2>3, <2>4 DEF FaceInv, FaceTypes, Aside
  <1>4. Unused' <=> Unused BY DEF Unused, Aside
  <1>5. \A i \in Job : jobs'[i].pc \in Writing => jobs'[i] = jobs[i] BY <1>1, <1>2
  <1>6. jobs'[w].pc \in Holding => jobs[w].pc \in Holding BY <1>5 DEF Writing
  <1>7. Unlocked(w) => Unlocked(w)' BY <1>1, <1>2 DEF Unlocked, Submitted
  <1>8. can' => can BY DEF Aside
  <1>9. jobs'[w].pc \in Holding => jobs'[w] = jobs[w] BY <1>5 DEF Writing
  <1> QED BY <1>3, <1>4, <1>5, <1>6, <1>7, <1>8, <1>9 DEF FaceInv, Aside

\* A step that leaves the jobs alone and gives no permission unless it counts it.
LEMMA VerdictKeeps == ASSUME FaceAssumption, NEW w \in Job, FaceInv(w), NEW S, NEW a \in BOOLEAN, FaceDecide(S, a)
                      PROVE  FaceInv(w)'
  <1>1. UNCHANGED <<faceProfile, jobs, captures, changes, kept, embs, proto>> BY DEF FaceDecide
  <1>2. can' \in BOOLEAN /\ (can' => can \/ a) BY DEF FaceDecide, FaceInv, FaceTypes
  <1>3. grants' = IF a THEN OneMore ELSE grants BY DEF FaceDecide
  <1>4. grants' \in 0 .. MaxFaces /\ grants <= grants' /\ (Unused => Unused') /\ (a => Unused')
    BY <1>1, <1>3 DEF OneMore, Unused, FaceInv, FaceTypes, FaceAssumption
  <1>5. (Registered' <=> Registered) /\ (Unlocked(w)' <=> Unlocked(w)) BY <1>1 DEF Registered, Unlocked
  <1>6. changes <= grants' + kept
    <2>1. /\ grants \in Nat /\ grants' \in Nat /\ grants <= grants' /\ kept \in Nat /\ changes \in Nat
          /\ changes <= grants + kept
      BY <1>4 DEF FaceInv, FaceTypes, FaceAssumption
    <2> QED BY <2>1, SumGrows
  <1> QED BY <1>1, <1>2, <1>4, <1>5, <1>6 DEF FaceInv, FaceTypes

LEMMA ToggleKeeps == ASSUME FaceAssumption, NEW w \in Job, FaceInv(w), NEW j \in Job, ToggleWrite(j)
                     PROVE  FaceInv(w)'
  <1> DEFINE a == jobs[j].first
  <1>1. UNCHANGED <<faceProfile, captures, changes, kept, embs, proto>> /\ jobs' = [jobs EXCEPT ![j] = Idle]
    BY DEF ToggleWrite
  <1>2. can' \in BOOLEAN /\ (can' => can \/ a) /\ a \in BOOLEAN
    <2>1. can \in BOOLEAN BY DEF FaceInv, FaceTypes
    <2>2. jobs[j] \in JobState BY DEF FaceInv, FaceTypes
    <2>3. a \in BOOLEAN BY <2>2 DEF JobState
    <2>4. can' = IF exists THEN a ELSE can BY DEF ToggleWrite
    <2> HIDE DEF a
    <2>5. CASE exists BY <2>3, <2>4, <2>5
    <2>6. CASE ~exists BY <2>1, <2>3, <2>4, <2>6
    <2> QED BY <2>5, <2>6
  <1>3. grants' = IF a THEN OneMore ELSE grants BY DEF ToggleWrite
  <1>4. grants' \in 0 .. MaxFaces /\ grants <= grants' /\ (Unused => Unused') /\ (a => Unused')
    BY <1>1, <1>2, <1>3 DEF OneMore, Unused, FaceInv, FaceTypes, FaceAssumption
  <1>5. Registered' <=> Registered BY <1>1 DEF Registered
  <1>6. jobs[j].pc = "t_write" BY DEF ToggleWrite, FaceAt
  <1>7. \A i \in Job : jobs'[i] = IF i = j THEN Idle ELSE jobs[i] BY <1>1 DEF FaceInv, FaceTypes
  <1>8. jobs' \in [Job -> JobState] BY <1>1, IdleIn DEF FaceInv, FaceTypes
  <1>9. Idle.pc = "idle" BY IdleIn
  <1>10. /\ \A i \in Job : jobs'[i].pc \in Writing => jobs[i].pc \in Writing
         /\ jobs'[w].pc \in Holding => jobs'[w] = jobs[w]
         /\ Unlocked(w) => Unlocked(w)'
    BY <1>6, <1>7, <1>9 DEF Writing, Holding, Submitted, Unlocked
  <1>11. changes <= grants' + kept
    <2>1. /\ grants \in Nat /\ grants' \in Nat /\ grants <= grants' /\ kept \in Nat /\ changes \in Nat
          /\ changes <= grants + kept
      BY <1>4 DEF FaceInv, FaceTypes, FaceAssumption
    <2> QED BY <2>1, SumGrows
  <1> HIDE DEF a
  <1> QED BY <1>1, <1>2, <1>4, <1>5, <1>8, <1>10, <1>11 DEF FaceInv, FaceTypes

\* The writer's own steps, each of them the writer's because of Does or of where it is.
LEMMA CaptureKeeps ==
  ASSUME FaceAssumption, NEW w \in Job, OnlyWriter(w), FaceInv(w), NEW j \in Job,
         NEW pc \in Writing \ Submitted, NEW first \in BOOLEAN, Capture(j, pc, first),
         FaceAt(j, "idle"), Does[j] \cap {"submit", "upload", "kiosk"} # {},
         pc \in Holding /\ Registered => can,
         pc \in Holding /\ first => ~Registered,
         UNCHANGED <<can, faceProfile, embs, proto, grants, changes, kept>>
  PROVE  FaceInv(w)'
  <1>1. j = w BY DEF OnlyWriter
  <1>2. jobs' = [jobs EXCEPT ![w] = [pc |-> pc, face |-> captures + 1, first |-> first]] /\ captures' = captures + 1
        /\ captures < MaxFaces
    BY <1>1 DEF Capture
  <1>3. \A i \in Job : jobs'[i] = IF i = w THEN [pc |-> pc, face |-> captures + 1, first |-> first] ELSE jobs[i]
    BY <1>2 DEF FaceInv, FaceTypes
  <1>4. FaceTypes' BY <1>2 DEF FaceInv, FaceTypes, FaceAssumption, JobState, Places
  <1>5. (Registered' <=> Registered) /\ (Unused' <=> Unused) BY DEF Registered, Unused
  <1>6. jobs[w].pc = "idle" BY <1>1 DEF FaceAt
  <1>7. can => Unused BY <1>6 DEF FaceInv, Unlocked
  <1>8. \A i \in Job : jobs'[i].pc \in Writing => i = w BY <1>3 DEF FaceInv
  <1>9. jobs'[w].pc = pc /\ jobs'[w].first = first BY <1>3
  <1>10. changes < captures' BY <1>2 DEF FaceInv, FaceTypes
  <1> QED BY <1>2, <1>4, <1>5, <1>7, <1>8, <1>9, <1>10 DEF FaceInv, FaceTypes

\* The writer goes on without taking another capture.
Onward(w) ==
  /\ UNCHANGED <<captures, grants, changes, kept>> /\ faceProfile' \in Nat /\ can' \in {FALSE, can}
  /\ \E n \in JobState : /\ n.pc \notin Holding /\ jobs' = [jobs EXCEPT ![w] = n]
                         /\ \/ jobs[w].pc \notin Submitted \/ can' = FALSE
                            \/ n.pc \in Submitted /\ n.first = jobs[w].first

LEMMA OnwardKeeps == ASSUME NEW w \in Job, FaceInv(w), Onward(w) PROVE FaceInv(w)'
  <1>1. PICK n \in JobState :
          /\ n.pc \notin Holding /\ jobs' = [jobs EXCEPT ![w] = n]
          /\ \/ jobs[w].pc \notin Submitted \/ can' = FALSE
             \/ n.pc \in Submitted /\ n.first = jobs[w].first
    BY DEF Onward
  <1>2. \A i \in Job : jobs'[i] = IF i = w THEN n ELSE jobs[i] BY <1>1 DEF FaceInv, FaceTypes
  <1>3. FaceTypes'
    <2>1. jobs' \in [Job -> JobState] BY <1>1 DEF FaceInv, FaceTypes
    <2>2. can \in BOOLEAN /\ can' \in {FALSE, can} BY DEF FaceInv, FaceTypes, Onward
    <2>3. can' \in BOOLEAN BY <2>2
    <2> QED BY <2>1, <2>3 DEF FaceInv, FaceTypes, Onward
  <1>4. Unused' <=> Unused BY DEF Unused, Onward
  <1>5. can' => can BY DEF Onward
  <1>6. jobs'[w].pc \notin Holding BY <1>1, <1>2
  <1>7. can' /\ ~Unlocked(w)' => ~Unlocked(w) BY <1>1, <1>2 DEF Unlocked, Submitted
  <1> QED BY <1>2, <1>3, <1>4, <1>5, <1>6, <1>7 DEF FaceInv, Onward

LEMMA GotoIs ==
  ASSUME FaceTypes, NEW j \in Job, NEW pc \in Places, FaceGoto(j, pc)
  PROVE  \E n \in JobState : n.pc = pc /\ n.first = jobs[j].first /\ jobs' = [jobs EXCEPT ![j] = n]
  <1> DEFINE n == [jobs[j] EXCEPT !.pc = pc]
  <1>1. jobs[j] \in JobState BY DEF FaceTypes
  <1>2. n \in JobState /\ n.pc = pc /\ n.first = jobs[j].first BY <1>1 DEF JobState
  <1>3. jobs' = [jobs EXCEPT ![j] = n] BY DEF FaceGoto
  <1> QED BY <1>2, <1>3

\* The row of the request is written; the capture is still to be stored.
LEMMA FormKeeps ==
  ASSUME NEW w \in Job, FaceInv(w), FaceAt(w, "s_form"), FaceGoto(w, "s_profile"),
         UNCHANGED <<can, faceProfile, embs, proto, captures, grants, changes, kept>>
  PROVE  FaceInv(w)'
  <1>1. \A i \in Job : /\ jobs'[i].pc = IF i = w THEN "s_profile" ELSE jobs[i].pc
                       /\ jobs'[i].first = jobs[i].first
    <2>1. FaceTypes /\ "s_profile" \in Places BY DEF FaceInv, Places, Writing, Holding
    <2>2. PICK n \in JobState : n.pc = "s_profile" /\ n.first = jobs[w].first /\ jobs' = [jobs EXCEPT ![w] = n]
      BY <2>1, GotoIs
    <2> QED BY <2>1, <2>2 DEF FaceTypes
  <1>2. FaceTypes' BY DEF FaceInv, FaceTypes, FaceGoto, JobState, Places, Writing, Holding
  <1>3. (Unused' <=> Unused) /\ (Registered' <=> Registered) BY DEF Unused, Registered
  <1>4. jobs[w].pc \in Holding /\ jobs'[w].pc \in Holding BY <1>1 DEF FaceAt, Holding
  <1>5. ~Unlocked(w) BY DEF FaceAt, Unlocked
  <1>6. \A i \in Job : jobs'[i].pc \in Writing => i = w BY <1>1 DEF FaceInv
  <1> QED BY <1>1, <1>2, <1>3, <1>4, <1>5, <1>6 DEF FaceInv

\* The replacement is counted: of a registered face it uses up a permission.
LEMMA ProfileKeeps ==
  ASSUME FaceAssumption, NEW w \in Job, FaceInv(w), SubmitProfile(w) PROVE FaceInv(w)'
  <1>1. jobs[w].pc = "s_profile" /\ jobs' = [jobs EXCEPT ![w].pc = "s_delete"]
        /\ UNCHANGED <<can, captures, grants, kept>> /\ faceProfile' = jobs[w].face
        /\ changes' = IF Registered THEN changes + 1 ELSE changes
    BY DEF SubmitProfile, FaceAt, FaceGoto
  <1>2. \A i \in Job : /\ jobs'[i].pc = IF i = w THEN "s_delete" ELSE jobs[i].pc
                       /\ jobs'[i].first = jobs[i].first
    <2>1. FaceTypes /\ "s_delete" \in Places BY DEF FaceInv, Places, Writing, Submitted
    <2>2. FaceGoto(w, "s_delete") BY DEF SubmitProfile
    <2>3. PICK n \in JobState : n.pc = "s_delete" /\ n.first = jobs[w].first /\ jobs' = [jobs EXCEPT ![w] = n]
      BY <2>1, <2>2, GotoIs
    <2> QED BY <2>1, <2>3 DEF FaceTypes
  <1>3. FaceTypes' BY <1>1 DEF FaceInv, FaceTypes, JobState, Places, Writing, Submitted
  <1>4. jobs'[w].pc \in Submitted /\ jobs'[w].pc \notin Holding /\ jobs[w].pc \in Holding
    BY <1>1, <1>2 DEF Submitted, Holding
  <1>5. \A i \in Job : jobs'[i].pc \in Writing => i = w BY <1>2 DEF FaceInv
  <1>6. changes < captures BY <1>4 DEF FaceInv
  <1>7. Registered => Unused BY <1>4 DEF FaceInv
  <1>8. changes' <= grants' + kept' /\ changes' <= captures'
    BY <1>1, <1>6, <1>7 DEF Unused, FaceInv, FaceTypes, FaceAssumption
  <1>9. can' /\ ~Unlocked(w)' => Unused'
    <2> SUFFICES ASSUME can', ~Unlocked(w)' PROVE Unused'
      OBVIOUS
    <2>1. jobs[w].first BY <1>2 DEF Unlocked
    <2>2. ~Registered BY <1>4, <2>1 DEF FaceInv
    <2>3. ~Unlocked(w) BY <1>1 DEF Unlocked
    <2>4. Unused BY <1>1, <2>3 DEF FaceInv
    <2> QED BY <1>1, <2>2, <2>4 DEF Unused
  <1> QED BY <1>3, <1>4, <1>5, <1>8, <1>9 DEF FaceInv

\* Every step of a job is one of these.
LEMMA JobKeeps ==
  ASSUME FaceAssumption, NEW w \in Job, OnlyWriter(w), FaceInv(w), NEW j \in Job,
         \/ SubmitCheck(j) \/ SubmitRequest(j) \/ SubmitProfile(j) \/ SubmitDelete(j)
         \/ SubmitInsert(j) \/ SubmitProto(j) \/ SubmitRelock(j)
         \/ LoadClear(j) \/ LoadSelect(j) \/ LoadFails(j) \/ LoadFill(j) \/ FaceRaises(j)
         \/ UploadStudent(j) \/ UploadDelete(j) \/ UploadInsert(j) \/ UploadProto(j) \/ UploadProfile(j)
         \/ KioskCheck(j) \/ KioskProfile(j)
         \/ DeleteCheck(j) \/ DeleteEmbs(j) \/ DeleteProto(j) \/ DeleteProfile(j)
         \/ DeleteFaceRow(j) \/ DeleteEvict(j)
         \/ ToggleRead(j) \/ ToggleWrite(j)
  PROVE  FaceInv(w)'
  <1> DEFINE Goal == FaceInv(w)'
  <1>0. FaceTypes BY DEF FaceInv
  <1>t. can \in BOOLEAN /\ faceProfile \in Nat /\ jobs[j] \in JobState BY <1>0 DEF FaceTypes
  <1>f. jobs[j].face \in Nat BY <1>t DEF JobState
  <1>w. jobs[j].pc \in Writing => j = w BY DEF FaceInv
  <1>1. CASE SubmitCheck(j)
    <2>1. (~Registered) \in BOOLEAN OBVIOUS
    <2>2. "s_form" \in Writing \ Submitted /\ "s_form" \in Holding BY DEF Writing, Holding, Submitted
    <2>3. Capture(j, "s_form", ~Registered) /\ FaceAt(j, "idle") /\ "submit" \in Does[j] /\ (Registered => can)
          /\ UNCHANGED <<can, faceProfile, embs, proto, grants, changes, kept>>
      BY <1>1 DEF SubmitCheck, Starts, faceHistory
    <2>4. Does[j] \cap {"submit", "upload", "kiosk"} # {} BY <2>3
    <2> QED BY <2>1, <2>2, <2>3, <2>4, CaptureKeeps
  <1>2. CASE SubmitRequest(j)
    <2>1. jobs[j].pc = "s_form" BY <1>2 DEF SubmitRequest, FaceAt
    <2>2. j = w BY <1>w, <2>1 DEF Writing, Holding
    <2>3. UNCHANGED <<can, faceProfile, embs, proto, captures, grants, changes, kept>>
      BY <1>2 DEF SubmitRequest, faceTables, faceHistory
    <2>4. CASE FaceGoto(j, "s_profile") BY <2>1, <2>2, <2>3, <2>4, FormKeeps DEF FaceAt
    <2>5. CASE FaceGoto(j, "idle")
      <3>1. PICK n \in JobState : n.pc = "idle" /\ jobs' = [jobs EXCEPT ![j] = n]
        BY <1>0, <2>5, GotoIs DEF Places
      <3>2. n.pc \notin Holding /\ jobs[w].pc \notin Submitted BY <2>1, <2>2, <3>1 DEF Holding, Submitted
      <3>3. Onward(w) BY <1>t, <2>2, <2>3, <3>1, <3>2 DEF Onward
      <3> QED BY <3>3, OnwardKeeps
    <2> QED BY <1>2, <2>4, <2>5 DEF SubmitRequest
  <1>3. CASE SubmitProfile(j)
    <2>1. j = w BY <1>3, <1>w DEF SubmitProfile, FaceAt, Writing, Holding
    <2> QED BY <1>3, <2>1, ProfileKeeps
  <1>4. ASSUME SubmitDelete(j) \/ SubmitInsert(j) \/ SubmitProto(j) PROVE Goal
    <2>1. /\ jobs[j].pc \in {"s_delete", "s_insert", "s_proto"}
          /\ FaceGoto(j, "s_insert") \/ FaceGoto(j, "s_proto") \/ FaceGoto(j, "s_lock")
          /\ UNCHANGED <<can, faceProfile, captures, grants, changes, kept>>
      BY <1>4 DEF SubmitDelete, SubmitInsert, SubmitProto, FaceAt, faceHistory
    <2>2. j = w BY <1>w, <2>1 DEF Writing, Submitted
    <2>3. PICK pc \in {"s_insert", "s_proto", "s_lock"} : FaceGoto(j, pc) BY <2>1
    <2>4. pc \in Places /\ pc \in Submitted /\ pc \notin Holding
      BY <2>3 DEF Places, Writing, Submitted, Holding
    <2>5. PICK n \in JobState : n.pc = pc /\ n.first = jobs[j].first /\ jobs' = [jobs EXCEPT ![j] = n]
      BY <1>0, <2>3, <2>4, GotoIs
    <2>6. Onward(w) BY <1>t, <2>1, <2>2, <2>4, <2>5 DEF Onward
    <2> QED BY <2>6, OnwardKeeps
  <1>5. CASE SubmitRelock(j)
    <2>1. jobs[j].pc = "s_lock" /\ FaceGoto(j, "clear") /\ UNCHANGED <<faceProfile, captures, grants, changes>>
          /\ \/ can' = FALSE /\ UNCHANGED kept
             \/ UNCHANGED can /\ kept' = IF jobs[j].first THEN kept ELSE kept + 1
      BY <1>5 DEF SubmitRelock, FaceAt
    <2>2. j = w BY <1>w, <2>1 DEF Writing, Submitted
    <2>3. PICK n \in JobState : n.pc = "clear" /\ jobs' = [jobs EXCEPT ![j] = n] BY <1>0, <2>1, GotoIs DEF Places
    <2>4. n.pc \notin Holding BY <2>3 DEF Holding
    <2>5. CASE can' = FALSE /\ UNCHANGED kept
      <3>1. Onward(w) BY <1>t, <2>1, <2>2, <2>3, <2>4, <2>5 DEF Onward
      <3> QED BY <3>1, OnwardKeeps
    <2>6. CASE UNCHANGED can /\ kept' = IF jobs[j].first THEN kept ELSE kept + 1
      <3>1. \A i \in Job : jobs'[i] = IF i = w THEN n ELSE jobs[i] BY <2>2, <2>3 DEF FaceInv, FaceTypes
      <3>2. kept \in Nat /\ kept' \in Nat /\ kept <= kept' /\ (~jobs[w].first => kept' = kept + 1)
        BY <2>2, <2>6 DEF FaceInv, FaceTypes
      <3>s. changes' = changes /\ grants' = grants /\ captures' = captures BY <2>1
      <3>3. FaceTypes' BY <2>1, <2>3, <2>6, <3>2 DEF FaceInv, FaceTypes
      <3>4. changes \in Nat /\ grants \in Nat /\ changes <= grants + kept /\ changes <= captures
        BY DEF FaceInv, FaceTypes, FaceAssumption
      <3>5. changes' <= grants' + kept' /\ changes' <= captures' BY <3>s, <3>2, <3>4, SumGrows
      <3>6. can' => Unused'
        <4> SUFFICES ASSUME can' PROVE Unused'
          OBVIOUS
        <4>1. CASE jobs[w].first
          <5>1. Unused BY <2>6, <4>1 DEF FaceInv, Unlocked
          <5> QED BY <3>s, <3>2, <3>4, <5>1, SumGrows DEF Unused
        <4>2. CASE ~jobs[w].first BY <3>s, <3>2, <3>4, <4>2, SumGrows DEF Unused
        <4> QED BY <4>1, <4>2
      <3>7. jobs'[w].pc \notin Holding BY <2>4, <3>1
      <3>8. \A i \in Job : jobs'[i].pc \in Writing => i = w BY <3>1 DEF FaceInv
      <3> QED BY <3>3, <3>5, <3>6, <3>7, <3>8 DEF FaceInv
    <2> QED BY <2>1, <2>5, <2>6
  <1>6. CASE ToggleWrite(j) BY <1>6, ToggleKeeps
  <1>7. ASSUME UploadStudent(j) \/ KioskCheck(j) PROVE Goal
    <2>1. UNCHANGED <<can, faceProfile, embs, proto, grants, changes, kept>> /\ FaceAt(j, "idle")
          /\ Does[j] \cap {"submit", "upload", "kiosk"} # {}
          /\ \/ Capture(j, "u_delete", FALSE) \/ Capture(j, "k_profile", FALSE) \/ UNCHANGED <<captures, jobs>>
      BY <1>7 DEF UploadStudent, KioskCheck, Starts, faceTables, faceHistory
    <2>2. {"u_delete", "k_profile"} \subseteq Writing \ Submitted /\ "u_delete" \notin Holding /\ "k_profile" \notin Holding
      BY DEF Writing, Submitted, Holding
    <2>3. FALSE \in BOOLEAN OBVIOUS
    <2>4. CASE Capture(j, "u_delete", FALSE) BY <2>1, <2>2, <2>3, <2>4, CaptureKeeps
    <2>5. CASE Capture(j, "k_profile", FALSE) BY <2>1, <2>2, <2>3, <2>5, CaptureKeeps
    <2>6. CASE UNCHANGED <<captures, jobs>> BY <2>1, <2>6 DEF FaceInv, FaceTypes, Unused, Registered, Unlocked
    <2> QED BY <2>1, <2>4, <2>5, <2>6
  <1>8. ASSUME UploadDelete(j) \/ UploadInsert(j) \/ UploadProto(j) \/ UploadProfile(j) \/ KioskProfile(j)
        PROVE  Goal
    <2>1. /\ jobs[j].pc \in {"u_delete", "u_insert", "u_proto", "u_profile", "k_profile"}
          /\ \/ FaceGoto(j, "u_insert") \/ FaceGoto(j, "u_proto") \/ FaceGoto(j, "u_profile") \/ FaceGoto(j, "clear")
             \/ jobs' = [jobs EXCEPT ![j] = Idle]
          /\ UNCHANGED <<can, captures, grants, changes, kept>> /\ faceProfile' \in {faceProfile, jobs[j].face}
      BY <1>8 DEF faceHistory, UploadDelete, UploadInsert, UploadProto, UploadProfile, KioskProfile, UploadFails, FaceAt
    <2>2. j = w BY <1>w, <2>1 DEF Writing
    <2>3. PICK n \in JobState : n.pc \notin Holding /\ jobs' = [jobs EXCEPT ![j] = n]
      <3>1. CASE jobs' = [jobs EXCEPT ![j] = Idle] BY <3>1, IdleIn DEF Holding
      <3>2. ASSUME NEW pc \in {"u_insert", "u_proto", "u_profile", "clear"}, FaceGoto(j, pc)
            PROVE  \E n \in JobState : n.pc \notin Holding /\ jobs' = [jobs EXCEPT ![j] = n]
        <4>1. pc \in Places /\ pc \notin Holding BY DEF Places, Writing, Holding
        <4> QED BY <1>0, <3>2, <4>1, GotoIs
      <3> QED BY <2>1, <3>1, <3>2
    <2>4. jobs[w].pc \notin Submitted BY <2>1, <2>2 DEF Submitted
    <2>5. Onward(w) BY <1>t, <1>f, <2>1, <2>2, <2>3, <2>4 DEF Onward
    <2> QED BY <2>5, OnwardKeeps
  <1>9. ASSUME LoadClear(j) \/ LoadSelect(j) \/ LoadFails(j) \/ LoadFill(j) \/ ToggleRead(j) \/ DeleteCheck(j) \/ DeleteEmbs(j)
               \/ DeleteProto(j) \/ DeleteProfile(j) \/ DeleteFaceRow(j) \/ DeleteEvict(j)
        PROVE  Goal
    <2>1. /\ UNCHANGED <<captures, grants, changes, kept>>
          /\ faceProfile' \in {0, faceProfile} /\ (Registered' => Registered) /\ can' \in {FALSE, can}
      BY <1>9 DEF LoadClear, LoadSelect, LoadFails, LoadFill, ToggleRead, DeleteCheck, DeleteEmbs, DeleteProto,
                  DeleteProfile, DeleteFaceRow, DeleteEvict, faceTables, faceHistory, Registered
    <2>2. jobs[j].pc \in {"idle", "clear", "select", "fill", "d_embs", "d_proto", "d_profile", "d_student", "d_evict"}
      BY <1>9 DEF LoadClear, LoadSelect, LoadFails, LoadFill, ToggleRead, DeleteCheck, DeleteEmbs, DeleteProto,
                  DeleteProfile, DeleteFaceRow, DeleteEvict, Starts, FaceAt
    <2>3. PICK n \in JobState : n.pc \notin Writing /\ jobs' = [jobs EXCEPT ![j] = n]
      <3>1. CASE LoadFill(j) \/ LoadFails(j)
        <4>1. "idle" \notin Writing BY DEF Writing, Holding, Submitted
        <4>2. jobs' = [jobs EXCEPT ![j] = Idle] BY <3>1 DEF LoadFill, LoadFails
        <4> QED BY <4>1, <4>2, IdleIn
      <3>2. CASE LoadSelect(j)
        <4> DEFINE n == [jobs[j] EXCEPT !.pc = "fill", !.face = faceProfile]
        <4>1. n \in JobState /\ n.pc = "fill" BY <1>t DEF JobState, Places
        <4>2. jobs' = [jobs EXCEPT ![j] = n] BY <3>2 DEF LoadSelect
        <4>3. "fill" \notin Writing BY DEF Writing, Holding, Submitted
        <4> QED BY <4>1, <4>2, <4>3
      <3>3. CASE ToggleRead(j)
        <4>1. PICK b \in BOOLEAN : b = ~can BY <1>t
        <4> DEFINE n == [jobs[j] EXCEPT !.pc = "t_write", !.first = b]
        <4>2. n \in JobState /\ n.pc = "t_write" BY <1>t DEF JobState, Places
        <4>3. jobs' = [jobs EXCEPT ![j] = n] BY <3>3, <4>1 DEF ToggleRead
        <4>4. "t_write" \notin Writing BY DEF Writing, Holding, Submitted
        <4> QED BY <4>2, <4>3, <4>4
      <3>4. ASSUME NEW pc \in {"idle", "select", "d_embs", "d_proto", "d_profile", "d_student", "d_evict"}, FaceGoto(j, pc)
            PROVE  \E n \in JobState : n.pc \notin Writing /\ jobs' = [jobs EXCEPT ![j] = n]
        <4>1. pc \in Places /\ pc \notin Writing BY DEF Places, Writing, Holding, Submitted
        <4> QED BY <1>0, <3>4, <4>1, GotoIs
      <3>5. LoadFill(j) \/ LoadFails(j) \/ LoadSelect(j) \/ ToggleRead(j)
            \/ \E pc \in {"idle", "select", "d_embs", "d_proto", "d_profile", "d_student", "d_evict"} : FaceGoto(j, pc)
        BY <1>9 DEF LoadClear, DeleteCheck, DeleteEmbs, DeleteProto, DeleteProfile, DeleteFaceRow, DeleteEvict
      <3> QED BY <3>1, <3>2, <3>3, <3>4, <3>5
    <2>4. jobs[j].pc \notin Submitted BY <2>2 DEF Submitted
    <2>5. Aside(j) BY <2>1, <2>3, <2>4 DEF Aside
    <2> QED BY <2>5, AsideKeeps
  <1>10. CASE FaceRaises(j)
    <2>1. /\ jobs' = [jobs EXCEPT ![j] = Idle] /\ jobs[j].pc \notin Submitted
          /\ UNCHANGED <<can, faceProfile, embs, proto, captures, grants, changes, kept>>
      BY <1>10 DEF FaceRaises, Halfway, Submitted, faceTables
    <2>2. Idle \in JobState /\ Idle.pc \notin Writing BY IdleIn DEF Writing, Holding, Submitted
    <2>3. Registered' => Registered BY <2>1 DEF Registered
    <2>4. Aside(j) BY <2>1, <2>2, <2>3 DEF Aside
    <2> QED BY <2>4, AsideKeeps
  <1> HIDE DEF Goal
  <1>11. Goal BY <1>1, <1>2, <1>3, <1>4, <1>5, <1>6, <1>7, <1>8, <1>9, <1>10 DEF Goal
  <1> QED BY <1>11 DEF Goal

\* A crash under a replacement counts it in kept.
LEMMA CrashKeeps == ASSUME FaceAssumption, NEW w \in Job, FaceInv(w), Crash PROVE FaceInv(w)'
  <1>1. /\ jobs' = [j \in Job |-> Idle] /\ UNCHANGED <<can, faceProfile, embs, proto, captures, grants, changes>>
        /\ kept' = IF \E j \in Job : Unlocked(j) THEN kept + 1 ELSE kept
    BY DEF Crash, faceTables
  <1>2. jobs' \in [Job -> JobState] /\ \A j \in Job : jobs'[j].pc = "idle" BY <1>1, IdleIn
  <1>3. kept \in Nat /\ kept' \in Nat /\ kept <= kept' /\ (Unlocked(w) => kept' = kept + 1)
    BY <1>1 DEF FaceInv, FaceTypes
  <1>4. FaceTypes' BY <1>1, <1>2, <1>3 DEF FaceInv, FaceTypes
  <1>5. changes \in Nat /\ grants \in Nat /\ changes <= grants + kept /\ changes <= captures
    BY DEF FaceInv, FaceTypes, FaceAssumption
  <1>6. changes' <= grants' + kept' /\ changes' <= captures' BY <1>1, <1>3, <1>5
  <1>7. can' => Unused'
    <2> SUFFICES ASSUME can' PROVE Unused'
      OBVIOUS
    <2>1. CASE Unlocked(w) BY <1>1, <1>3, <1>5, <2>1 DEF Unused
    <2>2. CASE ~Unlocked(w)
      <3>1. Unused BY <1>1, <2>2 DEF FaceInv
      <3> QED BY <1>1, <1>3, <1>5, <3>1 DEF Unused
    <2> QED BY <2>1, <2>2
  <1>8. \A j \in Job : jobs'[j].pc \notin Writing BY <1>2 DEF Writing, Holding, Submitted
  <1>9. jobs'[w].pc \notin Holding BY <1>2 DEF Holding
  <1> QED BY <1>4, <1>6, <1>7, <1>8, <1>9 DEF FaceInv

\* One submission at a time, whatever others delete, permit or forbid meanwhile,
\* whatever statements fail and wherever the process is killed: a registered face
\* is replaced at most once per permission, and once more for each relock
\* (main.py:29993) that failed or was not reached.
THEOREM FaceLockedSafe ==
    ASSUME FaceAssumption, NEW w, OnlyWriter(w) PROVE FaceSpec => []FaceLocked
  <1>1. FaceInit => FaceInv(w) BY FaceStarts
  <1>2. FaceInv(w) /\ [FaceNext]_faceVars => FaceInv(w)'
    <2> SUFFICES ASSUME FaceInv(w), [FaceNext]_faceVars PROVE FaceInv(w)'
      OBVIOUS
    <2>0. w \in Job BY DEF OnlyWriter
    <2>1. ASSUME RequestReregistration \/ RequestSession \/ UNCHANGED faceVars PROVE FaceInv(w)'
      BY <2>1 DEF RequestReregistration, RequestSession, Ask, faceVars, faceTables, faceHistory, FaceInv, FaceTypes,
                  Unused, Registered, Unlocked
    <2>2. ASSUME ReviewFace \/ BulkReview PROVE FaceInv(w)'
      <3>1. PICK S \in SUBSET DOMAIN reqs, a \in BOOLEAN : FaceDecide(S, a)
        <4>1. CASE ReviewFace
          <5>1. PICK i \in FaceRequests("ALL"), a \in BOOLEAN : FaceDecide({i}, a) BY <4>1 DEF ReviewFace
          <5>2. {i} \in SUBSET DOMAIN reqs BY DEF FaceRequests
          <5> QED BY <5>1, <5>2
        <4>2. CASE BulkReview
          <5>1. PICK S \in SUBSET FaceRequests("PENDING"), a \in BOOLEAN : FaceDecide(S, a) BY <4>2 DEF BulkReview
          <5>2. S \in SUBSET DOMAIN reqs BY DEF FaceRequests
          <5> QED BY <5>1, <5>2
        <4> QED BY <2>2, <4>1, <4>2
      <3> QED BY <2>0, <3>1, VerdictKeeps
    <2> QED BY <2>0, <2>1, <2>2, CrashKeeps, JobKeeps DEF FaceNext
  <1>3. FaceInv(w) => FaceLocked BY DEF FaceInv, FaceLocked
  <1> QED BY <1>1, <1>2, <1>3, PTL DEF FaceSpec

-----------------------------------------------------------------------------
(***************************************************************************)
(* StudentFace: what its readers see when nobody is writing.  Three tables *)
(* are written one by one; StatusInv names the places in between where     *)
(* embeddings may stand alone, and says that a submission past its profile *)
(* finds it still there, unless a deletion is about to take the rest.  CacheInv follows the job on the event      *)
(* loop: until it lets go, cache and profile may differ.                   *)
(***************************************************************************)
FacePosts ==
  /\ can \in BOOLEAN /\ faceProfile \in Nat /\ captures \in Nat
  /\ jobs \in [Job -> JobState]

\* A step of j that takes it to pc with face at hand.
Takes(j, pc, face) ==
  \A i \in Job : /\ jobs'[i].pc = IF i = j THEN pc ELSE jobs[i].pc
                 /\ jobs'[i].face = IF i = j THEN face ELSE jobs[i].face

LEMMA GotoTakes ==
  ASSUME FacePosts, NEW j \in Job, NEW pc \in Places, FaceGoto(j, pc)
  PROVE  Takes(j, pc, jobs[j].face) /\ jobs' \in [Job -> JobState]
  <1>1. jobs' = [jobs EXCEPT ![j].pc = pc] BY DEF FaceGoto
  <1>2. jobs \in [Job -> JobState] BY DEF FacePosts
  <1>3. Takes(j, pc, jobs[j].face) BY <1>1, <1>2 DEF Takes, JobState
  <1>4. jobs' \in [Job -> JobState] BY <1>1, <1>2 DEF JobState
  <1> QED BY <1>3, <1>4

LEMMA RestTakes ==
  ASSUME FacePosts, NEW j \in Job, jobs' = [jobs EXCEPT ![j] = Idle]
  PROVE  Takes(j, "idle", 0) /\ jobs' \in [Job -> JobState]
  <1>1. Idle \in JobState /\ Idle.pc = "idle" /\ Idle.face = 0 BY DEF Idle, JobState, Places
  <1> HIDE DEF Idle
  <1> QED BY <1>1 DEF FacePosts, Takes

LEMMA CaptureTakes ==
  ASSUME FacePosts, NEW j \in Job, NEW pc \in Places, NEW first \in BOOLEAN, Capture(j, pc, first)
  PROVE  /\ Takes(j, pc, captures + 1) /\ jobs' \in [Job -> JobState]
         /\ captures' = captures + 1 /\ captures + 1 # 0
  <1> DEFINE n == [pc |-> pc, face |-> captures + 1, first |-> first]
  <1>1. n \in JobState /\ n.pc = pc /\ n.face = captures + 1 BY DEF FacePosts, JobState
  <1>2. jobs' = [jobs EXCEPT ![j] = n] /\ captures' = captures + 1 BY DEF Capture
  <1> HIDE DEF n
  <1>3. Takes(j, pc, captures + 1) /\ jobs' \in [Job -> JobState] BY <1>1, <1>2 DEF FacePosts, Takes
  <1> QED BY <1>2, <1>3 DEF FacePosts

LEMMA SelectTakes ==
  ASSUME FacePosts, NEW j \in Job, LoadSelect(j)
  PROVE  Takes(j, "fill", faceProfile) /\ jobs' \in [Job -> JobState]
  <1> DEFINE n == [jobs[j] EXCEPT !.pc = "fill", !.face = faceProfile]
  <1>1. jobs[j] \in JobState /\ faceProfile \in Nat BY DEF FacePosts
  <1>2. n \in JobState /\ n.pc = "fill" /\ n.face = faceProfile BY <1>1 DEF JobState, Places
  <1>3. jobs' = [jobs EXCEPT ![j] = n] BY DEF LoadSelect
  <1> HIDE DEF n
  <1> QED BY <1>2, <1>3 DEF FacePosts, Takes

LEMMA ToggleTakes ==
  ASSUME FacePosts, NEW j \in Job, ToggleRead(j)
  PROVE  Takes(j, "t_write", jobs[j].face) /\ jobs' \in [Job -> JobState]
  <1>1. PICK b \in BOOLEAN : b = ~can BY DEF FacePosts
  <1> DEFINE n == [jobs[j] EXCEPT !.pc = "t_write", !.first = b]
  <1>2. jobs[j] \in JobState BY DEF FacePosts
  <1>3. n \in JobState /\ n.pc = "t_write" /\ n.face = jobs[j].face BY <1>2 DEF JobState, Places
  <1>4. jobs' = [jobs EXCEPT ![j] = n] BY <1>1 DEF ToggleRead
  <1> HIDE DEF n
  <1> QED BY <1>3, <1>4 DEF FacePosts, Takes

\* What every step of a job leaves well typed.
LEMMA PostsStep ==
  ASSUME FacePosts, NEW j \in Job,
         \/ SubmitCheck(j) \/ SubmitRequest(j) \/ SubmitProfile(j) \/ SubmitDelete(j)
         \/ SubmitInsert(j) \/ SubmitProto(j) \/ SubmitRelock(j)
         \/ LoadClear(j) \/ LoadSelect(j) \/ LoadFails(j) \/ LoadFill(j) \/ FaceRaises(j)
         \/ UploadStudent(j) \/ UploadDelete(j) \/ UploadInsert(j) \/ UploadProto(j) \/ UploadProfile(j)
         \/ KioskCheck(j) \/ KioskProfile(j)
         \/ DeleteCheck(j) \/ DeleteEmbs(j) \/ DeleteProto(j) \/ DeleteProfile(j)
         \/ DeleteFaceRow(j) \/ DeleteEvict(j)
         \/ ToggleRead(j) \/ ToggleWrite(j)
  PROVE  FacePosts'
  <1> DEFINE Goal == FacePosts'
  <1>t. jobs[j] \in JobState BY DEF FacePosts
  <1>f. jobs[j].face \in Nat /\ jobs[j].first \in BOOLEAN BY <1>t DEF JobState
  <1>1. ASSUME SubmitCheck(j) \/ UploadStudent(j) \/ KioskCheck(j) PROVE Goal
    <2>1. UNCHANGED <<can, faceProfile>> BY <1>1 DEF SubmitCheck, UploadStudent, KioskCheck, faceTables
    <2>2. \/ Capture(j, "s_form", ~Registered) \/ Capture(j, "u_delete", FALSE) \/ Capture(j, "k_profile", FALSE)
          \/ UNCHANGED <<captures, jobs>>
      BY <1>1 DEF SubmitCheck, UploadStudent, KioskCheck
    <2>3. {"s_form", "u_delete", "k_profile"} \subseteq Places BY DEF Places, Writing, Holding
    <2>4. (~Registered) \in BOOLEAN /\ FALSE \in BOOLEAN OBVIOUS
    <2>5. ASSUME NEW pc \in Places, NEW first \in BOOLEAN, Capture(j, pc, first) PROVE Goal
      BY <2>1, <2>5, CaptureTakes DEF FacePosts
    <2>6. CASE UNCHANGED <<captures, jobs>> BY <2>1, <2>6 DEF FacePosts
    <2> QED BY <2>2, <2>3, <2>4, <2>5, <2>6
  <1>2. ASSUME FaceGoto(j, "idle") \/ (\E pc \in Places : FaceGoto(j, pc)) \/ jobs' = [jobs EXCEPT ![j] = Idle]
               \/ LoadSelect(j) \/ ToggleRead(j)
        PROVE  jobs' \in [Job -> JobState]
    <2>1. "idle" \in Places BY DEF Places
    <2> QED BY <1>2, <2>1, GotoTakes, RestTakes, SelectTakes, ToggleTakes
  <1>3. ASSUME \/ SubmitRequest(j) \/ SubmitProfile(j) \/ SubmitDelete(j) \/ SubmitInsert(j) \/ SubmitProto(j)
               \/ SubmitRelock(j)
        PROVE  Goal
    <2>1. /\ UNCHANGED captures /\ faceProfile' \in {faceProfile, jobs[j].face} /\ can' \in {can, FALSE}
          /\ \E pc \in {"idle", "s_profile", "s_delete", "s_insert", "s_proto", "s_lock", "clear"} : FaceGoto(j, pc)
      BY <1>3 DEF SubmitRequest, SubmitProfile, SubmitDelete, SubmitInsert, SubmitProto, SubmitRelock, faceTables
    <2>2. {"idle", "s_profile", "s_delete", "s_insert", "s_proto", "s_lock", "clear"} \subseteq Places
      BY DEF Places, Writing, Holding, Submitted
    <2>3. jobs' \in [Job -> JobState] BY <1>2, <2>1, <2>2
    <2>4. can \in BOOLEAN BY DEF FacePosts
    <2>5. can' \in BOOLEAN BY <2>1, <2>4
    <2> QED BY <1>f, <2>1, <2>3, <2>5 DEF FacePosts
  <1>4. ASSUME LoadClear(j) \/ LoadSelect(j) \/ LoadFails(j) \/ LoadFill(j) \/ FaceRaises(j) \/ DeleteCheck(j) \/ DeleteEmbs(j) \/ DeleteProto(j)
               \/ DeleteProfile(j) \/ DeleteFaceRow(j) \/ DeleteEvict(j) \/ ToggleRead(j)
        PROVE  Goal
    <2>1. /\ UNCHANGED captures /\ faceProfile' \in {faceProfile, 0} /\ can' \in {can, FALSE}
          /\ \/ LoadSelect(j) \/ ToggleRead(j) \/ jobs' = [jobs EXCEPT ![j] = Idle]
             \/ \E pc \in {"select", "d_embs", "d_proto", "d_profile", "d_student", "d_evict", "idle"} : FaceGoto(j, pc)
      BY <1>4 DEF LoadClear, LoadSelect, LoadFails, LoadFill, FaceRaises, DeleteCheck, DeleteEmbs, DeleteProto, DeleteProfile,
                  DeleteFaceRow, DeleteEvict, ToggleRead, faceTables
    <2>2. {"select", "d_embs", "d_proto", "d_profile", "d_student", "d_evict", "idle"} \subseteq Places BY DEF Places
    <2>3. jobs' \in [Job -> JobState] BY <1>2, <2>1, <2>2
    <2>4. can \in BOOLEAN BY DEF FacePosts
    <2>5. can' \in BOOLEAN BY <2>1, <2>4
    <2> QED BY <2>1, <2>3, <2>5 DEF FacePosts
  <1>5. ASSUME UploadDelete(j) \/ UploadInsert(j) \/ UploadProto(j) \/ UploadProfile(j) \/ KioskProfile(j)
        PROVE  Goal
    <2>1. /\ UNCHANGED <<captures, can>> /\ faceProfile' \in {faceProfile, jobs[j].face}
          /\ \/ jobs' = [jobs EXCEPT ![j] = Idle]
             \/ \E pc \in {"u_insert", "u_proto", "u_profile", "clear"} : FaceGoto(j, pc)
      BY <1>5 DEF UploadDelete, UploadInsert, UploadProto, UploadProfile, KioskProfile, UploadFails
    <2>2. {"u_insert", "u_proto", "u_profile", "clear"} \subseteq Places BY DEF Places, Writing
    <2>3. jobs' \in [Job -> JobState] BY <1>2, <2>1, <2>2
    <2> QED BY <1>f, <2>1, <2>3 DEF FacePosts
  <1>6. ASSUME ToggleWrite(j) PROVE Goal
    <2>1. UNCHANGED <<captures, faceProfile>> /\ jobs' = [jobs EXCEPT ![j] = Idle] BY <1>6 DEF ToggleWrite
    <2>2. can' = IF exists THEN jobs[j].first ELSE can BY <1>6 DEF ToggleWrite
    <2>3. can \in BOOLEAN BY DEF FacePosts
    <2>4. can' \in BOOLEAN BY <1>f, <2>2, <2>3
    <2> QED BY <1>2, <2>1, <2>4 DEF FacePosts
  <1> HIDE DEF Goal
  <1>7. Goal BY <1>1, <1>3, <1>4, <1>5, <1>6
  <1> QED BY <1>7 DEF Goal

\* What every other step leaves alone.
LEMMA OtherSteps ==
  ASSUME \/ RequestReregistration \/ RequestSession \/ ReviewFace \/ BulkReview \/ UNCHANGED faceVars
  PROVE  /\ UNCHANGED <<exists, faceProfile, embs, proto, faceCache, jobs, faceLoop, captures, unread, torn>>
         /\ can' \in BOOLEAN \/ UNCHANGED can
  BY DEF RequestReregistration, RequestSession, Ask, ReviewFace, BulkReview, FaceDecide, faceVars, faceTables, faceHistory

-----------------------------------------------------------------------------
\* Embeddings stand alone only between two statements: of a registration that has
\* not written the prototype, or of a deletion that the row's removal completes.
Between == {"s_proto", "u_proto", "d_profile", "d_student"}

\* Where a job holds the event loop, and where a submission has written its profile.
Seats == {"s_profile", "s_delete", "s_insert", "s_proto", "u_delete", "u_insert", "u_proto", "u_profile"}
Stages == {"s_delete", "s_insert", "s_proto"}

StatusInv ==
  /\ FacePosts
  /\ \A j \in Job : jobs[j].pc \in Writing => jobs[j].face # 0
  /\ \A j \in Job : jobs[j].pc \in Seats => faceLoop = j
  /\ ~exists => embs = 0 /\ proto = 0
  /\ \A j \in Job : jobs[j].pc \in Stages =>
        torn \/ ~exists \/ faceProfile # 0 \/ \E i \in Job : jobs[i].pc = "d_student"
  /\ ~torn /\ embs # 0 => faceProfile # 0 \/ proto # 0 \/ \E j \in Job : jobs[j].pc \in Between

\* A step of j that keeps all this.
StatusMove(j, pc, face) ==
  /\ Takes(j, pc, face)
  /\ pc \in Writing => face # 0
  /\ pc \in Seats => faceLoop' = j
  /\ UNCHANGED faceLoop \/ faceLoop = j \/ LoopFree
  /\ ~exists' => embs' = 0 /\ proto' = 0
  /\ exists' => exists \/ LoopFree
  /\ torn => torn'
  /\ faceProfile' = 0 => faceProfile = 0 \/ pc = "d_student"
  /\ jobs[j].pc = "d_student" => torn' \/ ~exists'
  /\ pc \in Stages => jobs[j].pc \in Stages \/ faceProfile' # 0
  /\ \/ torn' \/ embs' = 0 \/ faceProfile' # 0 \/ proto' # 0 \/ pc \in Between
     \/ \E i \in Job \ {j} : jobs[i].pc = "d_student"
     \/ jobs[j].pc \notin Between /\ UNCHANGED <<embs, proto, faceProfile>>

LEMMA StatusTake ==
  ASSUME FaceAssumption, StatusInv, FacePosts', NEW j \in Job, NEW pc, NEW face, StatusMove(j, pc, face)
  PROVE  StatusInv'
  <1>t. \A i \in Job : /\ jobs'[i].pc = IF i = j THEN pc ELSE jobs[i].pc
                       /\ jobs'[i].face = IF i = j THEN face ELSE jobs[i].face
    BY DEF StatusMove, Takes
  <1>1. \A i \in Job : jobs'[i].pc \in Writing => jobs'[i].face # 0 BY <1>t DEF StatusInv, StatusMove
  <1>2. ASSUME NEW i \in Job, jobs[i].pc \in Seats PROVE faceLoop = i /\ ~LoopFree
    BY <1>2 DEF StatusInv, LoopFree, FaceAssumption
  <1>3. ASSUME NEW i \in Job, jobs'[i].pc \in Seats PROVE faceLoop' = i
    <2>1. CASE i = j BY <1>t, <1>3, <2>1 DEF StatusMove
    <2>2. CASE i # j
      <3>1. jobs[i].pc \in Seats BY <1>t, <1>3, <2>2
      <3>2. faceLoop = i /\ ~LoopFree BY <1>2, <3>1
      <3> QED BY <2>2, <3>2 DEF StatusMove
    <2> QED BY <2>1, <2>2
  <1>4. ASSUME NEW i \in Job, jobs'[i].pc \in Stages
        PROVE  torn' \/ ~exists' \/ faceProfile' # 0 \/ \E n \in Job : jobs'[n].pc = "d_student"
    <2>1. CASE jobs[i].pc \in Stages
      <3>1. ~LoopFree BY <1>2, <2>1 DEF Stages, Seats
      <3>2. exists' => exists BY <3>1 DEF StatusMove
      <3>3. torn \/ ~exists \/ faceProfile # 0 \/ \E n \in Job : jobs[n].pc = "d_student"
        BY <2>1 DEF StatusInv
      <3>4. CASE torn \/ ~exists BY <3>2, <3>4 DEF StatusMove
      <3>5. CASE faceProfile # 0 BY <1>t, <3>5 DEF StatusMove
      <3>6. ASSUME NEW n \in Job, jobs[n].pc = "d_student"
            PROVE  torn' \/ ~exists' \/ jobs'[n].pc = "d_student"
        BY <1>t, <3>6 DEF StatusMove
      <3> QED BY <3>3, <3>4, <3>5, <3>6
    <2>2. CASE jobs[i].pc \notin Stages BY <1>t, <1>4, <2>2 DEF StatusMove
    <2> QED BY <2>1, <2>2
  <1>5. ASSUME ~torn', embs' # 0
        PROVE  faceProfile' # 0 \/ proto' # 0 \/ \E i \in Job : jobs'[i].pc \in Between
    <2>1. CASE pc \in Between BY <1>t, <2>1
    <2>2. ASSUME NEW i \in Job \ {j}, jobs[i].pc = "d_student" PROVE jobs'[i].pc \in Between
      BY <1>t, <2>2 DEF Between
    <2>3. CASE jobs[j].pc \notin Between /\ UNCHANGED <<embs, proto, faceProfile>>
      <3>1. ~torn BY <1>5 DEF StatusMove
      <3>2. faceProfile # 0 \/ proto # 0 \/ \E i \in Job : jobs[i].pc \in Between
        BY <1>5, <2>3, <3>1 DEF StatusInv
      <3> QED BY <1>t, <2>3, <3>2
    <2> QED BY <1>5, <2>1, <2>2, <2>3 DEF StatusMove
  <1>6. ~exists' => embs' = 0 /\ proto' = 0 BY DEF StatusMove
  <1> QED BY <1>1, <1>3, <1>4, <1>5, <1>6 DEF StatusInv

\* A step that leaves the tables and torn alone and ends where nothing is written.
LEMMA StatusRests ==
  ASSUME FaceAssumption, StatusInv, FacePosts', NEW j \in Job, NEW pc, NEW face, Takes(j, pc, face),
         pc \notin Writing, jobs[j].pc \notin Between,
         UNCHANGED faceLoop \/ faceLoop = j \/ LoopFree,
         UNCHANGED <<exists, faceProfile, embs, proto>>, torn => torn'
  PROVE  StatusInv'
  <1>1. Seats \subseteq Writing /\ Stages \subseteq Writing BY DEF Seats, Stages, Writing, Holding, Submitted
  <1>2. ~exists => embs = 0 /\ proto = 0 BY DEF StatusInv
  <1>3. jobs[j].pc # "d_student" BY DEF Between
  <1>4. StatusMove(j, pc, face) BY <1>1, <1>2, <1>3 DEF StatusMove
  <1> QED BY <1>4, StatusTake

LEMMA StatusStep ==
  ASSUME FaceAssumption, StatusInv, NEW j \in Job,
         \/ SubmitCheck(j) \/ SubmitRequest(j) \/ SubmitProfile(j) \/ SubmitDelete(j)
         \/ SubmitInsert(j) \/ SubmitProto(j) \/ SubmitRelock(j)
         \/ LoadClear(j) \/ LoadSelect(j) \/ LoadFails(j) \/ LoadFill(j) \/ FaceRaises(j)
         \/ UploadStudent(j) \/ UploadDelete(j) \/ UploadInsert(j) \/ UploadProto(j) \/ UploadProfile(j)
         \/ KioskCheck(j) \/ KioskProfile(j)
         \/ DeleteCheck(j) \/ DeleteEmbs(j) \/ DeleteProto(j) \/ DeleteProfile(j)
         \/ DeleteFaceRow(j) \/ DeleteEvict(j)
         \/ ToggleRead(j) \/ ToggleWrite(j)
  PROVE  StatusInv'
  <1> DEFINE Goal == StatusInv'
  <1>p. FacePosts /\ FacePosts' BY PostsStep DEF StatusInv
  <1>w. jobs[j].pc \in Writing => jobs[j].face # 0 BY DEF StatusInv
  <1>l. jobs[j].pc \in Seats => faceLoop = j BY DEF StatusInv
  <1>e. ~exists => embs = 0 /\ proto = 0 BY DEF StatusInv
  <1>g. \A pc \in Places : FaceGoto(j, pc) => Takes(j, pc, jobs[j].face) BY <1>p, GotoTakes
  <1>1. ASSUME SubmitCheck(j) \/ UploadStudent(j) \/ KioskCheck(j) PROVE Goal
    <2>1. UNCHANGED <<faceProfile, embs, proto, torn>> /\ jobs[j].pc = "idle"
      BY <1>1 DEF SubmitCheck, UploadStudent, KioskCheck, faceTables, faceHistory, Starts, FaceAt
    <2>2. (exists' => exists \/ LoopFree) /\ (~exists' => ~exists)
      <3>1. CASE UploadStudent(j) BY <3>1 DEF UploadStudent
      <3>2. CASE SubmitCheck(j) \/ KioskCheck(j)
        <4>1. exists' = exists BY <3>2 DEF SubmitCheck, KioskCheck, faceTables
        <4> QED BY <4>1
      <3> QED BY <1>1, <3>1, <3>2
    <2>3. \/ Capture(j, "s_form", ~Registered) /\ UNCHANGED faceLoop
          \/ Capture(j, "k_profile", FALSE) /\ UNCHANGED faceLoop
          \/ Capture(j, "u_delete", FALSE) /\ faceLoop' = j /\ LoopFree
          \/ UNCHANGED <<captures, jobs, faceLoop>>
      BY <1>1 DEF SubmitCheck, UploadStudent, KioskCheck
    <2>4. /\ {"s_form", "u_delete", "k_profile"} \subseteq Places
          /\ {"s_form", "k_profile"} \cap Seats = {} /\ {"s_form", "u_delete", "k_profile"} \cap Stages = {}
      BY DEF Places, Writing, Holding, Seats, Stages
    <2>5. (~Registered) \in BOOLEAN /\ FALSE \in BOOLEAN OBVIOUS
    <2>6. "idle" \notin Between BY DEF Between
    <2>7. ASSUME NEW pc \in {"s_form", "u_delete", "k_profile"}, NEW first \in BOOLEAN, Capture(j, pc, first),
                 pc \in Seats => faceLoop' = j, UNCHANGED faceLoop \/ LoopFree
          PROVE  Goal
      <3>1. pc \in Places /\ pc \notin Stages BY <2>4
      <3>2. Takes(j, pc, captures + 1) /\ captures + 1 # 0 BY <1>p, <2>7, <3>1, CaptureTakes
      <3>3. StatusMove(j, pc, captures + 1) BY <1>e, <2>1, <2>2, <2>6, <2>7, <3>1, <3>2 DEF StatusMove
      <3> QED BY <1>p, <3>3, StatusTake
    <2>8. CASE UNCHANGED <<captures, jobs, faceLoop>>
      <3>1. Takes(j, "idle", jobs[j].face) BY <2>1, <2>8 DEF Takes
      <3>2. "idle" \notin Writing /\ "idle" \notin Seats /\ "idle" \notin Stages
        BY DEF Writing, Holding, Submitted, Seats, Stages
      <3>3. StatusMove(j, "idle", jobs[j].face) BY <1>e, <2>1, <2>2, <2>6, <2>8, <3>1, <3>2 DEF StatusMove
      <3> QED BY <1>p, <3>3, StatusTake
    <2>9. CASE Capture(j, "s_form", ~Registered) /\ UNCHANGED faceLoop BY <2>4, <2>5, <2>7, <2>9
    <2>10. CASE Capture(j, "k_profile", FALSE) /\ UNCHANGED faceLoop BY <2>4, <2>5, <2>7, <2>10
    <2>11. CASE Capture(j, "u_delete", FALSE) /\ faceLoop' = j /\ LoopFree BY <2>4, <2>5, <2>7, <2>11
    <2> QED BY <2>3, <2>8, <2>9, <2>10, <2>11
  <1>2. ASSUME SubmitRequest(j) PROVE Goal
    <2>1. /\ UNCHANGED <<exists, faceProfile, embs, proto, torn>> /\ jobs[j].pc = "s_form" /\ LoopFree
          /\ (FaceGoto(j, "s_profile") /\ faceLoop' = j) \/ FaceGoto(j, "idle")
      BY <1>2 DEF SubmitRequest, faceTables, faceHistory, FaceAt
    <2>2. jobs[j].pc \in Writing /\ jobs[j].pc \notin Between /\ jobs[j].pc # "d_student"
      BY <2>1 DEF Writing, Holding, Between
    <2>3. {"s_profile", "idle"} \subseteq Places /\ {"s_profile", "idle"} \cap Stages = {} /\ "idle" \notin Writing
      BY DEF Places, Writing, Holding, Submitted, Stages
    <2>4. CASE FaceGoto(j, "s_profile") /\ faceLoop' = j
      <3>1. Takes(j, "s_profile", jobs[j].face) BY <1>g, <2>3, <2>4
      <3>2. StatusMove(j, "s_profile", jobs[j].face) BY <1>w, <1>e, <2>1, <2>2, <2>3, <2>4, <3>1 DEF StatusMove
      <3> QED BY <1>p, <3>2, StatusTake
    <2>5. CASE FaceGoto(j, "idle")
      <3>1. Takes(j, "idle", jobs[j].face) BY <1>g, <2>3, <2>5
      <3> QED BY <1>p, <2>1, <2>2, <2>3, <3>1, StatusRests
    <2> QED BY <2>1, <2>4, <2>5
  <1>3. ASSUME SubmitProfile(j) \/ UploadProfile(j) \/ KioskProfile(j) PROVE Goal
    <2>1. /\ UNCHANGED <<exists, embs, proto, torn, faceLoop>> /\ faceProfile' = jobs[j].face
          /\ jobs[j].pc \in {"s_profile", "u_profile", "k_profile"}
          /\ (jobs[j].pc = "s_profile" /\ FaceGoto(j, "s_delete")) \/ FaceGoto(j, "clear")
      BY <1>3 DEF SubmitProfile, UploadProfile, KioskProfile, FaceAt, faceHistory
    <2>2. jobs[j].face # 0 BY <1>w, <2>1 DEF Writing, Holding
    <2>3. {"s_delete", "clear"} \subseteq Places /\ "clear" \notin Seats /\ "s_profile" \in Seats
      BY DEF Places, Writing, Submitted, Seats
    <2>4. jobs[j].pc # "d_student" BY <2>1
    <2>5. PICK pc \in Places : Takes(j, pc, jobs[j].face) /\ (pc \in Seats => faceLoop' = j)
      BY <1>g, <1>l, <2>1, <2>3
    <2>6. StatusMove(j, pc, jobs[j].face) BY <1>e, <2>1, <2>2, <2>4, <2>5 DEF StatusMove
    <2> QED BY <1>p, <2>6, StatusTake
  <1>4. ASSUME SubmitDelete(j) \/ UploadDelete(j) \/ DeleteEmbs(j) PROVE Goal
    <2>1. /\ UNCHANGED <<exists, proto, faceProfile, torn, faceLoop>>
          /\ \/ /\ embs' = 0
                /\ \/ jobs[j].pc = "s_delete" /\ FaceGoto(j, "s_insert")
                   \/ jobs[j].pc = "u_delete" /\ FaceGoto(j, "u_insert")
                   \/ jobs[j].pc = "d_embs" /\ FaceGoto(j, "d_proto")
             \/ jobs[j].pc = "s_delete" /\ UNCHANGED embs /\ FaceGoto(j, "s_lock")
      BY <1>4 DEF SubmitDelete, UploadDelete, DeleteEmbs, FaceAt, faceHistory
    <2>2. /\ {"s_delete", "u_delete"} \subseteq Writing \cap Seats /\ "d_proto" \notin Writing
          /\ {"s_insert", "u_insert", "d_proto", "s_lock"} \subseteq Places
          /\ {"d_proto", "s_lock"} \cap Seats = {} /\ {"u_insert", "d_proto", "s_lock"} \cap Stages = {}
          /\ "s_delete" \in Stages /\ "s_delete" \notin Between
      BY DEF Places, Writing, Holding, Submitted, Seats, Stages, Between
    <2>3. jobs[j].pc # "d_student" BY <2>1
    <2>4. PICK pc \in Places : FaceGoto(j, pc) /\ \/ embs' = 0 /\ jobs[j].pc = "s_delete" /\ pc = "s_insert"
                                                  \/ embs' = 0 /\ jobs[j].pc = "u_delete" /\ pc = "u_insert"
                                                  \/ embs' = 0 /\ jobs[j].pc = "d_embs" /\ pc = "d_proto"
                                                  \/ UNCHANGED embs /\ jobs[j].pc = "s_delete" /\ pc = "s_lock"
      BY <2>1, <2>2
    <2>5. Takes(j, pc, jobs[j].face) BY <1>g, <2>4
    <2>6. StatusMove(j, pc, jobs[j].face) BY <1>w, <1>l, <1>e, <2>1, <2>2, <2>3, <2>4, <2>5 DEF StatusMove
    <2> QED BY <1>p, <2>6, StatusTake
  <1>5. ASSUME SubmitInsert(j) \/ UploadInsert(j) PROVE Goal
    <2>1. UNCHANGED <<exists, faceProfile, proto, torn>> /\ jobs[j].pc \in {"s_insert", "u_insert"}
      BY <1>5 DEF SubmitInsert, UploadInsert, FaceAt, faceHistory
    <2>2. jobs[j].face # 0 /\ jobs[j].pc # "d_student" /\ faceLoop = j /\ jobs[j].pc \notin Between
      BY <1>w, <1>l, <2>1 DEF Writing, Submitted, Seats, Between
    <2>3. /\ {"s_proto", "u_proto", "s_lock"} \subseteq Places /\ {"s_proto", "u_proto"} \subseteq Between
          /\ "u_proto" \notin Stages /\ "s_insert" \in Stages /\ {"s_lock", "idle"} \cap Seats = {}
          /\ "s_lock" \notin Stages
      BY DEF Places, Writing, Submitted, Between, Stages, Seats
    <2>4. CASE /\ exists /\ UNCHANGED faceLoop
               /\ (jobs[j].pc = "s_insert" /\ FaceGoto(j, "s_proto")) \/ FaceGoto(j, "u_proto")
      <3>1. PICK pc \in {"s_proto", "u_proto"} : FaceGoto(j, pc) /\ (pc = "s_proto" => jobs[j].pc = "s_insert")
        BY <2>4
      <3>2. Takes(j, pc, jobs[j].face) BY <1>g, <2>3, <3>1
      <3>3. StatusMove(j, pc, jobs[j].face) BY <2>1, <2>2, <2>3, <2>4, <3>1, <3>2 DEF StatusMove
      <3> QED BY <1>p, <3>3, StatusTake
    <2>5. CASE UNCHANGED <<embs, faceLoop>> /\ FaceGoto(j, "s_lock")
      <3>1. Takes(j, "s_lock", jobs[j].face) BY <1>g, <2>3, <2>5
      <3>2. StatusMove(j, "s_lock", jobs[j].face) BY <1>e, <2>1, <2>2, <2>3, <2>5, <3>1 DEF StatusMove
      <3> QED BY <1>p, <3>2, StatusTake
    <2>6. CASE UNCHANGED embs /\ jobs' = [jobs EXCEPT ![j] = Idle]
      <3>1. Takes(j, "idle", 0) /\ "idle" \notin Writing BY <1>p, <2>6, RestTakes DEF Writing, Holding, Submitted
      <3> QED BY <1>p, <2>1, <2>2, <2>6, <3>1, StatusRests
    <2> QED BY <1>5, <2>1, <2>4, <2>5, <2>6 DEF SubmitInsert, UploadInsert, UploadFails, FaceAt
  <1>6. ASSUME SubmitProto(j) \/ UploadProto(j) PROVE Goal
    <2>1. UNCHANGED <<exists, faceProfile, embs, torn>> /\ jobs[j].pc \in {"s_proto", "u_proto"}
      BY <1>6 DEF SubmitProto, UploadProto, FaceAt, faceHistory
    <2>2. jobs[j].face # 0 /\ jobs[j].pc # "d_student" /\ faceLoop = j
      BY <1>w, <1>l, <2>1 DEF Writing, Submitted, Seats
    <2>3. /\ {"s_lock", "u_profile"} \subseteq Places /\ {"s_lock", "idle"} \cap Seats = {}
          /\ {"s_lock", "u_profile", "idle"} \cap Stages = {}
      BY DEF Places, Writing, Submitted, Seats, Stages
    <2>4. CASE exists /\ proto' = jobs[j].face /\ UNCHANGED faceLoop /\ (FaceGoto(j, "s_lock") \/ FaceGoto(j, "u_profile"))
      <3>1. PICK pc \in {"s_lock", "u_profile"} : FaceGoto(j, pc) BY <2>4
      <3>2. Takes(j, pc, jobs[j].face) BY <1>g, <2>3, <3>1
      <3>3. StatusMove(j, pc, jobs[j].face) BY <2>1, <2>2, <2>3, <2>4, <3>1, <3>2 DEF StatusMove
      <3> QED BY <1>p, <3>3, StatusTake
    <2>5. CASE jobs[j].pc = "s_proto" /\ UNCHANGED <<proto, faceLoop>> /\ FaceGoto(j, "s_lock")
      <3>1. Takes(j, "s_lock", jobs[j].face) BY <1>g, <2>3, <2>5
      <3>2. torn \/ ~exists \/ faceProfile # 0 \/ \E i \in Job : jobs[i].pc = "d_student"
        BY <2>5 DEF StatusInv, Stages
      <3>3. torn \/ embs = 0 \/ faceProfile # 0 \/ \E i \in Job \ {j} : jobs[i].pc = "d_student"
        BY <1>e, <2>2, <3>2
      <3>4. StatusMove(j, "s_lock", jobs[j].face) BY <1>e, <2>1, <2>2, <2>3, <2>5, <3>1, <3>3 DEF StatusMove
      <3> QED BY <1>p, <3>4, StatusTake
    <2>6. CASE ~exists /\ UNCHANGED proto /\ jobs' = [jobs EXCEPT ![j] = Idle]
      <3>1. Takes(j, "idle", 0) /\ "idle" \notin Writing BY <1>p, <2>6, RestTakes DEF Writing, Holding, Submitted
      <3>2. StatusMove(j, "idle", 0) BY <1>e, <2>1, <2>2, <2>3, <2>6, <3>1 DEF StatusMove
      <3> QED BY <1>p, <3>2, StatusTake
    <2> QED BY <1>6, <2>1, <2>4, <2>5, <2>6 DEF SubmitProto, UploadProto, UploadFails, FaceAt
  <1>7. ASSUME SubmitRelock(j) \/ LoadClear(j) \/ LoadSelect(j) \/ LoadFails(j) \/ LoadFill(j) \/ DeleteCheck(j)
               \/ DeleteEvict(j) \/ ToggleRead(j) \/ ToggleWrite(j)
        PROVE  Goal
    <2>1. /\ UNCHANGED <<exists, faceProfile, embs, proto, torn>> /\ (UNCHANGED faceLoop \/ faceLoop = j)
          /\ jobs[j].pc \in {"s_lock", "clear", "select", "fill", "idle", "d_evict", "t_write"}
      BY <1>7 DEF SubmitRelock, LoadClear, LoadSelect, LoadFails, LoadFill, DeleteCheck, DeleteEvict, ToggleRead,
                  ToggleWrite, faceTables, faceHistory, Starts, FaceAt
    <2>2. jobs[j].pc \notin Between BY <2>1 DEF Between
    <2>3. PICK pc, face : Takes(j, pc, face) /\ pc \notin Writing
      <3>1. {"clear", "select", "d_embs", "idle"} \subseteq Places BY DEF Places
      <3>2. {"clear", "select", "d_embs", "idle", "fill", "t_write"} \cap Writing = {}
        BY DEF Writing, Holding, Submitted
      <3>3. \/ LoadSelect(j) \/ ToggleRead(j) \/ jobs' = [jobs EXCEPT ![j] = Idle]
            \/ \E pc \in {"clear", "select", "d_embs", "idle"} : FaceGoto(j, pc)
        BY <1>7 DEF SubmitRelock, LoadClear, LoadFails, LoadFill, DeleteCheck, DeleteEvict, ToggleWrite
      <3>4. CASE LoadSelect(j) BY <1>p, <3>2, <3>4, SelectTakes
      <3>5. CASE ToggleRead(j) BY <1>p, <3>2, <3>5, ToggleTakes
      <3>6. CASE jobs' = [jobs EXCEPT ![j] = Idle] BY <1>p, <3>2, <3>6, RestTakes
      <3>7. CASE \E pc \in {"clear", "select", "d_embs", "idle"} : FaceGoto(j, pc) BY <1>g, <3>1, <3>2, <3>7
      <3> QED BY <3>3, <3>4, <3>5, <3>6, <3>7
    <2> QED BY <1>p, <2>1, <2>2, <2>3, StatusRests
  <1>8. ASSUME DeleteProto(j) \/ DeleteProfile(j) PROVE Goal
    <2>1. /\ UNCHANGED <<exists, embs, torn, faceLoop>> /\ proto' \in {0, proto}
          /\ jobs[j].pc \in {"d_proto", "d_profile"}
          /\ \/ FaceGoto(j, "d_profile") /\ UNCHANGED faceProfile
             \/ FaceGoto(j, "d_student")
      BY <1>8 DEF DeleteProto, DeleteProfile, FaceAt, faceHistory
    <2>2. {"d_profile", "d_student"} \subseteq Places /\ {"d_profile", "d_student"} \subseteq Between
          /\ {"d_profile", "d_student"} \cap Writing = {} /\ {"d_profile", "d_student"} \cap (Seats \cup Stages) = {}
      BY DEF Places, Between, Writing, Holding, Submitted, Seats, Stages
    <2>3. jobs[j].pc # "d_student" BY <2>1
    <2>4. PICK pc \in {"d_profile", "d_student"} : FaceGoto(j, pc) /\ (pc = "d_profile" => UNCHANGED faceProfile)
      BY <2>1
    <2>5. Takes(j, pc, jobs[j].face) BY <1>g, <2>2, <2>4
    <2>6. StatusMove(j, pc, jobs[j].face) BY <1>e, <2>1, <2>2, <2>3, <2>4, <2>5 DEF StatusMove
    <2> QED BY <1>p, <2>6, StatusTake
  <1>9. ASSUME DeleteFaceRow(j) PROVE Goal
    <2>1. /\ embs' = 0 /\ proto' = 0 /\ exists' = FALSE /\ FaceGoto(j, "d_evict")
          /\ UNCHANGED <<torn, faceLoop, faceProfile>>
      BY <1>9 DEF DeleteFaceRow, faceHistory
    <2>2. "d_evict" \in Places /\ "d_evict" \notin Writing /\ "d_evict" \notin Seats /\ "d_evict" \notin Stages
      BY DEF Places, Writing, Holding, Submitted, Seats, Stages
    <2>3. Takes(j, "d_evict", jobs[j].face) BY <1>g, <2>1, <2>2
    <2>4. StatusMove(j, "d_evict", jobs[j].face) BY <2>1, <2>2, <2>3 DEF StatusMove
    <2> QED BY <1>p, <2>4, StatusTake
  <1>10. ASSUME FaceRaises(j) PROVE Goal
    <2>1. /\ UNCHANGED <<exists, faceProfile, embs, proto>> /\ jobs' = [jobs EXCEPT ![j] = Idle]
          /\ (torn => torn') /\ (UNCHANGED faceLoop \/ faceLoop = j) /\ (jobs[j].pc \in Halfway => torn')
      BY <1>10 DEF FaceRaises, faceTables
    <2>2. jobs[j].pc \in Between => jobs[j].pc \in Halfway BY <1>10 DEF FaceRaises, Halfway, Between
    <2>3. Takes(j, "idle", 0) BY <1>p, <2>1, RestTakes
    <2>4. "idle" \notin Writing /\ "idle" \notin Seats /\ "idle" \notin Stages /\ "d_student" \in Between
      BY DEF Writing, Holding, Submitted, Seats, Stages, Between
    <2>5. StatusMove(j, "idle", 0) BY <1>e, <2>1, <2>2, <2>3, <2>4 DEF StatusMove
    <2> QED BY <1>p, <2>5, StatusTake
  <1> HIDE DEF Goal
  <1>11. Goal BY <1>1, <1>2, <1>3, <1>4, <1>5, <1>6, <1>7, <1>8, <1>9, <1>10
  <1> QED BY <1>11 DEF Goal

\* Whatever jobs overlap, whatever statements fail and wherever the process is
\* killed: when nobody is writing, the lock status shown (main.py:30105) says what a
\* submission would do, unless an upload or a deletion stopped halfway.
THEOREM StatusSafe == ASSUME FaceAssumption PROVE FaceSpec => []StatusTells
  <1>1. FaceInit => StatusInv
    <2> SUFFICES ASSUME FaceInit PROVE StatusInv
      OBVIOUS
    <2>1. jobs = [j \in Job |-> Idle] /\ exists = TRUE /\ can = FALSE /\ faceProfile = 0 /\ embs = 0 /\ captures = 0
      BY DEF FaceInit
    <2>2. can \in BOOLEAN BY <2>1
    <2>3. jobs \in [Job -> JobState] /\ \A j \in Job : jobs[j].pc = "idle" BY <2>1, IdleIn
    <2>4. "idle" \notin Writing /\ "idle" \notin Seats /\ "idle" \notin Stages
      BY DEF Writing, Holding, Submitted, Seats, Stages
    <2> QED BY <2>1, <2>2, <2>3, <2>4 DEF StatusInv, FacePosts
  <1>2. StatusInv /\ [FaceNext]_faceVars => StatusInv'
    <2> SUFFICES ASSUME StatusInv, [FaceNext]_faceVars PROVE StatusInv'
      OBVIOUS
    <2>1. ASSUME RequestReregistration \/ RequestSession \/ ReviewFace \/ BulkReview \/ UNCHANGED faceVars
          PROVE  StatusInv'
      <3>1. UNCHANGED <<exists, faceProfile, embs, proto, jobs, captures, faceLoop, torn>> BY <2>1, OtherSteps
      <3>2. can' \in BOOLEAN
        <4>1. can \in BOOLEAN BY DEF StatusInv, FacePosts
        <4> QED BY <2>1, <4>1, OtherSteps
      <3> QED BY <3>1, <3>2 DEF StatusInv, FacePosts
    <2>2. CASE Crash
      <3>1. /\ UNCHANGED <<exists, can, faceProfile, embs, proto, captures>> /\ jobs' = [j \in Job |-> Idle]
            /\ (torn => torn') /\ ((\E j \in Job : jobs[j].pc \in Halfway \cup {"s_proto"}) => torn')
        BY <2>2 DEF Crash, faceTables
      <3>2. jobs' \in [Job -> JobState] /\ \A j \in Job : jobs'[j].pc = "idle" BY <3>1, IdleIn
      <3>3. "idle" \notin Writing /\ "idle" \notin Seats /\ "idle" \notin Stages
        BY DEF Writing, Holding, Submitted, Seats, Stages
      <3>4. FacePosts'
        <4>1. can \in BOOLEAN BY DEF StatusInv, FacePosts
        <4>2. can' \in BOOLEAN BY <3>1, <4>1
        <4> QED BY <3>1, <3>2, <4>2 DEF StatusInv, FacePosts
      <3>5. ~torn' => ~torn /\ \A j \in Job : jobs[j].pc \notin Between BY <3>1 DEF Halfway, Between
      <3>6. ~torn' /\ embs' # 0 => faceProfile' # 0 \/ proto' # 0 BY <3>1, <3>5 DEF StatusInv
      <3>7. ~exists' => embs' = 0 /\ proto' = 0 BY <3>1 DEF StatusInv
      <3> QED BY <3>2, <3>3, <3>4, <3>6, <3>7 DEF StatusInv
    <2> QED BY <2>1, <2>2, StatusStep DEF FaceNext
  <1>3. StatusInv => StatusTells
    <2> SUFFICES ASSUME StatusInv, Quiet, ~torn PROVE (embs # 0 => faceProfile # 0 \/ proto # 0)
      BY DEF StatusTells, LockStatus, Registered
    <2>1. \A j \in Job : jobs[j].pc \in {"idle", "s_form"} BY DEF Quiet, FaceAt
    <2>2. \A j \in Job : jobs[j].pc \notin Between BY <2>1 DEF Between
    <2> QED BY <2>2 DEF StatusInv
  <1> QED BY <1>1, <1>2, <1>3, PTL DEF FaceSpec
-----------------------------------------------------------------------------
\* From the first write of a face until its load is done one job holds the event
\* loop, if the students submit and staff upload: the kiosk and the deletion write
\* in pool threads.  Behind: where the cache may not show the profile.
Behind == {"s_delete", "s_insert", "s_proto", "s_lock", "clear", "select", "fill"}
Aloft == Behind \cup {"s_profile", "u_delete", "u_insert", "u_proto", "u_profile"}
Ground == {"idle", "s_form", "t_write"}
OnLoop == \A j \in Job : Does[j] \subseteq {"submit", "upload", "toggle"}

CacheInv ==
  /\ FacePosts
  /\ \A j \in Job : jobs[j].pc \in Aloft \cup Ground
  /\ \A j \in Job : jobs[j].pc \in Aloft => faceLoop = j
  /\ \A j \in Job : jobs[j].pc = "select" => faceCache = 0
  /\ \A j \in Job : jobs[j].pc = "fill" => faceCache = 0 /\ jobs[j].face = faceProfile
  /\ \/ faceCache = faceProfile \/ (faceCache = 0 /\ unread)
     \/ \E j \in Job : jobs[j].pc \in Behind

LEMMA CacheTake ==
  ASSUME FaceAssumption, CacheInv, FacePosts', NEW j \in Job, NEW pc \in Aloft \cup Ground, NEW face,
         Takes(j, pc, face),
         pc \in Aloft => faceLoop' = j,
         UNCHANGED faceLoop \/ faceLoop = j \/ LoopFree,
         UNCHANGED <<faceCache, faceProfile>> \/ jobs[j].pc \in Aloft,
         pc = "select" => faceCache' = 0,
         pc = "fill" => faceCache' = 0 /\ face = faceProfile',
         \/ faceCache' = faceProfile' \/ pc \in Behind \/ (faceCache' = 0 /\ unread')
         \/ UNCHANGED <<faceCache, faceProfile, unread>> /\ jobs[j].pc \notin Behind
  PROVE  CacheInv'
  <1>l. \A i \in Job : jobs[i].pc \in Aloft => faceLoop = i BY DEF CacheInv
  <1>a. {"select", "fill"} \subseteq Aloft BY DEF Aloft, Behind
  <1>1. \A i \in Job : jobs'[i].pc \in Aloft \cup Ground BY DEF CacheInv, Takes
  <1>2. ASSUME NEW i \in Job, i # j, jobs'[i].pc \in Aloft PROVE faceLoop' = i /\ jobs[j].pc \notin Aloft
    <2>1. jobs[i].pc \in Aloft BY <1>2 DEF Takes
    <2>2. faceLoop = i /\ faceLoop # j BY <1>l, <1>2, <2>1
    <2>3. jobs[j].pc \notin Aloft BY <1>l, <2>2
    <2>4. ~LoopFree BY <2>2 DEF LoopFree, FaceAssumption
    <2> QED BY <2>2, <2>3, <2>4
  <1>3. \A i \in Job : jobs'[i].pc \in Aloft => faceLoop' = i
    <2> SUFFICES ASSUME NEW i \in Job, jobs'[i].pc \in Aloft PROVE faceLoop' = i
      OBVIOUS
    <2>1. CASE i = j BY <2>1 DEF Takes
    <2>2. CASE i # j BY <1>2, <2>2
    <2> QED BY <2>1, <2>2
  <1>4. \A i \in Job : jobs'[i].pc = "select" => faceCache' = 0
    <2> SUFFICES ASSUME NEW i \in Job, jobs'[i].pc = "select" PROVE faceCache' = 0
      OBVIOUS
    <2>1. CASE i = j BY <2>1 DEF Takes
    <2>2. CASE i # j
      <3>1. jobs[j].pc \notin Aloft BY <1>a, <1>2, <2>2
      <3> QED BY <2>2, <3>1 DEF CacheInv, Takes
    <2> QED BY <2>1, <2>2
  <1>5. \A i \in Job : jobs'[i].pc = "fill" => faceCache' = 0 /\ jobs'[i].face = faceProfile'
    <2> SUFFICES ASSUME NEW i \in Job, jobs'[i].pc = "fill" PROVE faceCache' = 0 /\ jobs'[i].face = faceProfile'
      OBVIOUS
    <2>1. CASE i = j BY <2>1 DEF Takes
    <2>2. CASE i # j
      <3>1. jobs[j].pc \notin Aloft BY <1>a, <1>2, <2>2
      <3> QED BY <2>2, <3>1 DEF CacheInv, Takes
    <2> QED BY <2>1, <2>2
  <1>6. faceCache' = faceProfile' \/ (faceCache' = 0 /\ unread') \/ \E i \in Job : jobs'[i].pc \in Behind
    <2>1. CASE pc \in Behind BY <2>1 DEF Takes
    <2>2. CASE UNCHANGED <<faceCache, faceProfile, unread>> /\ jobs[j].pc \notin Behind BY <2>2 DEF CacheInv, Takes
    <2> QED BY <2>1, <2>2
  <1> QED BY <1>1, <1>3, <1>4, <1>5, <1>6 DEF CacheInv

LEMMA CacheStep ==
  ASSUME FaceAssumption, OnLoop, CacheInv, NEW j \in Job,
         \/ SubmitCheck(j) \/ SubmitRequest(j) \/ SubmitProfile(j) \/ SubmitDelete(j)
         \/ SubmitInsert(j) \/ SubmitProto(j) \/ SubmitRelock(j)
         \/ LoadClear(j) \/ LoadSelect(j) \/ LoadFails(j) \/ LoadFill(j) \/ FaceRaises(j)
         \/ UploadStudent(j) \/ UploadDelete(j) \/ UploadInsert(j) \/ UploadProto(j) \/ UploadProfile(j)
         \/ KioskCheck(j) \/ KioskProfile(j)
         \/ DeleteCheck(j) \/ DeleteEmbs(j) \/ DeleteProto(j) \/ DeleteProfile(j)
         \/ DeleteFaceRow(j) \/ DeleteEvict(j)
         \/ ToggleRead(j) \/ ToggleWrite(j)
  PROVE  CacheInv'
  <1> DEFINE Goal == CacheInv'
  <1>p. FacePosts /\ FacePosts' BY PostsStep DEF CacheInv
  <1>h. jobs[j].pc \in Aloft \cup Ground /\ (jobs[j].pc \in Aloft => faceLoop = j) BY DEF CacheInv
  <1>d. {"kiosk", "delete"} \cap Does[j] = {} BY DEF OnLoop
  <1>g. \A pc \in Places : FaceGoto(j, pc) => Takes(j, pc, jobs[j].face) BY <1>p, GotoTakes
  <1>a. Aloft \cup Ground \subseteq Places BY DEF Aloft, Behind, Ground, Places, Writing, Holding, Submitted
  <1>b. Aloft \cap Ground = {} /\ Behind \subseteq Aloft /\ "idle" \in Ground /\ "s_form" \in Ground /\ "t_write" \in Ground
    BY DEF Aloft, Behind, Ground
  <1>1. ASSUME SubmitCheck(j) PROVE Goal
    <2>1. UNCHANGED <<faceCache, faceProfile, faceLoop, unread>> /\ jobs[j].pc = "idle" /\ Capture(j, "s_form", ~Registered)
      BY <1>1 DEF SubmitCheck, Starts, FaceAt, faceHistory
    <2>2. (~Registered) \in BOOLEAN OBVIOUS
    <2>3. Takes(j, "s_form", captures + 1) BY <1>p, <1>a, <1>b, <2>1, <2>2, CaptureTakes
    <2> QED BY <1>p, <1>b, <2>1, <2>3, CacheTake
  <1>2. ASSUME UploadStudent(j) PROVE Goal
    <2>1. UNCHANGED <<faceCache, faceProfile, unread>> /\ LoopFree /\ jobs[j].pc = "idle"
      BY <1>2 DEF UploadStudent, Starts, FaceAt, faceHistory
    <2>2. CASE Capture(j, "u_delete", FALSE) /\ faceLoop' = j
      <3>1. "u_delete" \in Aloft /\ "u_delete" \in Places BY <1>a DEF Aloft
      <3>2. Takes(j, "u_delete", captures + 1)
        <4>1. FALSE \in BOOLEAN OBVIOUS
        <4> QED BY <1>p, <2>2, <3>1, <4>1, CaptureTakes
      <3>3. jobs[j].pc \notin Behind BY <1>b, <2>1
      <3> QED BY <1>p, <2>1, <2>2, <3>1, <3>2, <3>3, CacheTake
    <2>3. CASE UNCHANGED <<captures, jobs, faceLoop>> BY <1>p, <2>1, <2>3 DEF CacheInv
    <2> QED BY <1>2, <2>2, <2>3 DEF UploadStudent
  <1>3. ASSUME SubmitRequest(j) PROVE Goal
    <2>1. UNCHANGED <<faceCache, faceProfile, unread>> /\ LoopFree /\ jobs[j].pc = "s_form"
      BY <1>3 DEF SubmitRequest, faceTables, FaceAt, faceHistory
    <2>2. jobs[j].pc \notin Behind BY <1>b, <2>1
    <2>3. CASE faceLoop' = j /\ FaceGoto(j, "s_profile")
      <3>1. "s_profile" \in Aloft BY DEF Aloft
      <3> QED BY <1>p, <1>g, <1>a, <2>1, <2>2, <2>3, <3>1, CacheTake
    <2>4. CASE FaceGoto(j, "idle") BY <1>p, <1>g, <1>a, <1>b, <2>1, <2>2, <2>4, CacheTake
    <2> QED BY <1>3, <2>3, <2>4 DEF SubmitRequest
  <1>4. ASSUME SubmitProfile(j) \/ SubmitDelete(j) \/ SubmitInsert(j) \/ SubmitProto(j) \/ SubmitRelock(j)
               \/ UploadProfile(j)
        PROVE  Goal
    <2>1. /\ UNCHANGED faceLoop
          /\ jobs[j].pc \in {"s_profile", "s_delete", "s_insert", "s_proto", "s_lock", "u_profile"}
          /\ \E pc \in {"s_delete", "s_insert", "s_proto", "s_lock", "clear"} : FaceGoto(j, pc)
      BY <1>4 DEF SubmitProfile, SubmitDelete, SubmitInsert, SubmitProto, SubmitRelock, UploadProfile, FaceAt
    <2>2. jobs[j].pc \in Aloft /\ {"s_delete", "s_insert", "s_proto", "s_lock", "clear"} \subseteq Behind
      BY <2>1 DEF Aloft, Behind
    <2>3. PICK pc \in {"s_delete", "s_insert", "s_proto", "s_lock", "clear"} : FaceGoto(j, pc) BY <2>1
    <2>4. pc \in Behind /\ pc \in Places /\ pc \notin {"select", "fill"} BY <1>a, <1>b, <2>2
    <2>5. Takes(j, pc, jobs[j].face) BY <1>g, <2>3, <2>4
    <2> QED BY <1>p, <1>h, <1>b, <2>1, <2>2, <2>4, <2>5, CacheTake
  <1>5. ASSUME UploadDelete(j) \/ UploadInsert(j) \/ UploadProto(j) PROVE Goal
    <2>1. /\ UNCHANGED <<faceCache, faceProfile, unread>> /\ jobs[j].pc \in {"u_delete", "u_insert", "u_proto"}
          /\ \/ jobs' = [jobs EXCEPT ![j] = Idle]
             \/ UNCHANGED faceLoop /\ \E pc \in {"u_insert", "u_proto", "u_profile"} : FaceGoto(j, pc)
      BY <1>5 DEF UploadDelete, UploadInsert, UploadProto, UploadFails, FaceAt, faceHistory
    <2>2. jobs[j].pc \in Aloft /\ jobs[j].pc \notin Behind BY <2>1 DEF Aloft, Behind
    <2>3. CASE jobs' = [jobs EXCEPT ![j] = Idle]
      <3>1. Takes(j, "idle", 0) BY <1>p, <2>3, RestTakes
      <3> QED BY <1>p, <1>b, <1>h, <2>1, <2>2, <3>1, CacheTake
    <2>4. ASSUME NEW pc \in {"u_insert", "u_proto", "u_profile"}, FaceGoto(j, pc), UNCHANGED faceLoop PROVE Goal
      <3>1. pc \in Aloft BY DEF Aloft
      <3> QED BY <1>p, <1>g, <1>a, <1>h, <2>1, <2>2, <2>4, <3>1, CacheTake
    <2> QED BY <2>1, <2>3, <2>4
  <1>6. ASSUME LoadClear(j) PROVE Goal
    <2>1. faceCache' = 0 /\ UNCHANGED faceLoop /\ jobs[j].pc = "clear" /\ FaceGoto(j, "select")
      BY <1>6 DEF LoadClear, FaceAt
    <2>2. {"clear", "select"} \subseteq Behind BY DEF Behind
    <2> QED BY <1>p, <1>g, <1>a, <1>b, <1>h, <2>1, <2>2, CacheTake
  <1>7. ASSUME LoadSelect(j) PROVE Goal
    <2>1. UNCHANGED <<faceCache, faceProfile, faceLoop>> /\ jobs[j].pc = "select"
      BY <1>7 DEF LoadSelect, faceTables, FaceAt
    <2>2. faceCache = 0 BY <2>1 DEF CacheInv
    <2>3. {"select", "fill"} \subseteq Behind BY DEF Behind
    <2>4. Takes(j, "fill", faceProfile) BY <1>p, <1>7, SelectTakes
    <2> QED BY <1>p, <1>b, <1>h, <2>1, <2>2, <2>3, <2>4, CacheTake
  <1>8. ASSUME LoadFill(j) PROVE Goal
    <2>1. /\ UNCHANGED faceProfile /\ jobs[j].pc = "fill" /\ jobs' = [jobs EXCEPT ![j] = Idle]
          /\ faceCache' = IF jobs[j].face = 0 THEN faceCache ELSE jobs[j].face
      BY <1>8 DEF LoadFill, faceTables, FaceAt
    <2>2. faceCache = 0 /\ jobs[j].face = faceProfile BY <2>1 DEF CacheInv
    <2>3. "fill" \in Behind BY DEF Behind
    <2>4. Takes(j, "idle", 0) BY <1>p, <2>1, RestTakes
    <2> QED BY <1>p, <1>b, <1>h, <2>1, <2>2, <2>3, <2>4, CacheTake
  <1>9. ASSUME ToggleRead(j) \/ ToggleWrite(j) PROVE Goal
    <2>1. UNCHANGED <<faceCache, faceProfile, faceLoop, unread>> /\ jobs[j].pc \in {"idle", "t_write"}
      BY <1>9 DEF ToggleRead, ToggleWrite, faceTables, faceHistory, Starts, FaceAt
    <2>2. jobs[j].pc \notin Behind BY <1>b, <2>1
    <2>3. CASE ToggleRead(j)
      <3>1. Takes(j, "t_write", jobs[j].face) BY <1>p, <2>3, ToggleTakes
      <3> QED BY <1>p, <1>b, <2>1, <2>2, <3>1, CacheTake
    <2>4. CASE ToggleWrite(j)
      <3>1. jobs' = [jobs EXCEPT ![j] = Idle] BY <2>4 DEF ToggleWrite
      <3>2. Takes(j, "idle", 0) BY <1>p, <3>1, RestTakes
      <3> QED BY <1>p, <1>b, <2>1, <2>2, <3>2, CacheTake
    <2> QED BY <1>9, <2>3, <2>4
  <1>10. ~(KioskCheck(j) \/ DeleteCheck(j)) BY <1>d DEF KioskCheck, DeleteCheck, Starts
  <1>11. ~(KioskProfile(j) \/ DeleteEmbs(j) \/ DeleteProto(j) \/ DeleteProfile(j) \/ DeleteFaceRow(j) \/ DeleteEvict(j))
    BY <1>h DEF KioskProfile, DeleteEmbs, DeleteProto, DeleteProfile, DeleteFaceRow, DeleteEvict, FaceAt,
                Aloft, Behind, Ground
  <1>12. ASSUME LoadFails(j) PROVE Goal
    <2>1. /\ UNCHANGED <<faceProfile, faceCache>> /\ jobs[j].pc = "select" /\ jobs' = [jobs EXCEPT ![j] = Idle]
          /\ unread'
      BY <1>12 DEF LoadFails, faceTables, FaceAt
    <2>2. faceCache = 0 BY <2>1 DEF CacheInv
    <2>3. "select" \in Behind BY DEF Behind
    <2>4. Takes(j, "idle", 0) BY <1>p, <2>1, RestTakes
    <2> QED BY <1>p, <1>b, <1>h, <2>1, <2>2, <2>3, <2>4, CacheTake
  <1>13. ASSUME FaceRaises(j) PROVE Goal
    <2>1. /\ UNCHANGED <<faceProfile, faceCache, unread>> /\ jobs' = [jobs EXCEPT ![j] = Idle]
          /\ UNCHANGED faceLoop \/ faceLoop = j
      BY <1>13 DEF FaceRaises, faceTables
    <2>2. jobs[j].pc \notin Behind BY <1>13 DEF FaceRaises, Halfway, Behind
    <2>3. Takes(j, "idle", 0) BY <1>p, <2>1, RestTakes
    <2> QED BY <1>p, <1>b, <2>1, <2>2, <2>3, CacheTake
  <1> HIDE DEF Goal
  <1>14. Goal BY <1>1, <1>2, <1>3, <1>4, <1>5, <1>6, <1>7, <1>8, <1>9, <1>10, <1>11, <1>12, <1>13
  <1> QED BY <1>14 DEF Goal

\* However submissions, uploads and the staff's toggling overlap, whatever
\* statements fail and wherever the process is killed: when nobody is writing or
\* loading, the matching reads the registered face, or none since the last load
\* failed (load_student_face_profiles, main.py:23040).  The hypothesis on the
\* jobs is needed: a registration at the kiosk or a deletion writes in a pool
\* thread, and a load of another thread may then bring back the face it replaced.
THEOREM FaceCacheSafe == ASSUME FaceAssumption, OnLoop PROVE FaceSpec => []CacheFollows
  <1>1. FaceInit => CacheInv
    <2> SUFFICES ASSUME FaceInit PROVE CacheInv
      OBVIOUS
    <2>1. jobs = [j \in Job |-> Idle] /\ can = FALSE /\ faceProfile = 0 /\ faceCache = 0 /\ captures = 0
      BY DEF FaceInit
    <2>2. can \in BOOLEAN BY <2>1
    <2>3. jobs \in [Job -> JobState] /\ \A j \in Job : jobs[j].pc = "idle" BY <2>1, IdleIn
    <2>4. "idle" \in Ground /\ "idle" \notin Aloft BY DEF Ground, Aloft, Behind
    <2> QED BY <2>1, <2>2, <2>3, <2>4 DEF CacheInv, FacePosts
  <1>2. CacheInv /\ [FaceNext]_faceVars => CacheInv'
    <2> SUFFICES ASSUME CacheInv, [FaceNext]_faceVars PROVE CacheInv'
      OBVIOUS
    <2>1. ASSUME RequestReregistration \/ RequestSession \/ ReviewFace \/ BulkReview \/ UNCHANGED faceVars
          PROVE  CacheInv'
      <3>1. UNCHANGED <<faceProfile, faceCache, jobs, faceLoop, captures, unread>> BY <2>1, OtherSteps
      <3>2. can' \in BOOLEAN
        <4>1. can \in BOOLEAN BY DEF CacheInv, FacePosts
        <4> QED BY <2>1, <4>1, OtherSteps
      <3> QED BY <3>1, <3>2 DEF CacheInv, FacePosts
    <2>2. CASE Crash
      <3>1. /\ UNCHANGED <<can, faceProfile, captures>> /\ jobs' = [j \in Job |-> Idle]
            /\ faceCache' = faceProfile \/ (faceCache' = 0 /\ unread')
        BY <2>2 DEF Crash, faceTables
      <3>2. jobs' \in [Job -> JobState] /\ \A j \in Job : jobs'[j].pc = "idle" BY <3>1, IdleIn
      <3>3. "idle" \in Ground /\ "idle" \notin Aloft BY DEF Ground, Aloft, Behind
      <3>4. FacePosts'
        <4>1. can \in BOOLEAN BY DEF CacheInv, FacePosts
        <4>2. can' \in BOOLEAN BY <3>1, <4>1
        <4> QED BY <3>1, <3>2, <4>2 DEF CacheInv, FacePosts
      <3> QED BY <3>1, <3>2, <3>3, <3>4 DEF CacheInv
    <2> QED BY <2>1, <2>2, CacheStep DEF FaceNext
  <1>3. CacheInv => CacheFollows
    <2> SUFFICES ASSUME CacheInv, Quiet PROVE faceCache = faceProfile \/ (faceCache = 0 /\ unread)
      BY DEF CacheFollows
    <2>1. \A j \in Job : jobs[j].pc \in {"idle", "s_form"} BY DEF Quiet, FaceAt
    <2>2. \A j \in Job : jobs[j].pc \notin Behind BY <2>1 DEF Behind
    <2> QED BY <2>2 DEF CacheInv
  <1> QED BY <1>1, <1>2, <1>3, PTL DEF FaceSpec
=============================================================================
