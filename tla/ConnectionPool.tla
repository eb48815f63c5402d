--------------------------- MODULE ConnectionPool ---------------------------
(***************************************************************************)
(* The cursor through which every handler reaches PostgreSQL               *)
(* (src/backend/pg_adapter.py): a connection per thread, taken from a pool *)
(* of psycopg2, opened directly when the pool has none, and replaced when  *)
(* a statement finds it broken.                                            *)
(*                                                                         *)
(* goal[t] is why thread t needs a connection: to execute its statement,   *)
(* to execute it again, or to fetch the rows of the last one.              *)
(***************************************************************************)
EXTENDS Naturals, FiniteSets

CONSTANTS
    Worker,         \* threads
    MinConn,        \* minconn of the pool
    MaxConn,        \* maxconn
    PoolFaults,     \* "refused": the server cancels a statement,
                    \* "unheard": it executes one and the answer is lost,
                    \* "ends": idle threads of the executor end
    MaxOutages      \* bound: times the server goes down

PoolAssumption ==
    /\ IsFiniteSet(Worker)
    /\ MinConn \in Nat /\ MaxConn \in Nat /\ MinConn <= MaxConn
    /\ PoolFaults \subseteq {"refused", "unheard", "ends"}
    /\ MaxOutages \in Nat

Tries == 3
Conn == 1 .. MinConn + MaxConn + 2 * Cardinality(Worker)
NoConn == 0

VARIABLES
    pool,           \* self._pool: idle and used connections, whether it is closed
    open,           \* connections whose client has not closed them
    alive,          \* those of open that the server still knows
    local,          \* self._local.conn
    direct,         \* ~ self._local.is_from_pool
    pc, goal, try,
    ran,            \* how often the server executed t's current statement
    rows,           \* the connection whose cursor holds the rows of t's last statement
    poolLock,       \* self._lock is held
    up,             \* the server accepts connections
    outages         \* bound: outages so far

poolVars == <<pool, open, alive, local, direct, pc, goal, try, ran, rows, poolLock, up, outages>>

Held == {local[t] : t \in Worker} \ {NoConn}
Holding == {t \in Worker : local[t] # NoConn /\ pc[t] # "forget"}

PoolTypeOK ==
    /\ pool \in [idle : SUBSET Conn, used : SUBSET Conn, closed : BOOLEAN]
    /\ open \subseteq Conn /\ alive \subseteq open
    /\ local \in [Worker -> Conn \cup {NoConn}] /\ direct \in [Worker -> BOOLEAN]
    /\ pc \in [Worker -> {"free", "connect", "get", "direct", "init", "build", "last",
                          "run", "return", "forget"}]
    /\ goal \in [Worker -> {"execute", "again", "fetch", "close"}]
    /\ try \in [Worker -> 1 .. Tries]
    /\ ran \in [Worker -> 0 .. 2] /\ rows \in [Worker -> Conn \cup {NoConn}]
    /\ poolLock \in BOOLEAN
    /\ up \in BOOLEAN /\ outages \in 0 .. MaxOutages

Opened == [idle |-> 1 .. MinConn, used |-> {}, closed |-> FALSE]

PoolInit ==
    /\ pool = Opened
    /\ open = 1 .. MinConn /\ alive = open
    /\ local = [t \in Worker |-> NoConn] /\ direct = [t \in Worker |-> FALSE]
    /\ pc = [t \in Worker |-> "free"] /\ goal = [t \in Worker |-> "execute"]
    /\ try = [t \in Worker |-> 1]
    /\ ran = [t \in Worker |-> 0] /\ rows = [t \in Worker |-> NoConn]
    /\ poolLock = FALSE
    /\ up = TRUE /\ outages = 0

-----------------------------------------------------------------------------
(***************************************************************************)
(* ThreadedConnectionPool of psycopg2; its lock makes each call atomic.    *)
(***************************************************************************)
Fresh == Conn \ (pool.idle \cup pool.used \cup Held)
Least(S) == CHOOSE c \in S : \A d \in S : c <= d

CanGet == /\ ~pool.closed
          /\ pool.idle # {} \/ (Cardinality(pool.used) # MaxConn /\ up)

\* getconn: an idle connection, whatever has become of it, or a new one.
GetConn(t) ==
    /\ IF pool.idle # {}
       THEN /\ \E c \in pool.idle :
                  /\ pool' = [pool EXCEPT !.idle = @ \ {c}, !.used = @ \cup {c}]
                  /\ local' = [local EXCEPT ![t] = c]
            /\ UNCHANGED <<open, alive>>
       ELSE LET c == Least(Fresh) IN
            /\ pool' = [pool EXCEPT !.used = @ \cup {c}]
            /\ local' = [local EXCEPT ![t] = c]
            /\ open' = open \cup {c} /\ alive' = alive \cup {c}
    /\ direct' = [direct EXCEPT ![t] = FALSE]

\* putconn knows only the connections of this pool; others it refuses.
Keyed(c) == ~pool.closed /\ c \in pool.used
Kept(c) == Keyed(c) /\ c \in open /\ Cardinality(pool.idle) < MinConn
Put(c) == [pool EXCEPT !.idle = IF Kept(c) THEN @ \cup {c} ELSE @,
                       !.used = IF pool.closed THEN @ ELSE @ \ {c}]

-----------------------------------------------------------------------------
(***************************************************************************)
(* _get_conn.                                                              *)
(***************************************************************************)
\* With its connection, a thread executes; a fetch is over, whether or not the
\* cursor is still the one with the rows.
Connected(t) == IF goal[t] = "fetch" THEN "free" ELSE "run"

\* _is_conn_alive: only what the client knows.
Reuse(t) ==
    /\ pc[t] = "connect"
    /\ local[t] \in open
    /\ pc' = [pc EXCEPT ![t] = Connected(t)]
    /\ UNCHANGED <<pool, open, alive, local, direct, goal, try, ran, rows, poolLock, up, outages>>

Discard(t) ==
    /\ pc[t] = "connect"
    /\ local[t] \notin open
    /\ pool' = IF direct[t] THEN pool ELSE Put(local[t])
    /\ local' = [local EXCEPT ![t] = NoConn]
    /\ pc' = [pc EXCEPT ![t] = "get"]
    /\ try' = [try EXCEPT ![t] = 1]
    /\ UNCHANGED <<open, alive, direct, goal, ran, rows, poolLock, up, outages>>

Get(t) ==
    /\ pc[t] = "get"
    /\ CanGet
    /\ GetConn(t)
    /\ pc' = [pc EXCEPT ![t] = Connected(t)]
    /\ UNCHANGED <<goal, try, ran, rows, poolLock, up, outages>>

\* A pool that is closed, exhausted or cannot connect: twice a pause.
GetFails(t) ==
    /\ pc[t] = "get"
    /\ ~CanGet
    /\ IF try[t] < Tries
       THEN try' = [try EXCEPT ![t] = @ + 1] /\ pc' = pc
       ELSE try' = try /\ pc' = [pc EXCEPT ![t] = "direct"]
    /\ UNCHANGED <<pool, open, alive, local, direct, goal, ran, rows, poolLock, up, outages>>

Direct(t) ==
    /\ pc[t] = "direct"
    /\ up
    /\ LET c == Least(Fresh) IN
       /\ local' = [local EXCEPT ![t] = c]
       /\ open' = open \cup {c} /\ alive' = alive \cup {c}
    /\ direct' = [direct EXCEPT ![t] = TRUE]
    /\ pc' = [pc EXCEPT ![t] = Connected(t)]
    /\ UNCHANGED <<pool, goal, try, ran, rows, poolLock, up, outages>>

DirectFails(t) ==
    /\ pc[t] = "direct"
    /\ ~up
    /\ pc' = [pc EXCEPT ![t] = "init"]
    /\ UNCHANGED <<pool, open, alive, local, direct, goal, try, ran, rows, poolLock, up, outages>>

\* _init_pool closes every connection of the old pool, used or not ...
CloseAll(t) ==
    /\ pc[t] = "init"
    /\ ~poolLock
    /\ poolLock' = TRUE
    /\ open' = open \ (pool.idle \cup pool.used)
    /\ alive' = alive \cap open'
    /\ pool' = [idle |-> {}, used |-> {}, closed |-> TRUE]
    /\ pc' = [pc EXCEPT ![t] = "build"]
    /\ UNCHANGED <<local, direct, goal, try, ran, rows, up, outages>>

\* ... and connects minconn times; if it cannot, the closed pool stays and the
\* statement raises.
Build(t) ==
    /\ pc[t] = "build"
    /\ poolLock' = FALSE
    /\ IF up
       THEN \E new \in SUBSET Fresh :
              /\ Cardinality(new) = MinConn
              /\ \A c \in new, d \in Fresh \ new : c < d
              /\ pool' = [idle |-> new, used |-> {}, closed |-> FALSE]
              /\ open' = open \cup new /\ alive' = alive \cup new
              /\ pc' = [pc EXCEPT ![t] = "last"]
       ELSE /\ pc' = [pc EXCEPT ![t] = "free"]
            /\ UNCHANGED <<pool, open, alive>>
    /\ UNCHANGED <<local, direct, goal, try, ran, rows, up, outages>>

LastGet(t) ==
    /\ pc[t] = "last"
    /\ IF CanGet
       THEN /\ GetConn(t)
            /\ pc' = [pc EXCEPT ![t] = Connected(t)]
       ELSE /\ pc' = [pc EXCEPT ![t] = "free"]
            /\ UNCHANGED <<pool, open, alive, local, direct>>
    /\ UNCHANGED <<goal, try, ran, rows, poolLock, up, outages>>

-----------------------------------------------------------------------------
(***************************************************************************)
(* execute, fetchone and close, called by the handlers.                    *)
(***************************************************************************)
Execute(t) ==
    /\ pc[t] = "free"
    /\ pc' = [pc EXCEPT ![t] = "connect"]
    /\ goal' = [goal EXCEPT ![t] = "execute"]
    /\ ran' = [ran EXCEPT ![t] = 0]
    /\ rows' = [rows EXCEPT ![t] = NoConn]
    /\ UNCHANGED <<pool, open, alive, local, direct, try, poolLock, up, outages>>

\* The statement is executed, or refused for its content.
Run(t) ==
    /\ pc[t] = "run"
    /\ local[t] \in alive
    /\ pc' = [pc EXCEPT ![t] = "free"]
    /\ \/ /\ ran' = [ran EXCEPT ![t] = @ + 1]
          /\ rows' = [rows EXCEPT ![t] = local[t]]
       \/ UNCHANGED <<ran, rows>>
    /\ UNCHANGED <<pool, open, alive, local, direct, goal, try, poolLock, up, outages>>

\* OperationalError or InterfaceError: the connection is returned and the
\* statement repeated, once.
Failed(t) == [pc EXCEPT ![t] = IF goal[t] = "execute" THEN "return" ELSE "free"]

\* The client finds out that the connection is gone.
RunBroken(t) ==
    /\ pc[t] = "run"
    /\ local[t] \notin alive
    /\ open' = open \ {local[t]}
    /\ pc' = Failed(t)
    /\ UNCHANGED <<pool, alive, local, direct, goal, try, ran, rows, poolLock, up, outages>>

\* The connection survives.
RunRefused(t) ==
    /\ pc[t] = "run" /\ "refused" \in PoolFaults
    /\ local[t] \in alive
    /\ pc' = Failed(t)
    /\ UNCHANGED <<pool, open, alive, local, direct, goal, try, ran, rows, poolLock, up, outages>>

RunUnheard(t) ==
    /\ pc[t] = "run" /\ "unheard" \in PoolFaults
    /\ local[t] \in alive
    /\ ran' = [ran EXCEPT ![t] = @ + 1]
    /\ open' = open \ {local[t]} /\ alive' = alive \ {local[t]}
    /\ pc' = Failed(t)
    /\ UNCHANGED <<pool, local, direct, goal, try, rows, poolLock, up, outages>>

Fetch(t) ==
    /\ pc[t] = "free"
    /\ rows[t] # NoConn
    /\ pc' = [pc EXCEPT ![t] = "connect"]
    /\ goal' = [goal EXCEPT ![t] = "fetch"]
    /\ UNCHANGED <<pool, open, alive, local, direct, try, ran, rows, poolLock, up, outages>>

Close(t) ==
    /\ pc[t] = "free"
    /\ local[t] # NoConn
    /\ pc' = [pc EXCEPT ![t] = "return"]
    /\ goal' = [goal EXCEPT ![t] = "close"]
    /\ rows' = [rows EXCEPT ![t] = NoConn]
    /\ UNCHANGED <<pool, open, alive, local, direct, try, ran, poolLock, up, outages>>

\* What the pool does not keep is closed.
Return(t) ==
    /\ pc[t] = "return"
    /\ pool' = IF direct[t] THEN pool ELSE Put(local[t])
    /\ open' = IF ~direct[t] /\ Kept(local[t]) THEN open ELSE open \ {local[t]}
    /\ alive' = alive \cap open'
    /\ pc' = [pc EXCEPT ![t] = "forget"]
    /\ UNCHANGED <<local, direct, goal, try, ran, rows, poolLock, up, outages>>

Forget(t) ==
    /\ pc[t] = "forget"
    /\ local' = [local EXCEPT ![t] = NoConn]
    /\ IF goal[t] = "execute"
       THEN /\ pc' = [pc EXCEPT ![t] = "connect"]
            /\ goal' = [goal EXCEPT ![t] = "again"]
       ELSE /\ pc' = [pc EXCEPT ![t] = "free"]
            /\ goal' = goal
    /\ UNCHANGED <<pool, open, alive, direct, try, ran, rows, poolLock, up, outages>>

\* The executor lets an idle thread end: its locals are gone, and a connection
\* that no pool refers to is closed.
ThreadEnds(t) ==
    /\ pc[t] = "free" /\ "ends" \in PoolFaults
    /\ local[t] # NoConn
    /\ open' = IF direct[t] THEN open \ {local[t]} ELSE open
    /\ alive' = alive \cap open'
    /\ local' = [local EXCEPT ![t] = NoConn]
    /\ rows' = [rows EXCEPT ![t] = NoConn]
    /\ UNCHANGED <<pool, direct, pc, goal, try, ran, poolLock, up, outages>>

\* The server goes down with all its sessions, and comes back.
Outage ==
    /\ up /\ outages < MaxOutages
    /\ up' = FALSE /\ alive' = {}
    /\ outages' = outages + 1
    /\ UNCHANGED <<pool, open, local, direct, pc, goal, try, ran, rows, poolLock>>

Restored ==
    /\ ~up
    /\ up' = TRUE
    /\ UNCHANGED <<pool, open, alive, local, direct, pc, goal, try, ran, rows, poolLock, outages>>

PoolNext ==
    \/ \E t \in Worker :
          \/ Reuse(t) \/ Discard(t) \/ Get(t) \/ GetFails(t) \/ Direct(t) \/ DirectFails(t)
          \/ CloseAll(t) \/ Build(t) \/ LastGet(t)
          \/ Execute(t) \/ Run(t) \/ RunBroken(t) \/ RunRefused(t) \/ RunUnheard(t)
          \/ Fetch(t) \/ Close(t) \/ Return(t) \/ Forget(t) \/ ThreadEnds(t)
    \/ Outage \/ Restored

PoolSpec == PoolInit /\ [][PoolNext]_poolVars

-----------------------------------------------------------------------------
\* A connection has one user: no two threads hold the same, and the pool offers
\* none that a thread still uses, through outages and pools replaced under way.
OneUser ==
    \A t \in Holding :
        /\ local[t] \notin pool.idle
        /\ \A u \in Holding \ {t} : local[u] # local[t]

\* Nothing leaks: each open connection waits in the pool or belongs to a thread,
\* and so does each place of the pool. So there are never more connections than
\* minconn and one for each thread.
NoLeak ==
    /\ open \cup pool.used \subseteq pool.idle \cup Held
    /\ Cardinality(pool.idle) <= MinConn /\ Cardinality(pool.used) <= MaxConn

\* A statement is executed at most once, repeated or not.
ExecutedOnce == \A t \in Worker : ran[t] <= 1

\* Rows are fetched from the cursor that holds them.
RowsFetched ==
    [][\A t \in Worker : pc[t] # "free" /\ pc'[t] = "free" /\ goal[t] = "fetch" =>
           local'[t] = rows[t]]_poolVars

\* A closed pool is bypassed only while somebody replaces it.
ClosedIsReplaced ==
    [][\A t \in Worker : direct'[t] /\ ~direct[t] => ~pool.closed \/ poolLock]_poolVars
=============================================================================
