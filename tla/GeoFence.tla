------------------------------ MODULE GeoFence ------------------------------
(* The polygons of the campus: their rows in geo_fence_coordinates_v2, which
   the mobile app reads through get_geo_fence_public, and the copy in memory
   that every check of the server uses.  update_geo_fence_coordinates deletes
   the rows and inserts the points one by one, each statement durable by
   itself; the start of the server fills an empty table from the older table
   or from defaults and then loads the copy. *)
EXTENDS Naturals, Sequences, SequencesExt, FiniteSets

CONSTANTS
  Fences,     \* the fences an administrator may send
  Defaults,   \* the fence of the source code
  Older,      \* the fence of the older table, or None
  Points,     \* points of every polygon
  MaxUpdates, \* bound: updates ever sent
  Faults,     \* "crash": the server may stop between statements,
              \* "error": a statement may fail
  None

Types == {"outer", "inner", "limit_range"}
Least == 3     \* a polygon of fewer points is not loaded

(* A fence: for each type the sequence of its polygons. *)
FenceAssumption ==
  /\ \A f \in Fences \cup {Defaults} : DOMAIN f = Types /\ Len(f["outer"]) > 0
  /\ Older = None \/ DOMAIN Older = {"outer", "inner"}
  /\ Points \in Nat /\ Points >= Least /\ MaxUpdates \in Nat

VARIABLES
  rows,    \* the table: set of [type, group, poly, order]
  memory,  \* _geo_fence_outer_polygons and the like: type -> polygons
  job,     \* the request or the start in progress, or None
  up,      \* the server runs
  sent,    \* bound
  last     \* history: the fence of the last update that was answered with success

vars == <<rows, memory, job, up, sent, last>>

TypeOK ==
  /\ \A r \in rows : r.type \in Types /\ r.order \in 1 .. Points
  /\ \A r, s \in rows : r.type = s.type /\ r.group = s.group /\ r.order = s.order => r = s
  /\ DOMAIN memory = Types
  /\ up \in BOOLEAN /\ (job # None => up)

-----------------------------------------------------------------------------
(* The rows of a fence in the order of their INSERTs. *)
PolygonRows(t, g, poly) == [i \in 1 .. Points |-> [type |-> t, group |-> g, poly |-> poly, order |-> i]]
TypeRows(t, polys) == FlattenSeq([g \in DOMAIN polys |-> PolygonRows(t, g, polys[g])])
FenceRows(f) == TypeRows("outer", f["outer"]) \o TypeRows("inner", f["inner"])
                \o (IF "limit_range" \in DOMAIN f THEN TypeRows("limit_range", f["limit_range"]) ELSE <<>>)

(* _load_geo_fence_polygons_from_db; a polygon that lacks points is another
   polygon. *)
Group(t, g) == {r \in rows : r.type = t /\ r.group = g}
Load ==
  [t \in Types |->
     LET groups == {g \in {r.group : r \in rows} : Cardinality(Group(t, g)) >= Least}
     IN [i \in 1 .. Cardinality(groups) |->
           LET g == SetToSortSeq(groups, <)[i]
           IN <<(CHOOSE r \in Group(t, g) : TRUE).poly, Cardinality(Group(t, g))>>]]

Whole(f) == [t \in Types |-> IF t \in DOMAIN f THEN [i \in DOMAIN f[t] |-> <<f[t][i], Points>>] ELSE <<>>]

(* The copy before it is loaded: the source has a default for the outer polygon
   and none for the others. *)
Hard == Whole([outer |-> Defaults["outer"]])

-----------------------------------------------------------------------------
Init ==
  /\ rows = {} /\ memory = Hard
  /\ job = None /\ up = FALSE /\ sent = 0 /\ last = None

(* The start: an empty table is filled, then the copy is loaded; what the
   table lacks keeps the value of the source. *)
Start ==
  /\ ~up
  /\ up' = TRUE
  /\ memory' = Hard
  /\ job' = [kind |-> "start", fence |-> None,
             todo |-> IF rows # {} THEN <<>>
                      ELSE IF Older # None THEN FenceRows(Older)
                      ELSE FenceRows([Defaults EXCEPT !["limit_range"] = <<>>])]
  /\ UNCHANGED <<rows, sent, last>>

Loaded ==
  /\ job # None /\ job.kind = "start" /\ job.todo = <<>>
  /\ memory' = [t \in Types |-> IF Load[t] # <<>> THEN Load[t] ELSE memory[t]]
  /\ job' = None
  /\ UNCHANGED <<rows, up, sent, last>>

(* The validated request deletes every row first. *)
Update ==
  /\ up /\ job = None /\ sent < MaxUpdates
  /\ \E f \in Fences : job' = [kind |-> "update", fence |-> f, todo |-> FenceRows(f)]
  /\ rows' = {} /\ sent' = sent + 1
  /\ UNCHANGED <<memory, up, last>>

Insert ==
  /\ job # None /\ job.todo # <<>>
  /\ rows' = rows \cup {Head(job.todo)}
  /\ job' = [job EXCEPT !.todo = Tail(@)]
  /\ UNCHANGED <<memory, up, sent, last>>

(* Only then the copy in memory is replaced and the answer given. *)
Finish ==
  /\ job # None /\ job.kind = "update" /\ job.todo = <<>>
  /\ memory' = Whole(job.fence) /\ last' = job.fence
  /\ job' = None
  /\ UNCHANGED <<rows, up, sent>>

(* An INSERT fails: "Failed to update geo fence coordinates". *)
Failed ==
  /\ "error" \in Faults
  /\ job # None /\ job.kind = "update" /\ job.todo # <<>>
  /\ job' = None
  /\ UNCHANGED <<rows, memory, up, sent, last>>

(* The server stops, between two statements only if it crashes. *)
Stop ==
  /\ up
  /\ job # None => "crash" \in Faults
  /\ up' = FALSE /\ job' = None
  /\ UNCHANGED <<rows, memory, sent, last>>

Next == Start \/ Loaded \/ Update \/ Insert \/ Finish \/ Failed \/ Stop

Spec == Init /\ [][Next]_vars

-----------------------------------------------------------------------------
(* The fence an administrator was told is stored is the one enforced, also
   after the server was started again. *)
Kept == up /\ job = None /\ last # None => memory = Whole(last)

=============================================================================
