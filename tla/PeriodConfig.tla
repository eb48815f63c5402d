---------------------------- MODULE PeriodConfig ----------------------------
(***************************************************************************)
(* The times of the periods: configurations for a department, a batch, a   *)
(* semester or a class, and the parts of the program that look them up, by *)
(* different queries and with different arithmetic.                        *)
(***************************************************************************)
EXTENDS Integers, FiniteSets, FiniteSetsExt, SequencesExt

CONSTANTS Depts, HomeDept, \* the departments; the one a query without a department means
          PBatches, Sems, Secs, \* the batches, semesters and sections
          Types,     \* the semester types: "all" or more
          Configs,   \* the configurations entered: [start, dur, breaks: a sequence of <<after, minutes>>]
          Seeded,    \* the configurations that departments start with: [Depts -> a subset of Configs]
          Standard,  \* the configuration built into the program
          PcPeriods, \* the number of periods
          Grace,     \* the minutes after the end of a period before absences are marked
          Scopes,    \* the scopes of the saves in this instance
          Features,  \* the operations used in this instance
          MaxSaves,  \* bound: saves and resets
          NoConfig   \* a model value: nothing cached

(* What the theorems take from the constants. *)
PeriodSettings ==
  /\ HomeDept \in Depts /\ "all" \in Types /\ "all" \notin PBatches \cup Secs /\ 0 \notin Sems
  /\ Configs \cup {Standard} \subseteq [start : Nat, dur : Nat, breaks : Seq(Nat \X Nat)]
  /\ NoConfig \notin Configs \cup {Standard}
  /\ Seeded \in [Depts -> SUBSET Configs] /\ \A d \in Depts : \A g, h \in Seeded[d] : g = h
  /\ Scopes \subseteq {"dept", "batch", "semester", "class"} /\ MaxSaves \in Nat
\* No configuration has two breaks after one period.
SingleBreaks ==
  \A g \in Configs \cup {Standard} : \A i, j \in 1 .. Len(g.breaks) :
    g.breaks[i][1] = g.breaks[j][1] => i = j

PClasses == [dept : Depts, batch : PBatches, sem : Sems, sec : Secs]
PKeys == [dept : Depts, batch : PBatches \cup {"all"}, sem : Sems \cup {0}, sec : Secs \cup {"all"}]
KeyOf(r) == [dept |-> r.dept, batch |-> r.batch, sem |-> r.sem, sec |-> r.sec]

VARIABLES pcRows,  \* academic_period_configs
          windows, \* _fast_cache: what the class sessions of a department take for its configuration
          last,    \* ghost: the last save [scope, key, cfg], or a reset
          saves    \* saves and resets so far; the number stands for updated_at
pcVars == <<pcRows, windows, last, saves>>

(* The type invariant: one row for a scope and semester type. *)
PcTypeOK ==
  /\ \A r \in pcRows : KeyOf(r) \in PKeys /\ r.type \in Types /\ r.cfg \in Configs /\ r.at \in 0 .. MaxSaves
  /\ \A r, s \in pcRows : KeyOf(r) = KeyOf(s) /\ r.type = s.type => r = s
  /\ windows \in [Depts -> Configs \cup {Standard, NoConfig}]

PcInit == /\ pcRows = UNION {{[dept |-> d, batch |-> "all", sem |-> 0, sec |-> "all", type |-> "all", cfg |-> g, at |-> 0] :
                               g \in Seeded[d]} : d \in Depts}
          /\ windows = [d \in Depts |-> NoConfig]
          /\ last = [scope |-> "none"]
          /\ saves = 0

-----------------------------------------------------------------------------
(* Looking a configuration up. *)

Whole(r) == r.batch = "all" /\ r.sem = 0 /\ r.sec = "all"
\* The rows that may apply to a query, and how specific each one is.
Candidates(q) == {r \in pcRows : /\ r.dept = q.dept
                                 /\ r.batch \in {q.batch, "all"}
                                 /\ r.sem \in {q.sem, 0}
                                 /\ r.sec \in {q.sec, "all"}}
Score(r, q) ==
  IF r.batch = q.batch /\ r.sem = q.sem /\ r.sec = q.sec /\ r.batch # "all" /\ r.sem # 0 /\ r.sec # "all" THEN 40
  ELSE IF r.batch = q.batch /\ r.sem = q.sem /\ r.sec = "all" /\ r.batch # "all" /\ r.sem # 0 THEN 30
  ELSE IF r.batch = q.batch /\ r.sem = 0 /\ r.sec = "all" /\ r.batch # "all" THEN 20
  ELSE IF Whole(r) THEN 10 ELSE 1

Newest(R) == CHOOSE r \in R : \A s \in R : s.at <= r.at
\* The row of a query: the most specific, then the most recently saved.
Best(R, q) == Newest({r \in R : \A s \in R : Score(s, q) <= Score(r, q)})

\* The configuration of a class; without candidates, the department's newest row.
ForClass(q) ==
  LET dept == {r \in pcRows : r.dept = q.dept}
  IN  IF Candidates(q) # {} THEN Best(Candidates(q), q).cfg
      ELSE IF dept # {} THEN Newest(dept).cfg ELSE Standard

\* The configurations by which a class's periods are taken for concluded: a query without the batch.
ForAbsence(c) == ForClass([c EXCEPT !.batch = "all"])

\* The configuration of every teacher's list: a query with the defaults only.
ForStaff == ForClass([dept |-> HomeDept, batch |-> "all", sem |-> 0, sec |-> "all"])

\* A configuration of a department by LIMIT 1 without an order: any of its rows.
ForDate(d) == LET R == {r \in pcRows : r.dept = d} IN IF R = {} THEN {Standard} ELSE {r.cfg : r \in R}

-----------------------------------------------------------------------------
(* The times of a period. *)

Sum(S) == FoldSet(LAMBDA i, s : s + i[2], 0, S)
Until(g, p) == {i \in 1 .. Len(g.breaks) : g.breaks[i][1] < p}
\* Every break before a period counts (the teacher's list, the sessions).
ListStart(g, p) == g.start + (p - 1) * g.dur + Sum({<<i, g.breaks[i][2]>> : i \in Until(g, p)})
\* Of two breaks after one period only the last counts (the timetables).
GridStart(g, p) ==
  g.start + (p - 1) * g.dur +
  Sum({<<i, g.breaks[i][2]>> : i \in {i \in Until(g, p) : \A j \in Until(g, p) : g.breaks[j][1] = g.breaks[i][1] => j <= i}})

-----------------------------------------------------------------------------
(* Saving. *)

\* The scope's key for the class named in a request.
ScopeKey(scope, k) ==
  CASE scope = "dept" -> [k EXCEPT !.batch = "all", !.sem = 0, !.sec = "all"]
    [] scope = "batch" -> [k EXCEPT !.sem = 0, !.sec = "all"]
    [] scope = "semester" -> [k EXCEPT !.sec = "all"]
    [] OTHER -> k

\* The scope's row is updated or inserted.
Save(scope, k, type, g) ==
  LET key == ScopeKey(scope, k)
      old == {r \in pcRows : KeyOf(r) = key /\ r.type = type}
  IN  /\ "save" \in Features /\ scope \in Scopes /\ saves < MaxSaves
      /\ saves' = saves + 1
      /\ pcRows' = (pcRows \ old) \cup
           {[dept |-> key.dept, batch |-> key.batch, sem |-> key.sem, sec |-> key.sec, type |-> type, cfg |-> g, at |-> saves + 1]}
      /\ last' = [scope |-> scope, key |-> key, cfg |-> g]
      /\ UNCHANGED windows

\* The row is deleted: its classes inherit again.
Reset(k, type) ==
  /\ "reset" \in Features /\ saves < MaxSaves
  /\ \E r \in pcRows : KeyOf(r) = k /\ r.type = type /\ pcRows' = pcRows \ {r}
  /\ saves' = saves + 1
  /\ last' = [scope |-> "reset", key |-> k, cfg |-> Standard]
  /\ UNCHANGED windows

\* A session of the department computes the times of its period; a miss reads any row.
ComputePeriodTimes(d) ==
  /\ "window" \in Features
  /\ windows[d] = NoConfig
  /\ \E r \in pcRows : r.dept = d /\ windows' = [windows EXCEPT ![d] = r.cfg]
  /\ UNCHANGED <<pcRows, last, saves>>
\* The cached times expire after ten minutes.
Expire(d) == /\ windows[d] # NoConfig
             /\ windows' = [windows EXCEPT ![d] = NoConfig]
             /\ UNCHANGED <<pcRows, last, saves>>

PcNext == \/ \E scope \in Scopes, k \in PKeys, type \in Types, g \in Configs :
               (k \in PClasses \/ (scope # "class" /\ "wide" \in Features)) /\ Save(scope, k, type, g)
          \/ \E k \in PKeys, type \in Types : Reset(k, type)
          \/ \E d \in Depts : ComputePeriodTimes(d) \/ Expire(d)

PcSpec == PcInit /\ [][PcNext]_pcVars

-----------------------------------------------------------------------------
(* Properties. *)

InScope(c, k) == c.dept = k.dept /\ k.batch \in {c.batch, "all"} /\ k.sem \in {c.sem, 0} /\ k.sec \in {c.sec, "all"}
RowsAt(k) == {r \in pcRows : KeyOf(r) = k}

\* The documented hierarchy: a class has its own configuration, else the
\* semester's, else the batch's, else the department's; the newest of each.
Hierarchy ==
  \A c \in PClasses :
    LET levels == <<RowsAt(c), RowsAt(ScopeKey("semester", c)), RowsAt(ScopeKey("batch", c)), RowsAt(ScopeKey("dept", c))>>
        found == {i \in 1 .. 4 : levels[i] # {}}
    IN  found # {} => ForClass(c) = Newest(levels[Min(found)]).cfg

\* A configuration saved for a part of a department leaves the others as they were.
OthersKept == [][last' # last => \A c \in PClasses : ~InScope(c, last'.key) => ForClass(c)' = ForClass(c)]_pcVars

\* A saved configuration is in force for every class of its scope that has no
\* configuration for a smaller part of it.
InForce ==
  last' # last /\ last'.scope # "reset" =>
    \A c \in PClasses :
      InScope(c, last'.key) /\ (\A r \in pcRows : InScope(c, r) /\ InScope(r, last'.key) => KeyOf(r) = last'.key)
        => ForClass(c)' = last'.cfg

\* The class timetable, the teacher's list, the timetable of a date and the
\* windows of a session give each period of a class the same time.
OneTime == \A c \in PClasses, p \in 1 .. PcPeriods :
             LET t == GridStart(ForClass(c), p)
             IN  /\ ListStart(ForStaff, p) = t
                 /\ \A g \in ForDate(c.dept) : GridStart(g, p) = t

\* The teacher's list has the times of the class timetables.
StaffTimes == \A c \in PClasses, p \in 1 .. PcPeriods : ListStart(ForStaff, p) = GridStart(ForClass(c), p)
\* No absence is marked before the class's period is over.
ConcludedOnly == \A c \in PClasses, p \in 1 .. PcPeriods :
                   GridStart(ForAbsence(c), p) + ForAbsence(c).dur + Grace
                     >= GridStart(ForClass(c), p) + ForClass(c).dur
=============================================================================
