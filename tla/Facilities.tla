----------------------------- MODULE Facilities -----------------------------
(***************************************************************************)
(* The halls of the campus and their categories.  A hall names its type; a *)
(* category lists the halls whose type is its code or an alias of it.      *)
(***************************************************************************)
EXTENDS Naturals, FiniteSets

CONSTANTS Halls,       \* venue codes
          Codes,       \* category codes, and types of halls
          Aliases,     \* the sets of codes that the list takes for the same
          Entered,     \* the statuses that an admin may enter in the update form
          FacFeatures, \* the operations used in this instance
          MaxFac,      \* bound: requests
          NoHall, NoCat \* model values: not registered, no category

Statuses == {"AVAILABLE", "UNDER_MAINTENANCE", "RESERVED", "OFFLINE"}

VARIABLES halls,    \* campus_venues: [code -> NoHall or a row]
          cats,     \* campus_facility_categories: [code -> NoCat or a row]
          fdone,    \* ghost: the last request <<op, what>>
          fops      \* the requests so far
facVars == <<halls, cats, fdone, fops>>

HallRows == [type : Codes, status : Statuses \cup Entered, active : BOOLEAN]
CatRows == [system : BOOLEAN, active : BOOLEAN]

(* The type invariant. *)
FacTypeOK == /\ halls \in [Halls -> HallRows \cup {NoHall}]
             /\ cats \in [Codes -> CatRows \cup {NoCat}]
             /\ fops \in 0 .. MaxFac

\* The preset categories may be there from an older version.
FacInit == /\ halls = [h \in Halls |-> NoHall]
           /\ \E P \in SUBSET Codes :
                cats = [c \in Codes |-> IF c \in P THEN [system |-> TRUE, active |-> TRUE] ELSE NoCat]
           /\ fdone = <<"none">>
           /\ fops = 0

Asked(op, x) == /\ op \in FacFeatures
                /\ fops < MaxFac /\ fops' = fops + 1
                /\ fdone' = <<op, x>>

\* The registered halls that are shown.
Shown == {h \in Halls : halls[h] # NoHall /\ halls[h].active}
Alias(c, t) == c = t \/ \E A \in Aliases : {c, t} \subseteq A
\* What a list by type, or a category's count, takes in.
OfCategory(c) == {h \in Shown : Alias(c, halls[h].type)}

\* A hall that is known takes the new values, but stays as active as it was.
Register(h, t) ==
  /\ Asked("register", h)
  /\ halls' = [halls EXCEPT ![h] = IF halls[h] = NoHall
                                   THEN [type |-> t, status |-> "AVAILABLE", active |-> TRUE]
                                   ELSE [halls[h] EXCEPT !.type = t]]
  /\ UNCHANGED cats
UpdateHall(h, t, s) ==
  /\ Asked("update", h)
  /\ halls[h] # NoHall
  /\ halls' = [halls EXCEPT ![h].type = t, ![h].status = s]
  /\ UNCHANGED cats
SetStatus(h, s) ==
  /\ Asked("status", h)
  /\ halls[h] # NoHall
  /\ halls' = [halls EXCEPT ![h].status = s]
  /\ UNCHANGED cats
Deactivate(h) ==
  /\ Asked("deactivate", h)
  /\ halls[h] # NoHall
  /\ halls' = [halls EXCEPT ![h].active = FALSE]
  /\ UNCHANGED cats

CreateCat(c) ==
  /\ Asked("create", c)
  /\ cats' = [cats EXCEPT ![c] = IF cats[c] = NoCat THEN [system |-> FALSE, active |-> TRUE]
                                 ELSE [cats[c] EXCEPT !.active = TRUE]]
  /\ UNCHANGED halls

\* The halls of exactly the old type take the new one.
Retyped(c, n) == [h \in Halls |-> IF halls[h] # NoHall /\ halls[h].type = c
                                  THEN [halls[h] EXCEPT !.type = n] ELSE halls[h]]
\* The code of another category is refused by the unique constraint.  The category
\* and its halls are two statements, and the second may fail alone.
RenameCat(c, n, whole) ==
  /\ Asked("rename", [of |-> c, to |-> n, whole |-> whole])
  /\ c = n \/ cats[c] = NoCat \/ cats[n] = NoCat
  /\ c = n => whole
  /\ cats' = IF cats[c] = NoCat THEN cats
             ELSE [cats EXCEPT ![c] = NoCat, ![n] = [cats[c] EXCEPT !.active = TRUE]]
  /\ halls' = IF c # n /\ whole THEN Retyped(c, n) ELSE halls

\* With halls of exactly this type the row is kept, switched off.
DeleteCat(c) ==
  /\ Asked("delete", c)
  /\ cats[c] # NoCat
  /\ cats' = [cats EXCEPT ![c] = IF \E h \in Shown : halls[h].type = c
                                 THEN [cats[c] EXCEPT !.active = FALSE] ELSE NoCat]
  /\ UNCHANGED halls
ResetClean ==
  /\ Asked("reset", "all")
  /\ cats' = [c \in Codes |-> IF cats[c] # NoCat /\ cats[c].system THEN NoCat ELSE cats[c]]
  /\ UNCHANGED halls

FacNext == \/ \E h \in Halls, t \in Codes : Register(h, t)
           \/ \E h \in Halls, t \in Codes, s \in Statuses \cup Entered : UpdateHall(h, t, s)
           \/ \E h \in Halls, s \in Statuses : SetStatus(h, s)
           \/ \E h \in Halls : Deactivate(h)
           \/ \E c \in Codes : CreateCat(c) \/ DeleteCat(c)
           \/ \E c, n \in Codes, whole \in BOOLEAN : RenameCat(c, n, whole)
           \/ ResetClean
FacSpec == FacInit /\ [][FacNext]_facVars

-----------------------------------------------------------------------------
(* Properties. *)

Renamed(c, n) == fops' # fops /\ fdone' = <<"rename", [of |-> c, to |-> n, whole |-> TRUE]>>

\* A rename that completes, also one that is repeated because the halls were not
\* reached at first, takes along every hall entered under the old code.
RenameTakes ==
  \A c, n \in Codes : Renamed(c, n) => {h \in Shown : halls[h].type = c} \subseteq OfCategory(n)'

\* A category that is renamed keeps its halls (main.py:35931): those that are
\* listed under an alias of the old code are left behind.
RenameKeeps ==
  \A c, n \in Codes : Renamed(c, n) /\ cats[c] # NoCat => OfCategory(c) \subseteq OfCategory(n)'

=============================================================================
