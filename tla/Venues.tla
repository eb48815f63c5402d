------------------------------- MODULE Venues -------------------------------
(***************************************************************************)
(* Rooms of the timetable: a class has its weekly room and may be moved on *)
(* one date.  The engine that offers free rooms looks at both; moving a    *)
(* class looks at the weekly rooms alone.                                  *)
(***************************************************************************)
EXTENDS Timetable, Facilities

CONSTANTS NDates,   \* the dates are 1 .. NDates
          WeekdayOf, \* [date -> working day]
          MaxMoves, \* bound: relocations
          NoRoom    \* a model value: not moved

Dates == 1 .. NDates

VARIABLES moved,   \* class_venue_overrides: [<<class, period, date>> -> NoRoom or a room]
          moves    \* the relocations so far
Moves == Classes \X Periods \X Dates
venVars == <<moved, moves>>

(* The type invariant. *)
TypeOK == /\ TtTypeOK /\ FacTypeOK
          /\ moved \in [Moves -> Rooms \cup {NoRoom}]
          /\ moves \in 0 .. MaxMoves

Init == /\ TtInit /\ FacInit
        /\ moved = [m \in Moves |-> NoRoom]
        /\ moves = 0

\* The lessons of a class at a time, and the room of one on a date.
At(c, d, p) == Taken({k \in OfDay(c, d) : k[3] = p})
RoomOn(k, t) == IF moved[<<k[1], k[3], t>>] # NoRoom THEN moved[<<k[1], k[3], t>>] ELSE slots[k].room

WeeklyRooms(d, p) == {slots[k].room : k \in Taken({x \in Keys : x[2] = d /\ x[3] = p})}
\* The rooms that are offered for a period of a date.
Vacant(d, p, t) ==
  {h \in Shown : /\ h \notin WeeklyRooms(d, p)
                 /\ \A c \in Classes : moved[<<c, p, t>>] # h}

\* A class moves on a date; its weekly room changes with it.
Relocate(c, p, t, r) ==
  LET d == WeekdayOf[t]
  IN  /\ moves < MaxMoves /\ moves' = moves + 1
      /\ At(c, d, p) # {}
      /\ \A e \in Classes \ {c} : \A k \in At(e, d, p) : slots[k].room # r
      /\ moved' = [moved EXCEPT ![<<c, p, t>>] = r]
      /\ slots' = [k \in Keys |-> IF k \in At(c, d, p) THEN [slots[k] EXCEPT !.room = r] ELSE slots[k]]
      /\ UNCHANGED <<allocs, curriculum, done, ops, facVars>>

Next == \/ \E c \in Classes, p \in Periods, t \in Dates, r \in Rooms : Relocate(c, p, t, r)
        \/ TtNext /\ UNCHANGED <<facVars, venVars>>
        \/ FacNext /\ UNCHANGED <<ttVars, venVars>>
vars == <<ttVars, facVars, venVars>>
Spec == Init /\ [][Next]_vars

-----------------------------------------------------------------------------
(* Properties. *)

\* A room that is offered for a period of a date is used by no class then,
\* whatever has been moved and saved again since (main.py:36241).
VacantIsFree == \A t \in Dates, p \in Periods : \A h \in Vacant(WeekdayOf[t], p, t) :
                  \A c \in Classes : \A k \in At(c, WeekdayOf[t], p) : RoomOn(k, t) # h

\* A class that was moved has its room for itself.
MovedAlone == \A c, e \in Classes, t \in Dates, p \in Periods :
                /\ c # e /\ moved[<<c, p, t>>] # NoRoom /\ moved[<<e, p, t>>] # NoRoom
                => moved[<<c, p, t>>] # moved[<<e, p, t>>]

=============================================================================
