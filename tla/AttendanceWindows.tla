------------------------- MODULE AttendanceWindows -------------------------
(***************************************************************************)
(* When staff may mark attendance (src/backend/main.py): the enabled slots *)
(* of attendance_duration_settings inside the boundaries of the two halves *)
(* of a day, their extra minutes, and the windows in which an early        *)
(* check-in or a late check-out earns compensatory leave (CCL), for all    *)
(* dates or for one.                                                       *)
(*                                                                         *)
(* Every handler runs on the event loop, but each of its statements is     *)
(* committed by itself: done counts those executed before an error or a    *)
(* restart, all of them when there was none.  Disabled slots, which every  *)
(* reader skips, are left out, and a slot's number is its position.        *)
(***************************************************************************)
EXTENDS Integers, Sequences, FiniteSets

CONSTANTS
    SlotLists,      \* the lists of enabled slots an administrator submits
    Boundaries,     \* the boundaries of the halves submitted
    Extras,         \* the settings of the extra minutes submitted
    CclWindows,     \* the CCL windows submitted
    Dates,          \* dates that may get CCL windows of their own
    NoWindows,      \* a date without them
    FirstBounds,    \* the defaults of _get_half_day_settings
    FirstExtra,
    FirstCcl,       \* the rows init_db writes to ccl_settings
    MaxDuration,    \* the longest slot accepted
    MaxExtra,       \* the most extra minutes accepted
    MaxMinute,      \* bound: minutes of a day
    MaxChanges      \* bound: requests that change the settings

Minutes == 0 .. MaxMinute

\* What the request's model accepts as slots: the two types, the halves.
WindowSettings ==
    /\ SlotLists \subseteq Seq([type : {"check_in", "check_out"}, half : {"first", "second", "day"},
                               from : Int, len : Int])
    /\ MaxDuration \in Nat

VARIABLES
    slots,          \* attendance_duration_settings, by slot_number
    bounds,         \* first_half_start, ... of leave_settings
    extra,          \* auto_expand_... of leave_settings
    halfDay,        \* half_day_enabled of leave_settings
    ccl,            \* ccl_settings
    custom,         \* ccl_custom_dates
    changes         \* bound: requests so far

winVars == <<slots, bounds, extra, halfDay, ccl, custom, changes>>

\* The keys of a group of settings, in the order in which they are written.
BoundKeys == <<"firstFrom", "firstTo", "secondFrom", "secondTo">>
ExtraKeys == <<"check_in", "check_out", "first", "second", "day">>
CclKeys   == <<"early", "late", "earlyFrom", "earlyTo", "lateFrom", "lateTo">>

\* What a group holds after the first k writes of its new values.
Written(new, old, keys, k) ==
    [key \in DOMAIN old |->
        IF \E i \in 1 .. Len(keys) : i <= k /\ keys[i] = key THEN new[key] ELSE old[key]]

WinTypeOK ==
    /\ \A i \in DOMAIN slots : /\ slots[i].type \in {"check_in", "check_out"}
                               /\ slots[i].half \in {"first", "second", "day"}
    /\ bounds \in [{BoundKeys[i] : i \in 1 .. 4} -> Minutes]
    /\ DOMAIN extra = {ExtraKeys[i] : i \in 1 .. 5}
    /\ halfDay \in BOOLEAN
    /\ custom \in [Dates -> CclWindows \cup {NoWindows}]
    /\ changes \in 0 .. MaxChanges

WinInit ==
    /\ slots = <<>>
    /\ bounds = FirstBounds
    /\ extra = FirstExtra
    /\ halfDay = FALSE
    /\ ccl = FirstCcl
    /\ custom = [d \in Dates |-> NoWindows]
    /\ changes = 0

-----------------------------------------------------------------------------
(***************************************************************************)
(* The validation of what an administrator submits.                        *)
(***************************************************************************)
Ends(s) == s.from + s.len
Overlap(s, t) == s.from < Ends(t) /\ t.from < Ends(s)
Clash(from, to, s) == from < Ends(s) /\ s.from < to

BoundsValid(b) ==
    /\ b.firstFrom < b.firstTo
    /\ b.secondFrom < b.secondTo
    /\ b.firstTo <= b.secondFrom

ExtraValid(x) == \A key \in {"first", "second", "day"} : x[key] <= MaxExtra

\* A slot of a half lies in the boundaries of the half.
InBounds(s, b) ==
    /\ s.half = "first"  => b.firstFrom <= s.from /\ Ends(s) <= b.firstTo
    /\ s.half = "second" => b.secondFrom <= s.from /\ Ends(s) <= b.secondTo

\* A slot keeps clear of CCL windows of its kind.
ClearOf(s, w) ==
    /\ s.type = "check_in" /\ w.early  => ~Clash(w.earlyFrom, w.earlyTo, s)
    /\ s.type = "check_out" /\ w.late => ~Clash(w.lateFrom, w.lateTo, s)

\* validate_slot_group: no two slots of a half overlap, check-in comes first.
GroupValid(list, half) ==
    LET group == {i \in DOMAIN list : list[i].half = half} IN
    \A i, j \in group :
        /\ i < j => ~Overlap(list[i], list[j])
        /\ list[i].type = "check_in" /\ list[j].type = "check_out" =>
              Ends(list[i]) <= list[j].from

SlotsValid(list, b) ==
    /\ \A i \in DOMAIN list :
          /\ list[i].len \in 1 .. MaxDuration
          /\ InBounds(list[i], b)
          /\ \A d \in Dates : custom[d] # NoWindows => ClearOf(list[i], custom[d])
    /\ \A half \in {"first", "second", "day"} : GroupValid(list, half)
    /\ \A i, j \in DOMAIN list :
          /\ list[i].half = "first" /\ list[j].half = "second" =>
                ~Overlap(list[i], list[j]) /\ list[i].from <= list[j].from
          /\ list[i].half = "day" /\ list[j].half # "day" => ~Overlap(list[i], list[j])

WindowsValid(w) ==
    /\ w.earlyFrom < w.earlyTo
    /\ w.lateFrom < w.lateTo
    /\ \A i \in DOMAIN slots : ClearOf(slots[i], w)

-----------------------------------------------------------------------------
(***************************************************************************)
(* The handlers that change the settings.                                  *)
(***************************************************************************)
Changing == changes < MaxChanges /\ changes' = changes + 1

\* The boundaries are written before the slots are looked at; then all slots
\* are deleted and the new ones inserted, the extra minutes written, and last
\* the flag for half days.
SaveSlots(list, b, x, done) ==
    /\ Changing
    /\ list # <<>> /\ BoundsValid(b)
    /\ bounds' = Written(b, bounds, BoundKeys, done)
    /\ IF ExtraValid(x) /\ SlotsValid(list, b) /\ done > 4
       THEN /\ slots' = SubSeq(list, 1, IF done - 5 < Len(list) THEN done - 5 ELSE Len(list))
            /\ extra' = Written(x, extra, ExtraKeys, done - 5 - Len(list))
            /\ halfDay' = IF done > 10 + Len(list)
                          THEN \E i \in DOMAIN list : list[i].half # "day"
                          ELSE halfDay
       ELSE UNCHANGED <<slots, extra, halfDay>>
    /\ UNCHANGED <<ccl, custom>>

\* save_leave_settings_api, of which only this flag matters here.
SetHalfDay(on) ==
    /\ Changing
    /\ halfDay' = on
    /\ UNCHANGED <<slots, bounds, extra, ccl, custom>>

\* One upsert per date; those of dates are done.
SaveCustomDates(dates, w) ==
    /\ Changing
    /\ WindowsValid(w)
    /\ custom' = [d \in Dates |-> IF d \in dates THEN w ELSE custom[d]]
    /\ UNCHANGED <<slots, bounds, extra, halfDay, ccl>>

DeleteCustomDate(d) ==
    /\ Changing
    /\ custom' = [custom EXCEPT ![d] = NoWindows]
    /\ UNCHANGED <<slots, bounds, extra, halfDay, ccl>>

SaveCcl(w, done) ==
    /\ Changing
    /\ WindowsValid(w)
    /\ ccl' = Written(w, ccl, CclKeys, done)
    /\ UNCHANGED <<slots, bounds, extra, halfDay, custom>>

WinNext ==
    \/ \E list \in SlotLists, b \in Boundaries \cup {bounds}, x \in Extras \cup {extra} :
          \E done \in 1 .. 11 + Len(list) : SaveSlots(list, b, x, done)
    \/ \E on \in BOOLEAN : SetHalfDay(on)
    \/ \E dates \in SUBSET Dates, w \in CclWindows : SaveCustomDates(dates, w)
    \/ \E d \in Dates : DeleteCustomDate(d)
    \/ \E w \in CclWindows, done \in 1 .. 6 : SaveCcl(w, done)

WinSpec == WinInit /\ [][WinNext]_winVars

-----------------------------------------------------------------------------
(***************************************************************************)
(* The readers, at minute t of date d.  checkedIn is the set of halves     *)
(* for which daily_attendance_status has the person's check-in.            *)
(***************************************************************************)
HalfDayEnabled == halfDay \/ \E i \in DOMAIN slots : slots[i].half # "day"

\* _calculate_effective_slot_duration.
EffectiveEnd(s) == Ends(s) + (IF extra[s.type] THEN extra[s.half] ELSE 0)

OpenSlots(t) == SelectSeq(slots, LAMBDA s : s.from <= t /\ t < EffectiveEnd(s))

CclOf(d) == IF custom[d] # NoWindows THEN custom[d] ELSE ccl
CclOffered(d) == CclOf(d).early \/ CclOf(d).late
CclKind(d, t) ==
    LET w == CclOf(d)
        early == w.early /\ w.earlyFrom <= t /\ t < w.earlyTo
        late  == w.late /\ w.lateFrom <= t /\ t < w.lateTo
    IN  IF early THEN "check_in" ELSE IF late THEN "check_out" ELSE "closed"

Closed     == [kind |-> "closed", half |-> "day"]
Unlimited  == [kind |-> "check_in", half |-> "day"]
Kind(s)    == [kind |-> s.type, half |-> s.half]
ByCcl(d, t) == [kind |-> CclKind(d, t), half |-> "day"]

\* Without slots only CCL windows restrict marking.
Unslotted(d, t) == IF CclOffered(d) THEN ByCcl(d, t) ELSE Unlimited

\* check_attendance_window: of several open slots a check-out is shown to who
\* has checked in, else a check-in.
Shown(d, t, checkedIn) ==
    LET open == OpenSlots(t)
        ins  == SelectSeq(open, LAMBDA s : s.type = "check_in")
        outs == SelectSeq(open, LAMBDA s : s.type = "check_out")
        hasIn == \E i \in DOMAIN ins : ins[i].half \in checkedIn
        shown == IF hasIn /\ outs # <<>> THEN outs ELSE IF ins # <<>> THEN ins ELSE open
    IN  IF slots = <<>> THEN Unslotted(d, t)
        ELSE IF Len(open) > 1 THEN Kind(shown[1])
        ELSE IF open # <<>> THEN Kind(open[1])
        ELSE ByCcl(d, t)

\* mark_attendance_secure; its rule for several open slots.
Picked(open, checkedIn) ==
    LET ins  == {i \in DOMAIN open : open[i].type = "check_in"}
        outs == DOMAIN open \ ins
        from == IF outs # {} /\ \E i \in ins : open[i].half \in checkedIn THEN outs
                ELSE IF ins # {} THEN ins ELSE outs
    IN  open[CHOOSE i \in from : \A j \in from : i <= j]

Accepted(d, t, checkedIn) ==
    IF slots = <<>> THEN Unslotted(d, t)
    ELSE IF OpenSlots(t) = <<>> THEN ByCcl(d, t)
    ELSE Kind(Picked(OpenSlots(t), checkedIn))

\* The copies for administrators, heads and other staff take the first slot.
AcceptedByRole(d, t) ==
    IF slots = <<>> THEN Unslotted(d, t)
    ELSE IF OpenSlots(t) = <<>> THEN ByCcl(d, t)
    ELSE Kind(OpenSlots(t)[1])

-----------------------------------------------------------------------------
\* However saves of slots and of dates are ordered, refused or cut short, no
\* two enabled slots overlap, check-in precedes check-out in every half, and
\* a slot keeps clear of the CCL windows of every date that has its own.
SlotsApart ==
    /\ \A i, j \in DOMAIN slots : i # j => ~Overlap(slots[i], slots[j])
    /\ \A i, j \in DOMAIN slots :
          slots[i].half = slots[j].half /\ slots[i].type = "check_in"
          /\ slots[j].type = "check_out" => slots[i].from < slots[j].from
    /\ \A d \in Dates, i \in DOMAIN slots : custom[d] # NoWindows => ClearOf(slots[i], custom[d])

\* The window shown to a person is the one a scan of that minute gets, and every
\* copy of the lookup refuses the same minutes.
OneGate ==
    \A d \in Dates, t \in Minutes, checkedIn \in SUBSET {"first", "second", "day"} :
        /\ Shown(d, t, checkedIn) = Accepted(d, t, checkedIn)
        /\ (AcceptedByRole(d, t) = Closed) <=> (Accepted(d, t, checkedIn) = Closed)

\* Every slot of a half lies in the boundaries of the half.
SlotsInHalves == \A i \in DOMAIN slots : InBounds(slots[i], bounds)

\* Slots keep clear of the CCL windows of all dates.
CclApart == \A i \in DOMAIN slots : ClearOf(slots[i], ccl)

\* A slot's extra minutes are there for who still needs it.
ExtraMinutesUsable ==
    \A d \in Dates, i \in DOMAIN slots :
        slots[i].type = "check_out" =>
            \A t \in slots[i].from .. EffectiveEnd(slots[i]) - 1 :
                Accepted(d, t, {slots[i].half}) = Kind(slots[i])

\* All roles are given the same slot.
RolesAlike ==
    \A d \in Dates, t \in Minutes : AcceptedByRole(d, t) = Accepted(d, t, {})

\* Half days are kept apart only when a slot is for half a day.
HalfDayDetected == HalfDayEnabled => \E i \in DOMAIN slots : slots[i].half # "day"

\* A save that fails leaves the slots as they were.
SaveIsWhole == [][slots' # slots => slots' \in SlotLists]_winVars
=============================================================================
