--------------------------- MODULE MCClassSession ---------------------------
(***************************************************************************)
(* Instances of ClassSession for TLC: the attributes of the sessions.      *)
(***************************************************************************)
EXTENDS ClassSession, TLC

\* One session over two periods.
OneFirst == <<1>>
OneLast  == <<2>>
OneSubject == <<"sub1">>

\* A two-period session and a second one over its first period, of another
\* subject (a substitute lecturer, or a corrected timetable entry).
TwoFirst == <<1, 1>>
TwoLast  == <<2, 1>>
TwoSubject == <<"sub1", "sub2">>

Symmetry == Permutations(Students) \cup Permutations(Pool)
=============================================================================
