------------------------- MODULE MCScheduleSessions -------------------------
(* Instances of ScheduleSessions for TLC.                                   *)
EXTENDS ScheduleSessions, TLC

\* Two classes a week for two classes, and a single class; the start date is a
\* class day of the second plan only, and a session can be moved before it.
TwiceAWeek == [days |-> {2, 3}, count |-> 2]
OnceAWeek == [days |-> {1}, count |-> 1]

MCPlans == {TwiceAWeek, OnceAWeek}
MCStartDates == {1}
MCSessionDates == {0}

Symmetry == Permutations(Workers) \cup Permutations(Students)
=============================================================================
