---------------------------- MODULE MCDocumentPages ----------------------------
(* Instance of DocumentPages for TLC: a course with hours for both levels, one  *)
(* of them no longer active, and a course without hours; a schedule with two    *)
(* sessions and two pupils, which are interchangeable.                          *)
EXTENDS DocumentPages, TLC

CONSTANTS active, inactive, melamina, drywall

MCInitialItems ==
    {[value |-> melamina, active |-> TRUE, hours |-> {active, inactive}],
     [value |-> drywall, active |-> TRUE, hours |-> {}]}

Interchangeable == Permutations(Pupils) \cup Permutations(Sessions)
=============================================================================
