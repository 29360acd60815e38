-------------------------- MODULE MCEnrollmentDesk --------------------------
(* Instances of EnrollmentDesk for TLC.  Students, enrollment ids and       *)
(* requests are interchangeable; a run names one schedule or two.           *)
EXTENDS EnrollmentDesk, TLC

Symmetry ==
    Permutations(Students) \cup Permutations(Schedules)
      \cup Permutations(EnrollmentIds) \cup Permutations(Requests)
=============================================================================
