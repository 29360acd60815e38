-------------------------- MODULE MCEnrollmentWizard --------------------------
(* Instance of EnrollmentWizard for TLC.                                    *)
EXTENDS EnrollmentWizard, TLC

\* Nothing; a pack that adds up, one that does not, one with all the money on
\* the second leg, and an amount whose method is missing.
MCInitialPayments ==
    { NoPayment,
      [total |-> 2, basico |-> 1, avanzado |-> 1, method |-> TRUE],
      [total |-> 3, basico |-> 1, avanzado |-> 1, method |-> TRUE],
      [total |-> 1, basico |-> 0, avanzado |-> 1, method |-> TRUE],
      [total |-> 1, basico |-> 1, avanzado |-> 0, method |-> FALSE] }
=============================================================================
