----------------------------- MODULE MCPaymentDesk -----------------------------
(* Instance of PaymentDesk for TLC.                                         *)
EXTENDS PaymentDesk, TLC

MCInitialPayment == <<[id |-> 1, amount |-> 1, cuota |-> 1]>>
=============================================================================
