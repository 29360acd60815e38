----------------------------- MODULE MCRecordDesk -----------------------------
(* Instance of RecordDesk for TLC.                                          *)
EXTENDS RecordDesk, TLC
=============================================================================
