---------------------------- MODULE MCReadReceipts ----------------------------
(* One contact, whose relationship may be removed and paired again.          *)
EXTENDS ReadReceipts

CONSTANT a
=============================================================================
