------------------------------ MODULE MCLedger ------------------------------
(* The ledger on small instances: enough records for two seals and a record *)
(* after them, enough faults for a failure during the recovery of another.  *)
EXTENDS Ledger
=============================================================================
