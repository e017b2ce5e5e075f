---------------------------- MODULE MCRecordDoor ----------------------------
(* The door on small instances: two events the projection's rules set       *)
(* against each other, heads of the anchor and a capture, all in flight.    *)
EXTENDS RecordDoor
=============================================================================
