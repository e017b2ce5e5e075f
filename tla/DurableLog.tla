----------------------------- MODULE DurableLog -----------------------------
(***************************************************************************)
(* What the record promises whoever reads it: one log.  A record is        *)
(* written at its end; an acknowledgement confirms everything before it;   *)
(* a failure may take back what was not confirmed, from the end, and       *)
(* nothing else.  Sealing, recovery and the files are not visible here.    *)
(***************************************************************************)
EXTENDS Integers, Sequences

CONSTANT Ids

VARIABLES log, confirmed

logVars == <<log, confirmed>>

LogInit == log = <<1>> /\ confirmed = 1

\* A record no reader has seen is written at the end.
Write ==
  /\ \E x \in Ids : (\A n \in DOMAIN log : log[n] # x) /\ log' = Append(log, x)
  /\ UNCHANGED confirmed

Confirm == confirmed' = Len(log) /\ UNCHANGED log

Lose ==
  /\ \E k \in confirmed .. Len(log) : log' = SubSeq(log, 1, k)
  /\ UNCHANGED confirmed

LogNext == Write \/ Confirm \/ Lose

LogSpec == LogInit /\ [][LogNext]_logVars
=============================================================================
