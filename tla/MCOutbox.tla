------------------------------ MODULE MCOutbox ------------------------------
(* One order whose events share the queue.  The callback refuses or takes   *)
(* each attempt as it likes, so a second agent would show nothing more.     *)
EXTENDS Outbox, TLC

CONSTANTS a1, o1

PlacedBy == o1 :> a1
=============================================================================
