--------------------------- MODULE MCOutboxRelay ---------------------------
(* Small instances of OutboxRelay for TLC. *)
EXTENDS OutboxRelay, TLC

CONSTANTS worker, other  \* the loops of two instances, or a loop and the route

\* One instance reads less than the whole queue, the other all of it.
SmallAndLarge == worker :> 1 @@ other :> 2

============================================================================
