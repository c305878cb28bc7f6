------------------------- MODULE MCAccountAllocator -------------------------
(* Two threads and two reservations of one account, whose evidence states  *)
(* one unit.                                                               *)
EXTENDS AccountAllocator

MCAccountOf == [r \in Reservations |-> CHOOSE a \in Accounts : TRUE]
=============================================================================
