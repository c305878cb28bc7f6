--------------------------- MODULE MCSpawnLedger ---------------------------
(* SpawnLedger for TLC.  One ticket is explored with all its failures and  *)
(* endings; the resumption of workers, which takes three tickets and a     *)
(* long life of the first, without failure journals and intents.           *)
EXTENDS SpawnLedger, TLC

Symmetry == Permutations(Requests) \cup Permutations(Capsules) \cup Permutations(Leads)

FailuresOnlyAlone ==
  \/ state.journals = <<>> /\ state.intents = {}
  \/ Cardinality(DOMAIN state.tickets) = 1
=============================================================================
