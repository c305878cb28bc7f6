------------------------ MODULE MCSpawnLedgerClients ------------------------
(* Two coordinators and the first steps of two tickets.                    *)
EXTENDS SpawnLedgerClients, TLC

Symmetry == Permutations(Clients) \cup Permutations(Requests)
=============================================================================
