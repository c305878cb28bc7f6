----------------------------- MODULE MCBusStore -----------------------------
(* Two events of one producer with a shared payload, an ordinary one and one *)
(* of an urgent type, and a request that reuses the key of the first.        *)
EXTENDS BusStore, TLC

CONSTANTS a, p1

MCRequest(key, seq, blocking, class) ==
    [prod |-> a, key |-> key, seq |-> seq, part |-> p1, blocking |-> blocking,
     exempt |-> FALSE, class |-> class, payload |-> "x"]

MCRequests ==
    {MCRequest(1, 1, FALSE, "transient"), MCRequest(2, 2, TRUE, "work"),
     MCRequest(1, 2, FALSE, "work")}

MCBackoff == [i \in 1 .. MaxAttempts - 1 |-> 1]
MCHeaderKeep == [transient |-> 1, work |-> 2, manifest |-> Never]
MCPayloadKeep == [transient |-> 1, work |-> 1, manifest |-> Never]

MCSymmetry == Permutations(Runs) \cup Permutations(Digests)
=============================================================================
