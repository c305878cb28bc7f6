------------------------- MODULE MCSelectionService -------------------------
(* Small instances of SelectionService. *)
EXTENDS SelectionService

B(agent, account, paths) ==
  [agent |-> agent, account |-> account, model |-> "m1", repo |-> "r1",
   mode |-> "write", paths |-> paths]

(* Two requests that compete for an agent. *)
MCWorkers == {"w1", "w2"}
MCRequestOf == [w1 |-> "q1", w2 |-> "q2"]
MCBindingOf == [q1 |-> B("a1", "k1", {<<"x">>}), q2 |-> B("a1", "k2", {<<"y">>})]
MCBindings == {MCBindingOf[q] : q \in DOMAIN MCBindingOf}
MCIds == {"q1", "q2"} \X (1..MaxAttempts)

(* One request delivered to two processes, with the same ids. *)
SameRequestOf == [w1 |-> "q1", w2 |-> "q1"]
SameIds == {"q1"} \X (1..MaxAttempts)
=============================================================================
