-------------------------- MODULE MCAdmissionStore --------------------------
(* Three admissions and the reasons for which they can compete. *)
EXTENDS AdmissionStore, TLC

CONSTANTS i1, i2, i3

MCIds == {i1, i2, i3}

B(agent, account, model, repo, mode, paths) ==
  [agent |-> agent, account |-> account, model |-> model,
   repo |-> repo, mode |-> mode, paths |-> paths]

(* The first competes with each of the others for one reason only; the     *)
(* other three compete only for the account's capacity.                    *)
MCBindings ==
  {B("a1", "k1", "m1", "r1", "write", {<<"x">>}),
   B("a2", "k1", "m2", "r1", "read", {<<"x", "y">>}),   \* scope
   B("a1", "k1", "m3", "r2", "read", {<<"z">>}),        \* agent
   B("a3", "k1", "m1", "r2", "read", {<<"z">>})}        \* model

Symmetry == Permutations(MCIds)
=============================================================================
