------------------------ MODULE MCFileAdmissionStore ------------------------
(* Small instances of FileAdmissionStore. *)
EXTENDS FileAdmissionStore

CONSTANTS i1, i2, p1, p2

MCIds == {i1, i2}

MCProcs == {p1, p2}

B(agent) ==
  [agent |-> agent, account |-> "k1", model |-> "m1", repo |-> "r1",
   mode |-> "write", paths |-> {<<"x">>}]

MCBindings == {B("a1")}

(* The way to execution, and a cancel that races with its first step. *)
MCRequests ==
  {<<"REVALIDATING", 1>>, <<"ADMITTED", 2>>, <<"EXECUTING", 3>>,
   <<"CANCELLED", 1>>}
=============================================================================
