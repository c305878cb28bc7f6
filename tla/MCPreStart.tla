----------------------------- MODULE MCPreStart -----------------------------
(* One attempt on one ticket.                                              *)
EXTENDS PreStart
=============================================================================
