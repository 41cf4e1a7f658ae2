----------------------------- MODULE MCCService -----------------------------
(* Instances of CService for TLC: the values are given in the cfg files. *)
EXTENDS CService
=============================================================================
