---------------------------- MODULE MCDriverPid ----------------------------
(* Instances of DriverPid for TLC. *)
EXTENDS DriverPid

CONSTANTS c1, c2, c3, c4

\* Every object lives in a process of its own.
OwnProc == [c \in Obj |-> CASE c = c1 -> 11 [] c = c2 -> 12 [] c = c3 -> 13 [] OTHER -> 14]
=============================================================================
