------------------------------ MODULE MCCSched ------------------------------
(* Instances of CSched for TLC. *)
EXTENDS CSched

CONSTANTS t1, t2, t3

\* Each thread has a cProcess of its own ...
OwnCpid == [t \in Thread |-> CASE t = t1 -> 0 [] t = t2 -> 1 [] OTHER -> 2]

\* ... or all threads run within one cProcess.
SharedCpid == [t \in Thread |-> 0]
=============================================================================
