---------------------------- MODULE MCDriverMMU ----------------------------
(* Instances of DriverMMU for TLC. *)
EXTENDS DriverMMU, TLC

\* After an oops the driver is gone; once an mmap failed the properties claim
\* nothing.
Usable == ~oops /\ ~lost

ProcSymmetry == Permutations(Proc)
=============================================================================
