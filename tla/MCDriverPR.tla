----------------------------- MODULE MCDriverPR -----------------------------
(* Instances of DriverPR for TLC. *)
EXTENDS DriverPR, TLC

CONSTANTS p1, p2, p3, p4, v1, v2

\* Page arrays are interchangeable, and so are addresses.
Symmetry == Permutations(Page) \cup Permutations(Vaddr)
=============================================================================
