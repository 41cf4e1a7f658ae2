-------------------------------- MODULE MCToe --------------------------------
(* Instances of Toe for TLC. *)
EXTENDS Toe, TLC

\* A SYN and a SYN_ACK of an earlier connection between the same ports.
MCOldSegs == {Seg("SYN", 2, 0, 0, AnyWin), Seg("SYN_ACK", 2, 6, 0, AnyWin)}

\* Segments for a session that was released are dropped by the lookup.
InUse == life # "released"
=============================================================================
