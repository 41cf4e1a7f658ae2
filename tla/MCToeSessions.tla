---------------------------- MODULE MCToeSessions ----------------------------
(* Instances of ToeSessions for TLC. *)
EXTENDS ToeSessions, TLC

\* One port it may listen on and one it is refused.
MCPorts == {<<0, 1>>, <<1, 0>>}
Symmetry == Permutations(Peers)

\* A state in which the application has a connection to q and nothing is under
\* way: what Init reaches by an open and a SYN_ACK.
Connected(q) ==
  LET t == [peer |-> q, port |-> <<1, 0>>]
  IN  /\ listening = {} /\ used = {<<1, 0>>} /\ portq = <<>>
      /\ counter = 1 /\ freeIds = <<>> /\ finIds = <<>>
      /\ lookup = [u \in Tuple |-> IF u = t THEN 0 ELSE NoId] /\ count = 1
      /\ slc = None /\ ins = <<>> /\ del = <<>> /\ revIns = <<>>
      /\ rev = [i \in Ids |-> IF i = 0 THEN t ELSE None]
      /\ valid = [i \in Ids |-> i = 0] /\ rel = <<>>
      /\ mh = None /\ fsmq = <<>> /\ fsm = None
      /\ appReq = None /\ appId = None /\ closing = None
      /\ state = [i \in Ids |-> IF i = 0 THEN "ESTABLISHED" ELSE "CLOSED"]
      /\ rxLock = NoId /\ txLock = NoId
      /\ timq = <<>> /\ evq = <<>> /\ rt = {} /\ ct = {}

\* Connections are closed with as many moves as they are opened: the second
\* start saves the moves of the open.
MCInit ==
  \/ Init
  \/ moves = 1 /\ \E q \in Peers : Connected(q)
MCSpec == MCInit /\ [][Next]_vars
=============================================================================
