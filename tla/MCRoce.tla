------------------------------- MODULE MCRoce -------------------------------
(* Roce for TLC: what the send queue carries. *)
EXTENDS Roce

\* Writes of two packets, reads of ReadPkgs packets and sends, each before and
\* after each other
Mixed ==
  { <<"FIRST", "LAST", "READ">>, <<"READ", "FIRST", "LAST">>,
    <<"READ", "READ", "SEND">>, <<"SEND", "SEND", "READ">>,
    <<"SEND", "READ", "SEND">>,
    <<"FIRST", "LAST", "ONLY">> }
=============================================================================
