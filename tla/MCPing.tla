------------------------------- MODULE MCPing -------------------------------
(* Every kind of end on either side.                                       *)
EXTENDS Ping

Pair(i, o) == [w \in Workers |-> IF w = "reader" THEN i ELSE o]

MCEnds == {Pair("tcp", "file"), Pair("file", "tcp"),
           Pair("udp", "fd"), Pair("fd", "udp")}
=============================================================================
