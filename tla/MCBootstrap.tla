---------------------------- MODULE MCBootstrap ----------------------------
(* Two processes on one database, an address and two default policies.     *)
EXTENDS Bootstrap, TLC

CONSTANTS p1, p2

MCProcesses == {p1, p2}
=============================================================================
