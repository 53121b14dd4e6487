----------------------------- MODULE MCTcpServer ----------------------------
(***************************************************************************)
(* TcpServer for TLC.                                                      *)
(***************************************************************************)
EXTENDS TcpServer

CONSTANTS c1, c2
=============================================================================
