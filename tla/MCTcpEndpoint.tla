--------------------------- MODULE MCTcpEndpoint ---------------------------
(***************************************************************************)
(* TcpEndpoint for TLC.                                                    *)
(***************************************************************************)
EXTENDS TcpEndpoint
=============================================================================
