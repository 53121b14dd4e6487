---------------------------- MODULE MCEventLoop ----------------------------
(***************************************************************************)
(* EventLoop for TLC.                                                      *)
(***************************************************************************)
EXTENDS EventLoop

CONSTANTS a, b
=============================================================================
