--------------------------- MODULE MCTimerQueue ----------------------------
(***************************************************************************)
(* TimerQueue for TLC.                                                     *)
(***************************************************************************)
EXTENDS TimerQueue

CONSTANTS t1, t2
=============================================================================
