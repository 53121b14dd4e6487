--------------------------- MODULE MCProxySession --------------------------
(***************************************************************************)
(* ProxySession for TLC.                                                   *)
(***************************************************************************)
EXTENDS ProxySession

\* One byte more than a batch in one direction, a batch in the other.
MCBytes == [s \in Sides |-> IF s = "client" THEN 3 ELSE 2]
=============================================================================
