--------------------------- MODULE MCDiagService ---------------------------
(***************************************************************************)
(* Instances of DiagService for TLC: every connection watches one token,   *)
(* and a client may use another token as well.                             *)
(***************************************************************************)
EXTENDS DiagService

CONSTANTS t1, t2, h1, h2, d1, c1, c2

BothWatchT1 == [d \in Dashboards |-> t1]
=============================================================================
