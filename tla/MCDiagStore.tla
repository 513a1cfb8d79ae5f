---------------------------- MODULE MCDiagStore ----------------------------
(***************************************************************************)
(* Instances of DiagStore for TLC: which token each connection watches,    *)
(* and the symmetries of the safety runs.  CHOOSE in DiagStore only picks  *)
(* records, by their number, so permuting clients is sound; connections    *)
(* that watch one token are interchangeable.                               *)
(***************************************************************************)
EXTENDS DiagStore, TLC

CONSTANTS t1, t2, h1, h2, d1, d2, c1, c2

NoWatch == [d \in {} |-> t1]
BothWatchT1 == [d \in Dashboards |-> t1]

ClientSymmetry == Permutations(Clients)
DashboardSymmetry == Permutations(Dashboards)
=============================================================================
