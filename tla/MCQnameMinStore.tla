-------------------------- MODULE MCQnameMinStore --------------------------
(***************************************************************************)
(* Instances of QnameMinStore for TLC.  Handlers only differ in name.      *)
(***************************************************************************)
EXTENDS QnameMinStore, TLC

Symmetry == Permutations(Handlers)
=============================================================================
