--------------------------- MODULE MCEntropyStore --------------------------
(***************************************************************************)
(* Instances of EntropyStore for TLC.  Samples are only stored and copied, *)
(* and pollers only differ in name, so permuting either is sound.          *)
(***************************************************************************)
EXTENDS EntropyStore, TLC

Symmetry == Permutations(Samples) \cup Permutations(Pollers)
=============================================================================
