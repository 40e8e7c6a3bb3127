-------------------------- MODULE MCManualProvider --------------------------
(* Instances of ManualProvider for TLC. *)
EXTENDS ManualProvider, TLC

\* Specifications are compared for equality only.
ContentSymmetry == Permutations(Contents)
=============================================================================
