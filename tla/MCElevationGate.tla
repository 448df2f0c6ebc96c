--------------------------- MODULE MCElevationGate ---------------------------
(* Symmetry for the gate's runs. *)
EXTENDS ElevationGate, TLC

SubjectSymmetry == Permutations(Subjects)
=============================================================================
