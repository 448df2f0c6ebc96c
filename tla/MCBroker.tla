------------------------------ MODULE MCBroker ------------------------------
(* Symmetry for the broker's safety runs. *)
EXTENDS BrokerRefinement, TLC

SubjectSymmetry == Permutations(Subjects)
=============================================================================
