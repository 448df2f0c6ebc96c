---------------------------- MODULE MCResilient ----------------------------
(* Two processes of one identity and one of another. *)
EXTENDS Resilient, TLC

CONSTANTS p1, p2, p3, ops, vcfa

MCIdentityOf == (p1 :> ops) @@ (p2 :> ops) @@ (p3 :> vcfa)
=============================================================================
