------------------------------ MODULE MCFleetApi ------------------------------
(* FleetApi with named people and plugins for TLC.                         *)
EXTENDS FleetApi, TLC

CONSTANTS ann, bob, patrol, search, dog

Symmetry == Permutations(People)
=============================================================================
