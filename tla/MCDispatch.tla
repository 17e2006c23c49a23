------------------------------ MODULE MCDispatch ------------------------------
(* Dispatch with named drones and resolvers for TLC.                         *)
EXTENDS Dispatch, TLC
CONSTANTS d1, d2, monitor, desk
Symmetry == Permutations(Drones)
===============================================================================
