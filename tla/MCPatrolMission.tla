---------------------------- MODULE MCPatrolMission ----------------------------
EXTENDS PatrolMission

(* Two points and the return home.                                         *)
TwoAndHome == {<<"point", "point", "end">>}
OneAndHome == {<<"point", "end">>}
Ground == {<<"disarmed", "registered">>}
Air == {<<"flying", "registered">>}
NoPatrol == {<<"flying", "down">>}
OnGroundOrAir == Ground \cup Air
Anywhere == Ground \cup Air \cup NoPatrol
=============================================================================
