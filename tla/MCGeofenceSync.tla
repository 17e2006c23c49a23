---------------------------- MODULE MCGeofenceSync ----------------------------
(* GeofenceSync with a fence of one item, one of two and one too big.        *)
EXTENDS GeofenceSync
CONSTANTS yard, field, big
MCSize == [f \in Fences |-> IF f = yard THEN 1 ELSE 2]
===============================================================================
