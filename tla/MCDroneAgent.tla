----------------------------- MODULE MCDroneAgent -----------------------------
EXTENDS DroneAgent
=============================================================================
