---------------------------- MODULE MCTripAward -----------------------------
(* Instances of TripAward for TLC. *)
EXTENDS TripAwardProperties, TLC

AllOps == Ops
DeployedCommits == {"accept", "sweep"}

\* A pack is for a driver or for a vehicle.
OneParty == (Drivers \X {None}) \union ({None} \X Vehicles)

Symmetry == Permutations(Sessions) \union Permutations(Drivers)
=============================================================================
