------------------------------- MODULE MCRide -------------------------------
(* Instances of RideService for TLC. *)
EXTENDS RideService, TLC

\* Drivers, requests in progress and rides are interchangeable.
Symmetry == Permutations(Drivers) \cup Permutations(Clients) \cup Permutations(Rides)
=============================================================================
