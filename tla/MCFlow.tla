------------------------------- MODULE MCFlow -------------------------------
(* Instances of RideFlow for TLC. *)
EXTENDS RideFlow, TLC

\* Rides are interchangeable, and so are drivers.
Symmetry == Permutations(Rides) \cup Permutations(Drivers)
=============================================================================
