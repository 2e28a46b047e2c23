----------------------------- MODULE MCMatching -----------------------------
(* Instances of MatchingService for TLC. *)
EXTENDS MatchingService, TLC

CONSTANTS near, far

\* From any pickup, "near" is closer than "far"; a place of neither name is
\* out of range.
MCDistance == [x \in Pickups \X Places |-> IF x[2] = near THEN 1 ELSE IF x[2] = far THEN 2 ELSE 4]

\* Drivers are interchangeable, and so are rides.  Instances are too: Init
\* chooses the owners freely.
Symmetry == Permutations(Drivers) \cup Permutations(Rides) \cup Permutations(Matchers)
=============================================================================
