------------------------------ MODULE MCDriver ------------------------------
(* Instances of DriverService for TLC. *)
EXTENDS DriverService, TLC

\* Drivers, requests in progress and places are interchangeable.
Symmetry == Permutations(Drivers) \cup Permutations(Slots) \cup Permutations(Places)

\* What a group has committed matters to its next restart.  Without one to come,
\* states that differ in it are the same, but for the assignments that it has
\* jumped over (Claimed).
View == <<drivers, pool, held, announced, http, job, log, pos, faults, rejoins, disturbed,
          IF TroubleLeft THEN committed ELSE committed["driver.assigned"].skipped>>
=============================================================================
