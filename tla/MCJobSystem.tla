---------------------------- MODULE MCJobSystem ----------------------------
(* Small instances of JobSystem for TLC.  Jobs, workers, runs and requests    *)
(* are interchangeable, so the safety runs may use symmetry.                  *)
EXTENDS JobSystem, TLC

Symmetry ==
    Permutations(Jobs) \cup Permutations(Workers) \cup Permutations(Runs) \cup Permutations(Requests)
=============================================================================
