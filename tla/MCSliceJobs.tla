---------------------------- MODULE MCSliceJobs ----------------------------
(* Values of the constants of SliceJobs for TLC. *)
EXTENDS SliceJobs

CONSTANTS j1, j2, m1, m2

\* Each job slices a model of its own, or both slice the same one.
OwnModel == [j \in {j1, j2} |-> IF j = j1 THEN m1 ELSE m2]
SameModel == [j \in {j1, j2} |-> m1]
=============================================================================
