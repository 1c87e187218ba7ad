---------------------------- MODULE MCJobStorage ----------------------------
(* Values of the constants of JobStorage for TLC. *)
EXTENDS JobStorage

CONSTANTS j1, j2, m1, m2

\* A model of its own for each job, or one for both.
OwnModel == [j \in {j1, j2} |-> IF j = j1 THEN m1 ELSE m2]
SameModel == [j \in {j1, j2} |-> m1]
=============================================================================
