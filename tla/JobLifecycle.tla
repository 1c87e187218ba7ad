---------------------------- MODULE JobLifecycle ----------------------------
(***************************************************************************)
(* What the job API promises a client that polls GET /api/jobs/:id of a    *)
(* server without Redis: a job is created once; it stops being active by   *)
(* finishing or by being cancelled; a verdict on a finished job is never   *)
(* revised; only the removal of its row ends a job's visibility, and an id *)
(* never comes back.  A cancelled job may still turn out finished: the     *)
(* route answers before the slicer is known to have stopped.               *)
(***************************************************************************)
CONSTANT Jobs

VARIABLE job

State == {"none", "active", "cancelled", "completed", "failed", "gone"}

Init == job = [j \in Jobs |-> "none"]

Move(j, from, to) ==
    /\ job[j] \in from
    /\ job' = [job EXCEPT ![j] = to]

Create(j) == Move(j, {"none"}, "active")
Finish(j) == Move(j, {"active", "cancelled"}, "completed")
Fail(j)   == Move(j, {"active", "cancelled"}, "failed")
Cancel(j) == Move(j, {"active"}, "cancelled")

\* Rows go together with their model.
Remove(S) ==
    /\ \A j \in S : job[j] # "none"
    /\ job' = [j \in Jobs |-> IF j \in S THEN "gone" ELSE job[j]]

Next ==
    \/ \E j \in Jobs : Create(j) \/ Finish(j) \/ Fail(j) \/ Cancel(j)
    \/ \E S \in SUBSET Jobs : Remove(S)

Spec == Init /\ [][Next]_job

=============================================================================
