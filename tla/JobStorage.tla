----------------------------- MODULE JobStorage -----------------------------
(***************************************************************************)
(* POST /api/system/cleanup beside the life of the slice jobs.  The route  *)
(* is one synchronous handler: it gathers rows by mode and age, refuses    *)
(* when a gathered job is active, and deletes directories and rows.  A dry *)
(* run and a refusal change nothing and are no actions.                    *)
(***************************************************************************)
EXTENDS SliceJobs

VARIABLES
    oldJobs,    \* job rows older than the age a cleanup asks for
    oldModels   \* model rows older than that

storageVars == <<vars, oldJobs, oldModels>>

Mode == {"completed_jobs", "all_jobs", "orphaned_models", "all"}

\* olderThanDays: 0 stands for any age, "N" for the age of the old rows.
Age == {"0", "N"}

StorageInit ==
    /\ Init
    /\ oldJobs = {}
    /\ oldModels = {}

----------------------------------------------------------------------------

Rows == {j \in Jobs : status[j] \in Row}

JobsOlderThan(days) == IF days = "0" THEN Rows ELSE Rows \cap oldJobs

ModelsOlderThan(days) == IF days = "0" THEN models ELSE models \cap oldModels

JobsOf(m) == {j \in Rows : ModelOf[j] = m}

\* days = "N": models with no job in the last N days; "0": with none at all.
OrphanedModels(days) ==
    {m \in models : IF days = "0" THEN JobsOf(m) = {}
                                  ELSE JobsOf(m) \subseteq oldJobs}

JobCandidates(mode, days) ==
    CASE mode = "completed_jobs" ->
            {j \in JobsOlderThan(days) : status[j] \in Final}
      [] mode \in {"all_jobs", "all"} -> JobsOlderThan(days)
      [] mode = "orphaned_models" -> {}

ModelCandidates(mode, days) ==
    CASE mode = "orphaned_models" -> OrphanedModels(days)
      [] mode = "all" -> ModelsOlderThan(days)
      [] mode \in {"completed_jobs", "all_jobs"} -> {}

\* Mutant: foreign keys are off, a model goes alone.
PurgedRowsNoCascade(mode, days) == JobCandidates(mode, days)

\* Rows that go: by themselves, or by cascade with their model.
PurgedRows(mode, days) ==
    JobCandidates(mode, days)
        \cup UNION {JobsOf(m) : m \in ModelCandidates(mode, days)}

\* Mutant: the work directories of a model's jobs are not collected.
JobDirsOnly(mode, days) == JobCandidates(mode, days)

\* Directories that go: modelJobDirs holds those of the cascading rows.
PurgedDirs(mode, days) ==
    JobCandidates(mode, days)
        \cup UNION {JobsOf(m) : m \in ModelCandidates(mode, days)}

Cleanup(mode, days) ==
    /\ \A j \in JobCandidates(mode, days) : status[j] \in Final
    /\ JobCandidates(mode, days) \cup ModelCandidates(mode, days) # {}
    /\ wd' = [j \in Jobs |-> IF j \in PurgedDirs(mode, days)
                              THEN "absent" ELSE wd[j]]
    /\ status' = [j \in Jobs |-> IF j \in PurgedRows(mode, days)
                                  THEN "gone" ELSE status[j]]
    /\ models' = models \ ModelCandidates(mode, days)
    /\ UNCHANGED <<bullVars, deleted, queueUp, run, executors, execVars,
                   adding, cancelling, crashes, oldJobs, oldModels>>

\* Time passes; a model is never younger than its jobs.
ModelAges(m) ==
    /\ m \in models \ oldModels
    /\ oldModels' = oldModels \cup {m}
    /\ UNCHANGED <<vars, oldJobs>>

JobAges(j) ==
    /\ j \in Rows \ oldJobs
    /\ ModelOf[j] \in oldModels
    /\ oldJobs' = oldJobs \cup {j}
    /\ UNCHANGED <<vars, oldModels>>

SliceStep == Next /\ UNCHANGED <<oldJobs, oldModels>>

StorageNext ==
    \/ SliceStep
    \/ \E mode \in Mode, days \in Age : Cleanup(mode, days)
    \/ \E m \in Models : ModelAges(m)
    \/ \E j \in Jobs : JobAges(j)

StorageSpec == StorageInit /\ [][StorageNext]_storageVars

\* The cleanup is a request, so it adds nothing to the fairness of the jobs.
FairStorageSpec == StorageSpec /\ Fairness

----------------------------------------------------------------------------
(* Properties *)

\* The foreign key jobs.model_id: a job row always has its model's row.
RowHasModel == \A j \in Rows : ModelOf[j] \in models

\* "their job workDirs must be fs-cleaned too": whatever row a cleanup makes
\* disappear, itself or by cascade, its directory disappears with it.
CleanupLeavesNoOrphanDir ==
    [][\A mode \in Mode, days \in Age :
        Cleanup(mode, days) =>
            \A j \in Rows : status'[j] = "gone" => wd'[j] = "absent"]_storageVars
=============================================================================
