----------------------------- MODULE SliceJobs -----------------------------
(***************************************************************************)
(* The life of a slice job: POST /api/slice, runSliceJob and its executor, *)
(* the cancel and delete routes, deletion of the model, the Redis worker,  *)
(* and a restart of the server.                                            *)
(*                                                                         *)
(* The server is one Node.js process.  An action is the code that runs     *)
(* between two points where control returns to the event loop: an await,   *)
(* a callback, the end of a handler.  "run[j]" is the await at which       *)
(* runSliceJob(j) is suspended.  Progress and the estimates parsed from    *)
(* the gcode are left out: nothing in the life cycle reads them.           *)
(*                                                                         *)
(* A definition marked "Mutant" is the next one with a plausible bug; no   *)
(* specification uses it.                                                  *)
(***************************************************************************)
EXTENDS BullQueue

CONSTANTS
    Models,           \* model ids
    ModelOf,          \* the model each job slices
    SidecarJobs,      \* jobs whose engine has a SLICER_URL_<ENGINE>
    RedisConfigured,  \* REDIS_HOST is set and the server behind it answers
    KeepFailed,       \* SNORCAL_KEEP_FAILED_SLICE=1
    MaxCrashes        \* bound on restarts of the server

ASSUME SliceAssumption ==
    /\ ModelOf \in [Jobs -> Models]
    /\ SidecarJobs \subseteq Jobs
    /\ RedisConfigured \in BOOLEAN
    /\ KeepFailed \in BOOLEAN
    /\ MaxCrashes \in Nat

VARIABLES
    (* persistent: SQLite and the /data volume *)
    models,      \* rows of models
    status,      \* jobs.status; "none" before the row, "gone" after it
    wd,          \* what /data/jobs/<id> holds
    deleted,     \* jobs DELETE /api/jobs/:id was called for (history)
    (* memory of the server process *)
    queueUp,     \* queue !== null
    run,         \* where runSliceJob is suspended
    executors,   \* keys of runningExecutors
    aborted,     \* executors whose AbortController fired while it was set
    termed,      \* executors whose child got SIGTERM (child.killed)
    killTimer,   \* executors with the 5 s timer of cancel() pending
    sigkilled,   \* executors whose child got SIGKILL
    adding,      \* POST handlers suspended in queue.add
    cancelling,  \* cancel handlers suspended in queue.getJob / discard
    crashes      \* restarts so far

storeVars == <<models, status, wd, deleted>>
execVars  == <<aborted, termed, killTimer, sigkilled>>
sliceVars == <<storeVars, queueUp, run, executors, execVars, adding,
               cancelling, crashes>>
vars      == <<bullVars, sliceVars>>

Row    == {"queued", "running", "completed", "failed", "cancelled"}
Final  == {"completed", "failed", "cancelled"}
Status == Row \cup {"none", "gone"}
\* "build": buildSliceInput3MF; "slicing": the local child; the rest are the
\* awaits of executeHttp: readFile, fetch, the text of a refusal, the body.
Phase  == {"idle", "build", "slicing", "read", "post", "refused", "download"}
\* "made": empty; "built": input and output/ but no gcode; "sliced": gcode.
Dir    == {"absent", "made", "built", "sliced"}

\* The one type invariant: every variable holds a value the code can store.
TypeOK ==
    /\ BullTypeOK
    /\ models \subseteq Models
    /\ status \in [Jobs -> Status]
    /\ wd \in [Jobs -> Dir]
    /\ deleted \subseteq Jobs
    /\ queueUp \in BOOLEAN
    /\ run \in [Jobs -> Phase]
    /\ executors \subseteq Jobs
    /\ aborted \subseteq Jobs
    /\ termed \subseteq Jobs
    /\ killTimer \subseteq Jobs
    /\ sigkilled \subseteq Jobs
    /\ adding \subseteq Jobs
    /\ cancelling \subseteq Jobs
    /\ crashes \in 0..MaxCrashes

Init ==
    /\ BullInit
    /\ models = Models
    /\ status = [j \in Jobs |-> "none"]
    /\ wd = [j \in Jobs |-> "absent"]
    /\ deleted = {}
    /\ queueUp = FALSE
    /\ run = [j \in Jobs |-> "idle"]
    /\ executors = {}
    /\ aborted = {} /\ termed = {} /\ killTimer = {} /\ sigkilled = {}
    /\ adding = {}
    /\ cancelling = {}
    /\ crashes = 0

----------------------------------------------------------------------------
(* Database and work directory *)

\* UPDATE jobs SET status = s WHERE id = j touches no row once it is gone.
SetStatus(j, s) ==
    status' = IF status[j] \in Row THEN [status EXCEPT ![j] = s] ELSE status

\* Mutant: the catch of runSliceJob forgets the directory.
DirKept(j) == wd

\* The catch of runSliceJob removes the work directory unless told not to.
DirAfterFailure(j) ==
    IF KeepFailed THEN wd ELSE [wd EXCEPT ![j] = "absent"]

----------------------------------------------------------------------------
(* Submission *)

\* setupQueue: the test connection succeeded, queue and worker exist.
QueueConnects ==
    /\ RedisConfigured
    /\ ~queueUp
    /\ queueUp' = TRUE
    /\ UNCHANGED <<bullVars, storeVars, run, executors, execVars, adding,
                   cancelling, crashes>>

\* runSliceJob up to its first await: mark the row, register the executor.
StartRun(j) ==
    /\ run' = [run EXCEPT ![j] = "build"]
    /\ executors' = executors \cup {j}

\* POST /api/slice without a queue: runSliceDirect runs in the handler.
SubmitDirect(j) ==
    /\ ~queueUp
    /\ status[j] = "none"
    /\ ModelOf[j] \in models
    /\ status' = [status EXCEPT ![j] = "running"]
    /\ wd' = [wd EXCEPT ![j] = "made"]
    /\ StartRun(j)
    /\ UNCHANGED <<bullVars, models, deleted, queueUp, execVars, adding,
                   cancelling, crashes>>

\* POST /api/slice with a queue: the row and the directory exist before the
\* handler awaits queue.add.
SubmitQueued(j) ==
    /\ queueUp
    /\ status[j] = "none"
    /\ ModelOf[j] \in models
    /\ status' = [status EXCEPT ![j] = "queued"]
    /\ wd' = [wd EXCEPT ![j] = "made"]
    /\ adding' = adding \cup {j}
    /\ UNCHANGED <<bullVars, models, deleted, queueUp, run, executors,
                   execVars, cancelling, crashes>>

AddReachesRedis(j) ==
    /\ j \in adding
    /\ adding' = adding \ {j}
    /\ BullAdd(j)
    /\ UNCHANGED <<storeVars, queueUp, run, executors, execVars, cancelling,
                   crashes>>

\* Mutant: a job that is handed out does not become "running".
WorkerStartsSilently(j) ==
    /\ queueUp
    /\ ModelOf[j] \in models
    /\ BullFetch(j, "none")
    /\ StartRun(j)
    /\ UNCHANGED <<storeVars, queueUp, execVars, adding, cancelling, crashes>>

\* processSliceJob: runSliceJob on the next job, whatever its status is now.
WorkerStarts(j) ==
    /\ queueUp
    /\ ModelOf[j] \in models
    /\ BullFetch(j, "none")
    /\ SetStatus(j, "running")
    /\ StartRun(j)
    /\ UNCHANGED <<models, wd, deleted, queueUp, execVars, adding,
                   cancelling, crashes>>

\* processSliceJob throws "Model ... not found" before runSliceJob.
WorkerFindsNoModel(j) ==
    /\ queueUp
    /\ ModelOf[j] \notin models
    /\ BullFetch(j, "error")
    /\ UNCHANGED sliceVars

----------------------------------------------------------------------------
(* runSliceJob and its executor *)

\* Mutant: no finally, a finished executor stays registered.
EndRunLeaks(j) ==
    /\ run' = [run EXCEPT ![j] = "idle"]
    /\ aborted' = aborted \ {j}
    /\ termed' = termed \ {j}
    /\ sigkilled' = sigkilled \ {j}
    /\ UNCHANGED <<executors, killTimer>>

\* The executor and its child or fetch are gone: the finally of runSliceJob.
EndRun(j) ==
    /\ run' = [run EXCEPT ![j] = "idle"]
    /\ executors' = executors \ {j}
    /\ aborted' = aborted \ {j}
    /\ termed' = termed \ {j}
    /\ sigkilled' = sigkilled \ {j}
    /\ UNCHANGED killTimer

\* Mutant: exit code 0 is believed without looking for the gcode.
CompleteUnseen(j) ==
    /\ SetStatus(j, "completed")
    /\ EndRun(j)
    /\ IF active = j THEN BullSettle("ok") ELSE UNCHANGED bullVars
    /\ UNCHANGED <<models, wd, deleted, queueUp, adding, cancelling, crashes>>

\* runSliceJob returns: the row says completed, the gcode is in place.
Complete(j) ==
    /\ wd' = [wd EXCEPT ![j] = "sliced"]
    /\ SetStatus(j, "completed")
    /\ EndRun(j)
    /\ IF active = j THEN BullSettle("ok") ELSE UNCHANGED bullVars
    /\ UNCHANGED <<models, deleted, queueUp, adding, cancelling, crashes>>

\* Mutant: runSliceDirect treats an abort like any other error.
ThrowAlwaysFails(j, isAbort) ==
    /\ wd' = DirAfterFailure(j)
    /\ EndRun(j)
    /\ IF active = j
       THEN BullSettle("error") /\ UNCHANGED status
       ELSE UNCHANGED bullVars /\ SetStatus(j, "failed")
    /\ UNCHANGED <<models, deleted, queueUp, adding, cancelling, crashes>>

\* runSliceJob throws.  The worker reports the failure later; runSliceDirect
\* writes it at once, unless the error looks like an abort.
Throw(j, isAbort) ==
    /\ wd' = DirAfterFailure(j)
    /\ EndRun(j)
    /\ IF active = j
       THEN BullSettle("error") /\ UNCHANGED status
       ELSE /\ UNCHANGED bullVars
            /\ IF isAbort THEN UNCHANGED status ELSE SetStatus(j, "failed")
    /\ UNCHANGED <<models, deleted, queueUp, adding, cancelling, crashes>>

\* The row is already "completed" when reading the gcode back for the
\* estimates throws (a file too long for a string, say).
ThrowAfterCompleted(j) ==
    /\ wd' = [wd EXCEPT ![j] = IF KeepFailed THEN "sliced" ELSE "absent"]
    /\ EndRun(j)
    /\ IF active = j
       THEN BullSettle("error") /\ SetStatus(j, "completed")
       ELSE UNCHANGED bullVars /\ SetStatus(j, "failed")
    /\ UNCHANGED <<models, deleted, queueUp, adding, cancelling, crashes>>

Advance(j, phase) ==
    /\ run' = [run EXCEPT ![j] = phase]
    /\ UNCHANGED <<bullVars, models, status, deleted, queueUp, executors,
                   execVars, adding, cancelling, crashes>>

\* The 3MF is built: write input.3mf, make output/, spawn or start reading.
BuildEnds(j) ==
    /\ run[j] = "build"
    /\ wd[j] # "absent"
    /\ wd' = IF wd[j] = "made" THEN [wd EXCEPT ![j] = "built"] ELSE wd
    /\ Advance(j, IF j \in SidecarJobs THEN "read" ELSE "slicing")

\* build3MF throws, input.3mf cannot be written, the binary is missing.
BuildFails(j) ==
    /\ run[j] = "build"
    /\ Throw(j, FALSE)

ReadEnds(j) ==
    /\ run[j] = "read"
    /\ wd[j] # "absent"
    /\ UNCHANGED wd
    /\ Advance(j, "post")

ReadFails(j) ==
    /\ run[j] = "read"
    /\ wd[j] = "absent"
    /\ Throw(j, FALSE)

\* The sidecar answers 2xx: output/ is made again if it is missing.
SidecarAccepts(j) ==
    /\ run[j] = "post"
    /\ j \notin aborted
    /\ wd' = IF wd[j] = "absent" THEN [wd EXCEPT ![j] = "built"] ELSE wd
    /\ Advance(j, "download")

SidecarRefuses(j) ==
    /\ run[j] = "post"
    /\ j \notin aborted
    /\ UNCHANGED wd
    /\ Advance(j, "refused")

\* exitCode 1 once the text of the refusal is read (or reading it failed).
RefusalRead(j) ==
    /\ run[j] = "refused"
    /\ Throw(j, FALSE)

\* fetch rejects with "fetch failed": the sidecar is down.
SidecarUnreachable(j) ==
    /\ run[j] = "post"
    /\ j \notin aborted
    /\ Throw(j, FALSE)

FetchAborts(j) ==
    /\ run[j] = "post"
    /\ j \in aborted
    /\ Throw(j, TRUE)

\* Mutant: the timeout covers the download but not the fetch.
DownloadTimesOut(j) ==
    /\ run[j] = "download"
    /\ Throw(j, TRUE)

\* AbortSignal.timeout: "The operation was aborted due to timeout".
SidecarTimesOut(j) ==
    /\ run[j] \in {"post", "download"}
    /\ Throw(j, TRUE)

DownloadEnds(j) ==
    /\ run[j] = "download"
    /\ wd[j] # "absent"
    /\ \/ Complete(j)
       \/ ThrowAfterCompleted(j)

\* The body breaks off, the zip has no gcode, output/ has been removed.
DownloadFails(j) ==
    /\ run[j] = "download"
    /\ Throw(j, FALSE)

\* 'close' of the child with gcode in output/: success for exit code 0, and
\* for any other code, or none after a signal, when the file is over 1 kB.
SlicerSucceeds(j) ==
    /\ run[j] = "slicing"
    /\ wd[j] # "absent"
    /\ \/ Complete(j)
       \/ ThrowAfterCompleted(j)

\* 'close' without usable gcode, or 'error'.  The message quotes stderr, so
\* it may contain "abort" ("Aborted (core dumped)").
SlicerFails(j) ==
    /\ run[j] = "slicing"
    /\ \E saysAbort \in BOOLEAN : Throw(j, saysAbort)

----------------------------------------------------------------------------
(* The worker reports to BullMQ *)

WorkerCompleted ==
    /\ BullCompleted
    /\ UNCHANGED sliceVars

WorkerMovesToFailed ==
    /\ BullMoveToFailed
    /\ UNCHANGED sliceVars

\* Mutant: no listener for 'failed'.
OnFailedIgnored(j) ==
    /\ j = active
    /\ BullEmitFailed
    /\ UNCHANGED sliceVars

\* worker.on('failed')
OnFailed(j) ==
    /\ j = active
    /\ BullEmitFailed
    /\ SetStatus(j, "failed")
    /\ UNCHANGED <<models, wd, deleted, queueUp, run, executors, execVars,
                   adding, cancelling, crashes>>

StalledJobRequeued(j) ==
    /\ queueUp
    /\ BullRequeue(j)
    /\ UNCHANGED sliceVars

StalledJobFails(j) ==
    /\ queueUp
    /\ BullGiveUp(j)
    /\ SetStatus(j, "failed")
    /\ UNCHANGED <<models, wd, deleted, queueUp, run, executors, execVars,
                   adding, cancelling, crashes>>

----------------------------------------------------------------------------
(* Cancel and delete *)

\* SlicerExecutor.cancel: nothing to do before the fetch or the child exists.
ExecutorCancel(j) ==
    LET fetching == run[j] = "post"
        child    == run[j] = "slicing" /\ j \notin termed
    IN  /\ aborted' = IF fetching THEN aborted \cup {j} ELSE aborted
        /\ termed' = IF child THEN termed \cup {j} ELSE termed
        /\ killTimer' = IF child THEN killTimer \cup {j} ELSE killTimer
        /\ UNCHANGED sigkilled

\* The end of POST /api/jobs/:id/cancel.
FinishCancel(j) ==
    /\ IF j \in executors THEN ExecutorCancel(j) ELSE UNCHANGED execVars
    /\ SetStatus(j, "cancelled")
    /\ UNCHANGED <<bullVars, models, wd, deleted, queueUp, run, executors,
                   adding, crashes>>

\* Mutant: the route cancels a job in any status.
CancelDirectAny(j) ==
    /\ ~queueUp
    /\ status[j] \in Row
    /\ FinishCancel(j)
    /\ UNCHANGED cancelling

CancelDirect(j) ==
    /\ ~queueUp
    /\ status[j] \in {"queued", "running"}
    /\ FinishCancel(j)
    /\ UNCHANGED cancelling

\* With a queue the handler looks the job up in Redis first: getJob and
\* discard change nothing there, but they suspend the handler.
CancelBegins(j) ==
    /\ queueUp
    /\ status[j] \in {"queued", "running"}
    /\ cancelling' = cancelling \cup {j}
    /\ UNCHANGED <<bullVars, storeVars, queueUp, run, executors, execVars,
                   adding, crashes>>

CancelEnds(j) ==
    /\ j \in cancelling
    /\ cancelling' = cancelling \ {j}
    /\ FinishCancel(j)

\* The escalation timer of cancel(): kill('SIGTERM') has set child.killed.
KillTimerFires(j) ==
    /\ j \in killTimer
    /\ killTimer' = killTimer \ {j}
    /\ sigkilled' = IF run[j] = "slicing" /\ j \notin termed
                    THEN sigkilled \cup {j} ELSE sigkilled
    /\ UNCHANGED <<bullVars, storeVars, queueUp, run, executors, aborted,
                   termed, adding, cancelling, crashes>>

\* DELETE /api/jobs/:id removes the directory and keeps the row.
DeleteJob(j) ==
    /\ status[j] \in Row
    /\ wd' = [wd EXCEPT ![j] = "absent"]
    /\ deleted' = deleted \cup {j}
    /\ UNCHANGED <<bullVars, models, status, queueUp, run, executors,
                   execVars, adding, cancelling, crashes>>

\* DELETE /api/models/:id: the foreign key takes the model's job rows along.
DeleteModel(m) ==
    /\ m \in models
    /\ models' = models \ {m}
    /\ status' = [j \in Jobs |-> IF ModelOf[j] = m /\ status[j] \in Row
                                 THEN "gone" ELSE status[j]]
    /\ UNCHANGED <<bullVars, wd, deleted, queueUp, run, executors, execVars,
                   adding, cancelling, crashes>>

----------------------------------------------------------------------------
(* Restart *)

\* SIGTERM, POST /api/system/restart, a crash: no handler survives, and no
\* code repairs the rows at the next start.
Restart ==
    /\ crashes < MaxCrashes
    /\ crashes' = crashes + 1
    /\ BullCrash
    /\ queueUp' = FALSE
    /\ run' = [j \in Jobs |-> "idle"]
    /\ executors' = {}
    /\ aborted' = {} /\ termed' = {} /\ killTimer' = {} /\ sigkilled' = {}
    /\ adding' = {}
    /\ cancelling' = {}
    /\ UNCHANGED storeVars

----------------------------------------------------------------------------

\* What runSliceJob and its executor do by themselves.
Run(j) ==
    \/ BuildEnds(j) \/ BuildFails(j)
    \/ ReadEnds(j) \/ ReadFails(j)
    \/ SidecarAccepts(j) \/ SidecarRefuses(j) \/ RefusalRead(j)
    \/ SidecarUnreachable(j) \/ FetchAborts(j) \/ SidecarTimesOut(j)
    \/ DownloadEnds(j) \/ DownloadFails(j)
    \/ SlicerFails(j) \/ SlicerSucceeds(j)

\* What the worker does by itself.
Worker(j) ==
    \/ WorkerStarts(j) \/ WorkerFindsNoModel(j)
    \/ OnFailed(j)
    \/ StalledJobRequeued(j) \/ StalledJobFails(j)

\* What users ask for.
User(j) ==
    \/ SubmitDirect(j) \/ SubmitQueued(j)
    \/ CancelDirect(j) \/ CancelBegins(j)
    \/ DeleteJob(j)

Next ==
    \/ \E j \in Jobs : Run(j) \/ Worker(j) \/ User(j) \/ AddReachesRedis(j)
                       \/ CancelEnds(j) \/ KillTimerFires(j)
    \/ \E m \in Models : DeleteModel(m)
    \/ QueueConnects
    \/ WorkerCompleted
    \/ WorkerMovesToFailed
    \/ Restart

Spec == Init /\ [][Next]_vars

(***************************************************************************)
(* Fairness: the event loop runs every continuation that is due, a hung    *)
(* sidecar is cut off by AbortSignal.timeout, and Redis answers.  A        *)
(* sidecar owes no answer, a user no request, and a local slicer no end:   *)
(* executeLocal has no timeout.                                            *)
(***************************************************************************)
RunFair(j) ==
    \/ BuildEnds(j) \/ BuildFails(j)
    \/ ReadEnds(j) \/ ReadFails(j)
    \/ RefusalRead(j) \/ FetchAborts(j) \/ SidecarTimesOut(j)

Fairness ==
    /\ \A j \in Jobs :
        /\ WF_vars(RunFair(j))
        /\ WF_vars(Worker(j))
        /\ WF_vars(AddReachesRedis(j))
        /\ WF_vars(CancelEnds(j))
        /\ WF_vars(KillTimerFires(j))
    /\ WF_vars(QueueConnects)
    /\ WF_vars(WorkerCompleted)
    /\ WF_vars(WorkerMovesToFailed)

FairSpec == Spec /\ Fairness

----------------------------------------------------------------------------
(* Safety *)

\* The cancel route finds an executor exactly while a slice is in flight:
\* none is forgotten in runningExecutors, none runs out of its reach.
ExecutorsTracked == executors = {j \in Jobs : run[j] # "idle"}

\* Nothing works in the directory of a job that is reported finished, so the
\* gcode a client sends, pauses or downloads is not being replaced under it.
FinishedMeansIdle ==
    \A j \in Jobs : status[j] \in {"completed", "failed"} => run[j] = "idle"

\* "remove the workDir so failed slices don't accumulate on disk": only a job
\* that Redis gives up after too many restarts may keep its directory.
FailedLeavesNoDir ==
    \A j \in Jobs :
        status[j] = "failed" =>
            \/ wd[j] = "absent"
            \/ KeepFailed
            \/ stalls[j] = MaxStalls

\* A completed job has its gcode, unless a user deleted the directory, or, in
\* Redis mode, the worker's report of a late failure is on its way (or was
\* lost in a restart).
CompletedHasGcode ==
    \A j \in Jobs :
        status[j] = "completed" =>
            \/ wd[j] = "sliced"
            \/ j \in deleted
            \/ active = j /\ outcome \in {"error", "moved"}
            \/ RedisConfigured /\ crashes > 0

\* Without Redis a cancel that reaches the fetch is final: the abort of the
\* slice does not turn "cancelled" into "failed".
CancelInFetchSticks ==
    [][\A j \in Jobs :
        j \in aborted /\ active # j => status'[j] \in {"cancelled", "gone"}]_vars

\* A server without Redis keeps the promise of JobLifecycle.
Lifecycle == INSTANCE JobLifecycle WITH
    job <- [j \in Jobs |-> IF status[j] \in {"queued", "running"}
                           THEN "active" ELSE status[j]]

LifecycleSpec == Lifecycle!Spec

(***************************************************************************)
(* The inductive strengthening of the invariants above.                    *)
(***************************************************************************)

\* A job is in one place of Redis at most, and in none before queue.add.
OnePlace ==
    /\ \A a, b \in DOMAIN waiting : waiting[a] = waiting[b] => a = b
    /\ \A j \in Jobs : InQueue(j) => j \notin stalled /\ j # active
    /\ active \notin stalled
    /\ \A j \in adding : ~Held(j)

\* Only the job in the worker's hands, or a job without a place in Redis, can
\* have a slice in flight.
OnlyActiveRuns ==
    \A j \in Jobs :
        /\ InQueue(j) \/ j \in stalled \/ j \in adding => run[j] = "idle"
        /\ active = j /\ outcome # "none" => run[j] = "idle"
        /\ status[j] = "none" =>
               ~Held(j) /\ j \notin adding /\ run[j] = "idle"

\* Without Redis nothing of the queue ever exists.
NoQueueWithoutRedis ==
    ~RedisConfigured =>
        /\ ~queueUp
        /\ adding = {} /\ cancelling = {}
        /\ waiting = <<>> /\ active = NoJob /\ stalled = {}

\* An aborted fetch belongs to a job that is cancelled or gone.
AbortedMeansCancelled ==
    \A j \in aborted : run[j] = "post" /\ status[j] \in {"cancelled", "gone"}

\* The foreign key jobs.model_id.
JobHasModel == \A j \in Jobs : status[j] \in Row => ModelOf[j] \in models

\* A failure on its way to the row has already taken the directory.
PendingFailureLeavesNoDir ==
    \A j \in Jobs :
        active = j /\ outcome \in {"error", "moved"} /\ status[j] \in Row =>
            wd[j] = "absent" \/ KeepFailed

SliceInv ==
    /\ TypeOK
    /\ OnePlace
    /\ OnlyActiveRuns
    /\ NoQueueWithoutRedis
    /\ AbortedMeansCancelled
    /\ JobHasModel
    /\ PendingFailureLeavesNoDir
    /\ ExecutorsTracked
    /\ FinishedMeansIdle
    /\ FailedLeavesNoDir
    /\ CompletedHasGcode

(* Liveness *)

\* Every slice in flight on a sidecar ends, however the sidecar behaves.
RunEnds == \A j \in SidecarJobs : run[j] # "idle" ~> run[j] = "idle"

\* Every job that reached Redis is worked off and its row tells the result, as long
\* as no CLI child, which has no timeout, holds the only worker, and no restart
\* leaves a job to be given up as stalled.
RedisJobSettles ==
    \A j \in Jobs :
        Held(j) ~> \/ ~Held(j) /\ status[j] \in Final \cup {"gone"}
                   \/ crashes > 0
                   \/ \E k \in Jobs \ SidecarJobs : run[k] # "idle"

----------------------------------------------------------------------------
(* Promises of comments that the code does not keep (see the README) *)

\* slicer-executor.ts:159 "a generous timeout so a hung sidecar still fails
\* eventually": a running job does not stay running.
RunningSettles == \A j \in Jobs : status[j] = "running" ~> status[j] # "running"
=============================================================================
