----------------------------- MODULE SliceProofs ----------------------------
(***************************************************************************)
(* Theorems about SliceJobs and JobStorage for every value of their        *)
(* constants, in three parts: types, the invariant SliceInv and the safety *)
(* properties it is made of, and what single steps do to the rows.         *)
(***************************************************************************)
EXTENDS JobStorage, TLAPS

(***************************************************************************)
(* Type correctness.                                                       *)
(***************************************************************************)

LEMMA SetStatusType ==
    ASSUME TypeOK, NEW j \in Jobs, NEW s \in Row, SetStatus(j, s)
    PROVE  status' \in [Jobs -> Status]
BY DEF TypeOK, SetStatus, Row, Status

LEMMA EndRunType ==
    ASSUME TypeOK, NEW j \in Jobs, EndRun(j)
    PROVE  /\ run' \in [Jobs -> Phase]
           /\ executors' \subseteq Jobs
           /\ aborted' \subseteq Jobs
           /\ termed' \subseteq Jobs
           /\ sigkilled' \subseteq Jobs
           /\ killTimer' \subseteq Jobs
BY DEF TypeOK, EndRun, Phase

LEMMA BullSettleType ==
    ASSUME BullTypeOK, NEW r \in Outcome, BullSettle(r)
    PROVE  BullTypeOK'
BY DEF BullTypeOK, BullSettle

LEMMA BullUnchangedType ==
    ASSUME BullTypeOK, UNCHANGED bullVars
    PROVE  BullTypeOK'
BY DEF BullTypeOK, bullVars

LEMMA CompleteType ==
    ASSUME TypeOK, NEW j \in Jobs, Complete(j)
    PROVE  TypeOK'
<1>1. status' \in [Jobs -> Status]
  BY SetStatusType DEF Complete, Row
<1>2. BullTypeOK'
  BY BullSettleType, BullUnchangedType DEF Complete, TypeOK, Outcome
<1> QED
  BY <1>1, <1>2, EndRunType DEF Complete, TypeOK, Dir

LEMMA ThrowType ==
    ASSUME TypeOK, NEW j \in Jobs, NEW isAbort \in BOOLEAN, Throw(j, isAbort)
    PROVE  TypeOK'
<1>1. status' \in [Jobs -> Status]
  BY SetStatusType DEF Throw, Row, TypeOK
<1>2. BullTypeOK'
  BY BullSettleType, BullUnchangedType DEF Throw, TypeOK, Outcome
<1> QED
  BY <1>1, <1>2, EndRunType DEF Throw, TypeOK, DirAfterFailure, Dir

LEMMA ThrowAfterCompletedType ==
    ASSUME TypeOK, NEW j \in Jobs, ThrowAfterCompleted(j)
    PROVE  TypeOK'
<1>1. status' \in [Jobs -> Status]
  BY SetStatusType DEF ThrowAfterCompleted, Row
<1>2. BullTypeOK'
  BY BullSettleType, BullUnchangedType
     DEF ThrowAfterCompleted, TypeOK, Outcome
<1> QED
  BY <1>1, <1>2, EndRunType DEF ThrowAfterCompleted, TypeOK, Dir

LEMMA AdvanceType ==
    ASSUME TypeOK, NEW j \in Jobs, NEW p \in Phase, Advance(j, p),
           wd' \in [Jobs -> Dir]
    PROVE  TypeOK'
<1>1. BullTypeOK'
  BY BullUnchangedType DEF Advance, TypeOK
<1> QED
  BY <1>1 DEF Advance, TypeOK, execVars

LEMMA RunType ==
    ASSUME TypeOK, NEW j \in Jobs, Run(j)
    PROVE  TypeOK'
<1> USE DEF TypeOK, Phase, Dir
<1>1. CASE BuildEnds(j)
  BY <1>1, AdvanceType DEF BuildEnds
<1>2. CASE BuildFails(j)
  BY <1>2, ThrowType DEF BuildFails
<1>3. CASE ReadEnds(j)
  BY <1>3, AdvanceType DEF ReadEnds
<1>4. CASE ReadFails(j)
  BY <1>4, ThrowType DEF ReadFails
<1>5. CASE SidecarAccepts(j)
  BY <1>5, AdvanceType DEF SidecarAccepts
<1>6. CASE SidecarRefuses(j)
  BY <1>6, AdvanceType DEF SidecarRefuses
<1>7. CASE RefusalRead(j)
  BY <1>7, ThrowType DEF RefusalRead
<1>8. CASE SidecarUnreachable(j)
  BY <1>8, ThrowType DEF SidecarUnreachable
<1>9. CASE FetchAborts(j)
  BY <1>9, ThrowType DEF FetchAborts
<1>10. CASE SidecarTimesOut(j)
  BY <1>10, ThrowType DEF SidecarTimesOut
<1>11. CASE DownloadEnds(j)
  BY <1>11, CompleteType, ThrowAfterCompletedType DEF DownloadEnds
<1>12. CASE DownloadFails(j)
  BY <1>12, ThrowType DEF DownloadFails
<1>13. CASE SlicerSucceeds(j)
  BY <1>13, CompleteType, ThrowAfterCompletedType DEF SlicerSucceeds
<1>14. CASE SlicerFails(j)
  BY <1>14, ThrowType DEF SlicerFails
<1> QED
  BY <1>1, <1>2, <1>3, <1>4, <1>5, <1>6, <1>7, <1>8, <1>9, <1>10, <1>11,
     <1>12, <1>13, <1>14 DEF Run

LEMMA FinishCancelType ==
    ASSUME TypeOK, NEW j \in Jobs, FinishCancel(j), cancelling' \subseteq Jobs
    PROVE  TypeOK'
<1>1. status' \in [Jobs -> Status]
  BY SetStatusType DEF FinishCancel, Row
<1>2. BullTypeOK'
  BY BullUnchangedType DEF FinishCancel, TypeOK
<1>3. /\ aborted' \subseteq Jobs
      /\ termed' \subseteq Jobs
      /\ killTimer' \subseteq Jobs
      /\ sigkilled' \subseteq Jobs
  BY DEF FinishCancel, TypeOK, ExecutorCancel, execVars
<1> QED
  BY <1>1, <1>2, <1>3 DEF FinishCancel, TypeOK

LEMMA SeqPrepend ==
    ASSUME NEW S, NEW x \in S, NEW s \in Seq(S)
    PROVE  <<x>> \o s \in Seq(S)
OBVIOUS

LEMMA WorkerType ==
    ASSUME TypeOK, NEW j \in Jobs, Worker(j)
    PROVE  TypeOK'
<1> USE DEF TypeOK
<1>1. CASE WorkerStarts(j)
  <2>1. BullTypeOK'
    BY <1>1 DEF WorkerStarts, BullFetch, BullTypeOK, Outcome
  <2>2. status' \in [Jobs -> Status]
    BY <1>1, SetStatusType DEF WorkerStarts, Row
  <2> QED
    BY <1>1, <2>1, <2>2 DEF WorkerStarts, StartRun, Phase, execVars
<1>2. CASE WorkerFindsNoModel(j)
  <2>1. BullTypeOK'
    BY <1>2 DEF WorkerFindsNoModel, BullFetch, BullTypeOK, Outcome
  <2> QED
    BY <1>2, <2>1 DEF WorkerFindsNoModel, sliceVars, storeVars, execVars
<1>3. CASE OnFailed(j)
  <2>1. BullTypeOK'
    BY <1>3 DEF OnFailed, BullEmitFailed, BullTypeOK, Outcome
  <2>2. status' \in [Jobs -> Status]
    BY <1>3, SetStatusType DEF OnFailed, Row
  <2> QED
    BY <1>3, <2>1, <2>2 DEF OnFailed, execVars
<1>4. CASE StalledJobRequeued(j)
  <2>1. BullTypeOK'
    BY <1>4, SeqPrepend, BullAssumption
       DEF StalledJobRequeued, BullRequeue, BullTypeOK
  <2> QED
    BY <1>4, <2>1 DEF StalledJobRequeued, sliceVars, storeVars, execVars
<1>5. CASE StalledJobFails(j)
  <2>1. BullTypeOK'
    BY <1>5 DEF StalledJobFails, BullGiveUp, BullTypeOK
  <2>2. status' \in [Jobs -> Status]
    BY <1>5, SetStatusType DEF StalledJobFails, Row
  <2> QED
    BY <1>5, <2>1, <2>2 DEF StalledJobFails, execVars
<1> QED
  BY <1>1, <1>2, <1>3, <1>4, <1>5 DEF Worker

LEMMA UserType ==
    ASSUME TypeOK, NEW j \in Jobs, User(j)
    PROVE  TypeOK'
<1> USE DEF TypeOK
<1>1. CASE SubmitDirect(j)
  BY <1>1, BullUnchangedType
     DEF SubmitDirect, StartRun, Status, Row, Dir, Phase, execVars
<1>2. CASE SubmitQueued(j)
  BY <1>2, BullUnchangedType DEF SubmitQueued, Status, Row, Dir, execVars
<1>3. CASE CancelDirect(j)
  BY <1>3, FinishCancelType DEF CancelDirect
<1>4. CASE CancelBegins(j)
  BY <1>4, BullUnchangedType DEF CancelBegins, storeVars, execVars
<1>5. CASE DeleteJob(j)
  BY <1>5, BullUnchangedType DEF DeleteJob, Dir, execVars
<1> QED
  BY <1>1, <1>2, <1>3, <1>4, <1>5 DEF User

LEMMA NextType == TypeOK /\ [Next]_vars => TypeOK'
<1> SUFFICES ASSUME TypeOK, [Next]_vars
             PROVE  TypeOK'
  OBVIOUS
<1>1. ASSUME NEW j \in Jobs, Run(j) \/ Worker(j) \/ User(j)
      PROVE  TypeOK'
  BY <1>1, RunType, WorkerType, UserType
<1>2. ASSUME NEW j \in Jobs, AddReachesRedis(j)
      PROVE  TypeOK'
  <2>1. BullTypeOK'
    BY <1>2 DEF AddReachesRedis, BullAdd, BullTypeOK, TypeOK
  <2> QED
    BY <1>2, <2>1 DEF AddReachesRedis, TypeOK, storeVars, execVars
<1>3. ASSUME NEW j \in Jobs, CancelEnds(j)
      PROVE  TypeOK'
  BY <1>3, FinishCancelType DEF CancelEnds, TypeOK
<1>4. ASSUME NEW j \in Jobs, KillTimerFires(j)
      PROVE  TypeOK'
  BY <1>4, BullUnchangedType DEF KillTimerFires, TypeOK, storeVars
<1>5. ASSUME NEW m \in Models, DeleteModel(m)
      PROVE  TypeOK'
  BY <1>5, BullUnchangedType DEF DeleteModel, TypeOK, Status, execVars
<1>6. CASE QueueConnects
  BY <1>6, BullUnchangedType DEF QueueConnects, TypeOK, storeVars, execVars
<1>7. CASE WorkerCompleted
  <2>1. BullTypeOK'
    BY <1>7 DEF WorkerCompleted, BullCompleted, BullTypeOK, Outcome, TypeOK
  <2> QED
    BY <1>7, <2>1 DEF WorkerCompleted, TypeOK, sliceVars, storeVars, execVars
<1>8. CASE WorkerMovesToFailed
  <2>1. BullTypeOK'
    BY <1>8
       DEF WorkerMovesToFailed, BullMoveToFailed, BullTypeOK, Outcome, TypeOK
  <2> QED
    BY <1>8, <2>1
       DEF WorkerMovesToFailed, TypeOK, sliceVars, storeVars, execVars
<1>9. CASE Restart
  <2>1. BullTypeOK'
    BY <1>9 DEF Restart, BullCrash, BullTypeOK, Outcome, TypeOK
  <2>2. crashes' \in 0..MaxCrashes
    BY <1>9, SliceAssumption DEF Restart, TypeOK
  <2>3. run' \in [Jobs -> Phase]
    BY <1>9 DEF Restart, Phase
  <2> QED
    BY <1>9, <2>1, <2>2, <2>3 DEF Restart, TypeOK, storeVars
<1>10. CASE UNCHANGED vars
  BY <1>10, BullUnchangedType
     DEF vars, sliceVars, storeVars, execVars, TypeOK
<1> QED
  BY <1>1, <1>2, <1>3, <1>4, <1>5, <1>6, <1>7, <1>8, <1>9, <1>10 DEF Next

LEMMA InitType == Init => TypeOK
<1> SUFFICES ASSUME Init
             PROVE  TypeOK
  OBVIOUS
<1>1. BullTypeOK
  BY BullAssumption DEF Init, BullInit, BullTypeOK, Outcome
<1>2. crashes \in 0..MaxCrashes
  BY SliceAssumption DEF Init
<1>3. run \in [Jobs -> Phase]
  BY DEF Init, Phase
<1> QED
  BY <1>1, <1>2, <1>3 DEF Init, TypeOK, Status, Dir

\* Every variable keeps to the values the code can store.
THEOREM TypeCorrect == Spec => []TypeOK
BY InitType, NextType, PTL DEF Spec

----------------------------------------------------------------------------
(***************************************************************************)
(* SliceInv is an invariant.                                               *)
(*                                                                         *)
(* The lemmas follow the actions.  The ends of a slice (Complete, Throw,   *)
(* ThrowAfterCompleted) and its steps (Advance) come first, because the    *)
(* fourteen actions of Run are made of them.                               *)
(***************************************************************************)

\* An action that moves no job through Redis keeps every job in its place.
LEMMA SamePlaces ==
    ASSUME OnePlace, UNCHANGED <<waiting, active, stalled, adding>>
    PROVE  /\ OnePlace'
           /\ \A j \in Jobs : InQueue(j)' <=> InQueue(j)
           /\ \A j \in Jobs : Held(j)' <=> Held(j)
BY DEF OnePlace, Held, InQueue

\* How a finishing slice treats the queue: only "outcome" can change, and
\* only when the job is the worker's.
LEMMA SettleFrame ==
    ASSUME NEW j, NEW r,
           IF active = j THEN BullSettle(r) ELSE UNCHANGED bullVars
    PROVE  /\ UNCHANGED <<waiting, active, stalled, stalls>>
           /\ outcome' = IF active = j THEN r ELSE outcome
BY DEF BullSettle, bullVars

\* What the finally block leaves behind.
LEMMA EndRunEffect ==
    ASSUME TypeOK, NEW j \in Jobs, EndRun(j)
    PROVE  /\ run'[j] = "idle"
           /\ \A k \in Jobs \ {j} : run'[k] = run[k]
           /\ executors' = executors \ {j}
           /\ aborted' = aborted \ {j}
BY DEF EndRun, TypeOK

LEMMA SetStatusEffect ==
    ASSUME TypeOK, NEW j \in Jobs, NEW s \in Row, SetStatus(j, s)
    PROVE  /\ \A k \in Jobs \ {j} : status'[k] = status[k]
           /\ status'[j] = IF status[j] \in Row THEN s ELSE status[j]
BY DEF SetStatus, TypeOK

(***************************************************************************)
(* The end of a slice, whatever it is.  The hypotheses are what the three  *)
(* endings have in common; the last four are what makes each one safe.     *)
(***************************************************************************)
LEMMA EndingKeepsInv ==
    ASSUME SliceInv, TypeOK', NEW j \in Jobs, run[j] # "idle",
           EndRun(j),
           UNCHANGED <<waiting, active, stalled, stalls, adding, models,
                       deleted, queueUp, cancelling, crashes>>,
           active # j => UNCHANGED outcome,
           \A k \in Jobs \ {j} : status'[k] = status[k] /\ wd'[k] = wd[k],
           status[j] \notin Row => status'[j] = status[j],
           status[j] \in Row => status'[j] \in Row,
           status'[j] = "failed" => wd'[j] = "absent" \/ KeepFailed,
           status'[j] = "completed" =>
               wd'[j] = "sliced" \/ (active = j /\ outcome' = "error"),
           active = j /\ outcome' \in {"error", "moved"} =>
               wd'[j] = "absent" \/ KeepFailed
    PROVE  SliceInv'
<1>1. TypeOK /\ OnePlace /\ status[j] # "none"
  BY DEF SliceInv, OnlyActiveRuns
<1>2. /\ run'[j] = "idle"
      /\ \A k \in Jobs \ {j} : run'[k] = run[k]
      /\ executors' = executors \ {j}
      /\ aborted' = aborted \ {j}
  BY <1>1, EndRunEffect
<1>3. /\ OnePlace'
      /\ \A k \in Jobs : InQueue(k)' <=> InQueue(k)
      /\ \A k \in Jobs : Held(k)' <=> Held(k)
  BY <1>1, SamePlaces
<1>4. OnlyActiveRuns'
  <2> SUFFICES ASSUME NEW k \in Jobs
               PROVE  /\ InQueue(k)' \/ k \in stalled' \/ k \in adding'
                            => run'[k] = "idle"
                      /\ active' = k /\ outcome' # "none" => run'[k] = "idle"
                      /\ status'[k] = "none" =>
                            ~Held(k)' /\ k \notin adding' /\ run'[k] = "idle"
    BY DEF OnlyActiveRuns
  <2>1. CASE k = j
    BY <2>1, <1>1, <1>2 DEF Row
  <2>2. CASE k # j
    BY <2>2, <1>2, <1>3 DEF SliceInv, OnlyActiveRuns
  <2> QED
    BY <2>1, <2>2
<1>5. NoQueueWithoutRedis'
  BY DEF SliceInv, NoQueueWithoutRedis
<1>6. AbortedMeansCancelled'
  <2> SUFFICES ASSUME NEW k \in aborted'
               PROVE  run'[k] = "post" /\ status'[k] \in {"cancelled", "gone"}
    BY DEF AbortedMeansCancelled
  <2>1. k \in Jobs \ {j} /\ k \in aborted
    BY <1>1, <1>2 DEF TypeOK
  <2> QED
    BY <2>1, <1>2 DEF SliceInv, AbortedMeansCancelled
<1>7. JobHasModel'
  BY DEF SliceInv, JobHasModel
<1>8. PendingFailureLeavesNoDir'
  BY DEF SliceInv, PendingFailureLeavesNoDir
<1>9. ExecutorsTracked'
  BY <1>2 DEF SliceInv, ExecutorsTracked
<1>10. FinishedMeansIdle'
  BY <1>2 DEF SliceInv, FinishedMeansIdle
<1>11. FailedLeavesNoDir'
  BY DEF SliceInv, FailedLeavesNoDir
<1>12. CompletedHasGcode'
  BY DEF SliceInv, CompletedHasGcode
<1> QED
  BY <1>3, <1>4, <1>5, <1>6, <1>7, <1>8, <1>9, <1>10, <1>11, <1>12
     DEF SliceInv

LEMMA CompleteInv ==
    ASSUME SliceInv, TypeOK', NEW j \in Jobs, run[j] # "idle", Complete(j)
    PROVE  SliceInv'
<1>1. TypeOK
  BY DEF SliceInv
<1>2. /\ UNCHANGED <<waiting, active, stalled, stalls>>
      /\ outcome' = IF active = j THEN "ok" ELSE outcome
  BY SettleFrame DEF Complete
<1>3. /\ \A k \in Jobs \ {j} : status'[k] = status[k]
      /\ status'[j] = IF status[j] \in Row THEN "completed" ELSE status[j]
  BY <1>1, SetStatusEffect DEF Complete, Row
<1>4. wd'[j] = "sliced" /\ \A k \in Jobs \ {j} : wd'[k] = wd[k]
  BY <1>1 DEF Complete, TypeOK
<1> QED
  BY <1>1, <1>2, <1>3, <1>4, EndingKeepsInv DEF Complete, Row

LEMMA ThrowInv ==
    ASSUME SliceInv, TypeOK', NEW j \in Jobs, NEW isAbort \in BOOLEAN,
           run[j] # "idle", Throw(j, isAbort)
    PROVE  SliceInv'
<1>1. TypeOK /\ status[j] \notin {"completed", "failed"}
  BY DEF SliceInv, FinishedMeansIdle
<1>2. /\ UNCHANGED <<waiting, active, stalled, stalls>>
      /\ outcome' = IF active = j THEN "error" ELSE outcome
  BY SettleFrame DEF Throw
<1>3. /\ \A k \in Jobs \ {j} : status'[k] = status[k]
      /\ \/ status'[j] = status[j]
         \/ status[j] \in Row /\ status'[j] = "failed"
  BY <1>1, SetStatusEffect DEF Throw, Row
<1>4. /\ wd'[j] = "absent" \/ KeepFailed
      /\ \A k \in Jobs \ {j} : wd'[k] = wd[k]
  BY <1>1 DEF Throw, DirAfterFailure, TypeOK
<1> QED
  BY <1>1, <1>2, <1>3, <1>4, EndingKeepsInv DEF Throw, Row

LEMMA ThrowAfterCompletedInv ==
    ASSUME SliceInv, TypeOK', NEW j \in Jobs, run[j] # "idle",
           ThrowAfterCompleted(j)
    PROVE  SliceInv'
<1>1. TypeOK /\ status[j] \notin {"completed", "failed"}
  BY DEF SliceInv, FinishedMeansIdle
<1>2. /\ UNCHANGED <<waiting, active, stalled, stalls>>
      /\ outcome' = IF active = j THEN "error" ELSE outcome
  BY SettleFrame DEF ThrowAfterCompleted
<1>3. /\ \A k \in Jobs \ {j} : status'[k] = status[k]
      /\ status[j] \notin Row => status'[j] = status[j]
      /\ status[j] \in Row =>
            status'[j] = IF active = j THEN "completed" ELSE "failed"
  BY <1>1, SetStatusEffect DEF ThrowAfterCompleted, Row
<1>4. /\ wd'[j] = "absent" \/ KeepFailed
      /\ \A k \in Jobs \ {j} : wd'[k] = wd[k]
  BY <1>1, SliceAssumption DEF ThrowAfterCompleted, TypeOK
<1> QED
  BY <1>1, <1>2, <1>3, <1>4, EndingKeepsInv DEF ThrowAfterCompleted, Row

\* A slice that goes on: its row says "running", or it was cancelled or lost
\* its row, so none of the promises about finished jobs is at stake.
LEMMA AdvanceInv ==
    ASSUME SliceInv, TypeOK', NEW j \in Jobs, run[j] # "idle", j \notin aborted,
           NEW p \in Phase \ {"idle"}, Advance(j, p),
           \A k \in Jobs \ {j} : wd'[k] = wd[k]
    PROVE  SliceInv'
<1>1. /\ TypeOK /\ OnePlace
      /\ status[j] \notin {"completed", "failed", "none"}
      /\ active = j => outcome = "none"
  BY DEF SliceInv, FinishedMeansIdle, OnlyActiveRuns
<1>2. run'[j] = p /\ \A k \in Jobs \ {j} : run'[k] = run[k]
  BY <1>1 DEF Advance, TypeOK
<1>3. /\ OnePlace'
      /\ \A k \in Jobs : InQueue(k)' <=> InQueue(k)
      /\ \A k \in Jobs : Held(k)' <=> Held(k)
  BY <1>1, SamePlaces DEF Advance, bullVars
<1>4. OnlyActiveRuns'
  BY <1>1, <1>2, <1>3 DEF Advance, bullVars, SliceInv, OnlyActiveRuns
<1>5. NoQueueWithoutRedis'
  BY DEF Advance, bullVars, SliceInv, NoQueueWithoutRedis
<1>6. AbortedMeansCancelled'
  BY <1>1, <1>2
     DEF Advance, execVars, SliceInv, AbortedMeansCancelled, TypeOK
<1>7. JobHasModel'
  BY DEF Advance, SliceInv, JobHasModel
<1>8. PendingFailureLeavesNoDir'
  BY <1>1 DEF Advance, bullVars, SliceInv, PendingFailureLeavesNoDir
<1>9. ExecutorsTracked'
  BY <1>2 DEF Advance, SliceInv, ExecutorsTracked
<1>10. FinishedMeansIdle'
  BY <1>1, <1>2 DEF Advance, SliceInv, FinishedMeansIdle
<1>11. FailedLeavesNoDir'
  BY <1>1 DEF Advance, bullVars, SliceInv, FailedLeavesNoDir
<1>12. CompletedHasGcode'
  BY <1>1 DEF Advance, bullVars, SliceInv, CompletedHasGcode
<1> QED
  BY <1>3, <1>4, <1>5, <1>6, <1>7, <1>8, <1>9, <1>10, <1>11, <1>12
     DEF SliceInv

LEMMA RunInv ==
    ASSUME SliceInv, TypeOK', NEW j \in Jobs, Run(j)
    PROVE  SliceInv'
<1>1. TypeOK /\ (j \in aborted => run[j] = "post")
  BY DEF SliceInv, AbortedMeansCancelled
<1> USE DEF Phase
<1>2. CASE BuildEnds(j)
  BY <1>1, <1>2, AdvanceInv DEF BuildEnds, TypeOK
<1>3. CASE ReadEnds(j)
  BY <1>1, <1>3, AdvanceInv DEF ReadEnds, TypeOK
<1>4. CASE SidecarAccepts(j)
  BY <1>1, <1>4, AdvanceInv DEF SidecarAccepts, TypeOK
<1>5. CASE SidecarRefuses(j)
  BY <1>1, <1>5, AdvanceInv DEF SidecarRefuses, TypeOK
<1>6. CASE BuildFails(j) \/ ReadFails(j) \/ RefusalRead(j)
           \/ SidecarUnreachable(j) \/ FetchAborts(j) \/ SidecarTimesOut(j)
           \/ DownloadFails(j) \/ SlicerFails(j)
  BY <1>6, ThrowInv
     DEF BuildFails, ReadFails, RefusalRead, SidecarUnreachable, FetchAborts,
         SidecarTimesOut, DownloadFails, SlicerFails
<1>7. CASE DownloadEnds(j) \/ SlicerSucceeds(j)
  BY <1>7, CompleteInv, ThrowAfterCompletedInv
     DEF DownloadEnds, SlicerSucceeds
<1> QED
  BY <1>2, <1>3, <1>4, <1>5, <1>6, <1>7 DEF Run

(***************************************************************************)
(* Cancelling, deleting, submitting: no job moves through Redis.           *)
(***************************************************************************)

LEMMA FinishCancelInv ==
    ASSUME SliceInv, TypeOK', NEW j \in Jobs, FinishCancel(j),
           ~RedisConfigured => cancelling' = {}
    PROVE  SliceInv'
<1>1. TypeOK /\ OnePlace
  BY DEF SliceInv
<1>2. /\ \A k \in Jobs \ {j} : status'[k] = status[k]
      /\ status'[j] = IF status[j] \in Row THEN "cancelled" ELSE status[j]
  BY <1>1, SetStatusEffect DEF FinishCancel, Row
<1>3. aborted' = aborted \/ (run[j] = "post" /\ aborted' = aborted \cup {j})
  BY DEF FinishCancel, ExecutorCancel, execVars
<1>4. /\ OnePlace'
      /\ \A k \in Jobs : InQueue(k)' <=> InQueue(k)
      /\ \A k \in Jobs : Held(k)' <=> Held(k)
  BY <1>1, SamePlaces DEF FinishCancel, bullVars
<1>5. OnlyActiveRuns'
  BY <1>2, <1>4 DEF FinishCancel, bullVars, SliceInv, OnlyActiveRuns
<1>6. NoQueueWithoutRedis'
  BY DEF FinishCancel, bullVars, SliceInv, NoQueueWithoutRedis
<1>7. AbortedMeansCancelled'
  <2>1. run[j] = "post" => status[j] \notin {"none", "completed", "failed"}
    BY DEF SliceInv, OnlyActiveRuns, FinishedMeansIdle
  <2>2. run[j] = "post" => status'[j] \in {"cancelled", "gone"}
    BY <1>1, <1>2, <2>1 DEF TypeOK, Status
  <2> QED
    BY <1>1, <1>2, <1>3, <2>2
       DEF FinishCancel, SliceInv, AbortedMeansCancelled, TypeOK, Row
<1>8. JobHasModel'
  BY <1>2 DEF FinishCancel, SliceInv, JobHasModel, Row
<1>9. PendingFailureLeavesNoDir'
  BY <1>2 DEF FinishCancel, bullVars, SliceInv, PendingFailureLeavesNoDir, Row
<1>10. ExecutorsTracked'
  BY DEF FinishCancel, SliceInv, ExecutorsTracked
<1>11. FinishedMeansIdle'
  BY <1>2 DEF FinishCancel, SliceInv, FinishedMeansIdle, Row
<1>12. FailedLeavesNoDir'
  BY <1>2 DEF FinishCancel, bullVars, SliceInv, FailedLeavesNoDir, Row
<1>13. CompletedHasGcode'
  BY <1>2 DEF FinishCancel, bullVars, SliceInv, CompletedHasGcode, Row
<1> QED
  BY <1>4, <1>5, <1>6, <1>7, <1>8, <1>9, <1>10, <1>11, <1>12, <1>13
     DEF SliceInv

\* A job that has no row yet has no trace anywhere else.
LEMMA SubmitDirectInv ==
    ASSUME SliceInv, TypeOK', NEW j \in Jobs, SubmitDirect(j)
    PROVE  SliceInv'
<1>1. /\ TypeOK /\ OnePlace
      /\ ~Held(j) /\ j \notin adding /\ run[j] = "idle"
  BY DEF SliceInv, SubmitDirect, OnlyActiveRuns
<1>2. /\ run'[j] = "build" /\ \A k \in Jobs \ {j} : run'[k] = run[k]
      /\ status'[j] = "running"
      /\ \A k \in Jobs \ {j} : status'[k] = status[k]
      /\ \A k \in Jobs \ {j} : wd'[k] = wd[k]
      /\ executors' = executors \cup {j}
  BY <1>1 DEF SubmitDirect, StartRun, TypeOK
<1>3. /\ OnePlace'
      /\ \A k \in Jobs : InQueue(k)' <=> InQueue(k)
      /\ \A k \in Jobs : Held(k)' <=> Held(k)
  BY <1>1, SamePlaces DEF SubmitDirect, bullVars
<1>4. OnlyActiveRuns'
  BY <1>1, <1>2, <1>3 DEF SubmitDirect, bullVars, SliceInv, OnlyActiveRuns, Held
<1>5. NoQueueWithoutRedis'
  BY DEF SubmitDirect, bullVars, SliceInv, NoQueueWithoutRedis
<1>6. AbortedMeansCancelled'
  BY <1>1, <1>2
     DEF SubmitDirect, execVars, SliceInv, AbortedMeansCancelled, TypeOK
<1>7. JobHasModel'
  BY <1>2 DEF SubmitDirect, SliceInv, JobHasModel
<1>8. PendingFailureLeavesNoDir'
  BY <1>1, <1>2
     DEF SubmitDirect, bullVars, SliceInv, PendingFailureLeavesNoDir, Held
<1>9. ExecutorsTracked'
  BY <1>1, <1>2 DEF SliceInv, ExecutorsTracked
<1>10. FinishedMeansIdle'
  BY <1>2 DEF SliceInv, FinishedMeansIdle
<1>11. FailedLeavesNoDir'
  BY <1>2 DEF SubmitDirect, bullVars, SliceInv, FailedLeavesNoDir
<1>12. CompletedHasGcode'
  BY <1>2 DEF SubmitDirect, bullVars, SliceInv, CompletedHasGcode
<1> QED
  BY <1>3, <1>4, <1>5, <1>6, <1>7, <1>8, <1>9, <1>10, <1>11, <1>12
     DEF SliceInv

LEMMA SubmitQueuedInv ==
    ASSUME SliceInv, TypeOK', NEW j \in Jobs, SubmitQueued(j)
    PROVE  SliceInv'
<1>1. /\ TypeOK /\ OnePlace
      /\ ~Held(j) /\ j \notin adding /\ run[j] = "idle"
  BY DEF SliceInv, SubmitQueued, OnlyActiveRuns
<1>2. /\ status'[j] = "queued"
      /\ \A k \in Jobs \ {j} : status'[k] = status[k]
      /\ \A k \in Jobs \ {j} : wd'[k] = wd[k]
  BY <1>1 DEF SubmitQueued, TypeOK
<1>3. \A k \in Jobs : (InQueue(k)' <=> InQueue(k)) /\ (Held(k)' <=> Held(k))
  BY DEF SubmitQueued, bullVars, InQueue, Held
<1>4. OnePlace'
  BY <1>1, <1>3, TypeOK' DEF SubmitQueued, bullVars, OnePlace, TypeOK
<1>5. OnlyActiveRuns'
  BY <1>1, <1>2, <1>3 DEF SubmitQueued, bullVars, SliceInv, OnlyActiveRuns, Held
<1>6. NoQueueWithoutRedis'
  BY DEF SubmitQueued, bullVars, SliceInv, NoQueueWithoutRedis
<1>7. AbortedMeansCancelled'
  BY <1>1, <1>2
     DEF SubmitQueued, execVars, SliceInv, AbortedMeansCancelled, TypeOK
<1>8. JobHasModel'
  BY <1>2 DEF SubmitQueued, SliceInv, JobHasModel
<1>9. PendingFailureLeavesNoDir'
  BY <1>1, <1>2
     DEF SubmitQueued, bullVars, SliceInv, PendingFailureLeavesNoDir, Held
<1>10. ExecutorsTracked'
  BY DEF SubmitQueued, SliceInv, ExecutorsTracked
<1>11. FinishedMeansIdle'
  BY <1>2 DEF SubmitQueued, SliceInv, FinishedMeansIdle
<1>12. FailedLeavesNoDir'
  BY <1>2 DEF SubmitQueued, bullVars, SliceInv, FailedLeavesNoDir
<1>13. CompletedHasGcode'
  BY <1>2 DEF SubmitQueued, bullVars, SliceInv, CompletedHasGcode
<1> QED
  BY <1>4, <1>5, <1>6, <1>7, <1>8, <1>9, <1>10, <1>11, <1>12, <1>13
     DEF SliceInv

LEMMA CancelBeginsInv ==
    ASSUME SliceInv, TypeOK', NEW j \in Jobs, CancelBegins(j)
    PROVE  SliceInv'
<1> USE DEF CancelBegins, bullVars, storeVars, execVars, SliceInv
<1>1. /\ OnePlace'
      /\ \A k \in Jobs : InQueue(k)' <=> InQueue(k)
      /\ \A k \in Jobs : Held(k)' <=> Held(k)
  BY SamePlaces
<1>2. OnlyActiveRuns'
  BY <1>1 DEF OnlyActiveRuns
<1>3. NoQueueWithoutRedis'
  BY DEF NoQueueWithoutRedis
<1>4. /\ AbortedMeansCancelled' /\ JobHasModel' /\ PendingFailureLeavesNoDir'
      /\ ExecutorsTracked' /\ FinishedMeansIdle'
  BY DEF AbortedMeansCancelled, JobHasModel, PendingFailureLeavesNoDir,
         ExecutorsTracked, FinishedMeansIdle
<1>5. FailedLeavesNoDir' /\ CompletedHasGcode'
  BY DEF FailedLeavesNoDir, CompletedHasGcode
<1> QED
  BY <1>1, <1>2, <1>3, <1>4, <1>5

LEMMA DeleteJobInv ==
    ASSUME SliceInv, TypeOK', NEW j \in Jobs, DeleteJob(j)
    PROVE  SliceInv'
<1> USE DEF DeleteJob, bullVars, execVars, SliceInv
<1>1. /\ OnePlace'
      /\ \A k \in Jobs : InQueue(k)' <=> InQueue(k)
      /\ \A k \in Jobs : Held(k)' <=> Held(k)
  BY SamePlaces
<1>2. wd'[j] = "absent" /\ \A k \in Jobs \ {j} : wd'[k] = wd[k]
  BY DEF TypeOK
<1>3. OnlyActiveRuns'
  BY <1>1 DEF OnlyActiveRuns
<1>4. /\ NoQueueWithoutRedis' /\ AbortedMeansCancelled' /\ JobHasModel'
      /\ ExecutorsTracked' /\ FinishedMeansIdle'
  BY DEF NoQueueWithoutRedis, AbortedMeansCancelled, JobHasModel,
         ExecutorsTracked, FinishedMeansIdle
<1>5. PendingFailureLeavesNoDir'
  BY <1>2 DEF PendingFailureLeavesNoDir
<1>6. FailedLeavesNoDir'
  BY <1>2 DEF FailedLeavesNoDir
<1>7. CompletedHasGcode'
  BY <1>2 DEF CompletedHasGcode
<1> QED
  BY <1>1, <1>3, <1>4, <1>5, <1>6, <1>7

LEMMA UserInv ==
    ASSUME SliceInv, TypeOK', NEW j \in Jobs, User(j)
    PROVE  SliceInv'
<1>1. CASE CancelDirect(j)
  <2>1. ~RedisConfigured => cancelling' = {}
    BY <1>1 DEF CancelDirect, SliceInv, NoQueueWithoutRedis
  <2> QED
    BY <1>1, <2>1, FinishCancelInv DEF CancelDirect
<1> QED
  BY <1>1, SubmitDirectInv, SubmitQueuedInv, CancelBeginsInv, DeleteJobInv
     DEF User

(***************************************************************************)
(* Jobs that move through Redis.  Three facts about lists without          *)
(* repetition carry the lemmas.                                            *)
(***************************************************************************)

In(x, s) == \E i \in DOMAIN s : s[i] = x

Distinct(s) == \A a, b \in DOMAIN s : s[a] = s[b] => a = b

LEMMA AppendPlaces ==
    ASSUME NEW S, NEW s \in Seq(S), NEW x \in S, Distinct(s), ~In(x, s)
    PROVE  /\ Distinct(Append(s, x))
           /\ \A y : In(y, Append(s, x)) <=> In(y, s) \/ y = x
<1>1. /\ DOMAIN Append(s, x) = 1..Len(s) + 1
      /\ Len(s) \in Nat /\ DOMAIN s = 1..Len(s)
      /\ \A i \in 1..Len(s) : Append(s, x)[i] = s[i]
      /\ Append(s, x)[Len(s) + 1] = x
  OBVIOUS
<1>2. Distinct(Append(s, x))
  BY <1>1 DEF Distinct, In
<1>3. ASSUME NEW y
      PROVE  In(y, Append(s, x)) <=> In(y, s) \/ y = x
  BY <1>1 DEF In
<1> QED
  BY <1>2, <1>3

LEMMA TailPlaces ==
    ASSUME NEW S, NEW s \in Seq(S), s # <<>>, Distinct(s)
    PROVE  /\ Head(s) \in S
           /\ In(Head(s), s)
           /\ Distinct(Tail(s))
           /\ \A y : In(y, Tail(s)) <=> In(y, s) /\ y # Head(s)
<1>1. /\ Len(s) \in Nat \ {0} /\ DOMAIN s = 1..Len(s)
      /\ Head(s) = s[1] /\ s[1] \in S
      /\ DOMAIN Tail(s) = 1..Len(s) - 1
      /\ \A i \in 1..Len(s) - 1 : Tail(s)[i] = s[i + 1]
  OBVIOUS
<1>2. In(Head(s), s)
  BY <1>1 DEF In
<1>3. Distinct(Tail(s))
  BY <1>1 DEF Distinct
<1>4. ASSUME NEW y, In(y, Tail(s))
      PROVE  In(y, s) /\ y # Head(s)
  BY <1>1, <1>4 DEF In, Distinct
<1>5. ASSUME NEW y, In(y, s), y # Head(s)
      PROVE  In(y, Tail(s))
  <2>1. PICK i \in 1..Len(s) : s[i] = y
    BY <1>1, <1>5 DEF In
  <2>2. i - 1 \in 1..Len(s) - 1 /\ i = (i - 1) + 1
    BY <1>1, <1>5, <2>1
  <2> QED
    BY <1>1, <2>1, <2>2 DEF In
<1> QED
  BY <1>1, <1>2, <1>3, <1>4, <1>5

LEMMA PrependPlaces ==
    ASSUME NEW S, NEW s \in Seq(S), NEW x \in S, Distinct(s), ~In(x, s)
    PROVE  /\ Distinct(<<x>> \o s)
           /\ \A y : In(y, <<x>> \o s) <=> In(y, s) \/ y = x
<1> DEFINE t == <<x>> \o s
<1>1. /\ Len(s) \in Nat /\ DOMAIN s = 1..Len(s)
      /\ DOMAIN t = 1..Len(s) + 1
      /\ t[1] = x
      /\ \A i \in 2..Len(s) + 1 : t[i] = s[i - 1]
  OBVIOUS
<1>2. \A i \in 1..Len(s) : t[i + 1] = s[i]
  BY <1>1
<1> HIDE DEF t
<1>3. Distinct(t)
  <2> SUFFICES ASSUME NEW a \in 1..Len(s) + 1, NEW b \in 1..Len(s) + 1,
                      t[a] = t[b]
               PROVE  a = b
    BY <1>1 DEF Distinct
  <2>1. a # 1 => a - 1 \in 1..Len(s) /\ t[a] = s[a - 1]
    BY <1>1
  <2>2. b # 1 => b - 1 \in 1..Len(s) /\ t[b] = s[b - 1]
    BY <1>1
  <2>3. (a = 1 /\ b # 1) \/ (a # 1 /\ b = 1) => FALSE
    BY <1>1, <2>1, <2>2 DEF In
  <2>4. a # 1 /\ b # 1 => a - 1 = b - 1
    BY <1>1, <2>1, <2>2 DEF Distinct
  <2> QED
    BY <1>1, <2>3, <2>4
<1>4. ASSUME NEW y
      PROVE  In(y, t) <=> In(y, s) \/ y = x
  <2>1. ASSUME In(y, t)
        PROVE  In(y, s) \/ y = x
    <3>1. PICK i \in 1..Len(s) + 1 : t[i] = y
      BY <1>1, <2>1 DEF In
    <3>2. i # 1 => i - 1 \in 1..Len(s) /\ s[i - 1] = y
      BY <1>1, <3>1
    <3> QED
      BY <1>1, <3>1, <3>2 DEF In
  <2>2. ASSUME In(y, s) \/ y = x
        PROVE  In(y, t)
    <3>1. 1 \in DOMAIN t /\ \A i \in DOMAIN s : i + 1 \in DOMAIN t
      BY <1>1
    <3> QED
      BY <1>1, <1>2, <2>2, <3>1 DEF In
  <2> QED
    BY <2>1, <2>2
<1> QED
  BY <1>3, <1>4 DEF t

\* The part of the invariant that speaks of waiting, in these terms.
LEMMA WaitingDistinct ==
    /\ OnePlace => Distinct(waiting)
    /\ \A j : InQueue(j) <=> In(j, waiting)
BY DEF OnePlace, Distinct, InQueue, In

LEMMA PlacesFromIn ==
    ASSUME Distinct(waiting),
           \A j \in Jobs : In(j, waiting) => j \notin stalled /\ j # active,
           active \notin stalled,
           \A j \in adding : ~Held(j)
    PROVE  OnePlace
BY DEF OnePlace, Distinct, InQueue, In

LEMMA AddReachesRedisInv ==
    ASSUME SliceInv, TypeOK', NEW j \in Jobs, AddReachesRedis(j)
    PROVE  SliceInv'
<1>1. /\ TypeOK /\ waiting \in Seq(Jobs) /\ Distinct(waiting)
      /\ ~Held(j) /\ run[j] = "idle" /\ j \in adding /\ status[j] # "none"
      /\ ~In(j, waiting) /\ j # active /\ j \notin stalled
  BY WaitingDistinct
     DEF SliceInv, OnePlace, OnlyActiveRuns, AddReachesRedis, TypeOK,
         BullTypeOK, Held
<1>2. /\ Distinct(waiting')
      /\ \A k : In(k, waiting') <=> In(k, waiting) \/ k = j
  BY <1>1, AppendPlaces DEF AddReachesRedis, BullAdd
<1>3. \A k \in Jobs : /\ InQueue(k)' <=> InQueue(k) \/ k = j
                      /\ Held(k)' <=> Held(k) \/ k = j
  BY <1>2, WaitingDistinct
     DEF AddReachesRedis, BullAdd, InQueue, In, Held
<1>4. OnePlace'
  <2>1. \A k \in Jobs : In(k, waiting') => k \notin stalled' /\ k # active'
    BY <1>1, <1>2, WaitingDistinct
       DEF AddReachesRedis, BullAdd, SliceInv, OnePlace
  <2>2. \A k \in adding' : ~Held(k)'
    BY <1>1, <1>3 DEF AddReachesRedis, SliceInv, OnePlace, TypeOK
  <2> QED
    BY <1>2, <2>1, <2>2
       DEF AddReachesRedis, BullAdd, SliceInv, OnePlace, Distinct, InQueue, In
<1>5. OnlyActiveRuns'
  BY <1>1, <1>3
     DEF AddReachesRedis, BullAdd, storeVars, SliceInv, OnlyActiveRuns
<1>6. NoQueueWithoutRedis'
  BY <1>1 DEF AddReachesRedis, SliceInv, NoQueueWithoutRedis
<1> USE DEF AddReachesRedis, BullAdd, storeVars, execVars, SliceInv
<1>7. /\ AbortedMeansCancelled' /\ JobHasModel' /\ PendingFailureLeavesNoDir'
      /\ ExecutorsTracked' /\ FinishedMeansIdle'
  BY DEF AbortedMeansCancelled, JobHasModel, PendingFailureLeavesNoDir,
         ExecutorsTracked, FinishedMeansIdle
<1>8. FailedLeavesNoDir' /\ CompletedHasGcode'
  BY DEF FailedLeavesNoDir, CompletedHasGcode
<1> QED
  BY <1>4, <1>5, <1>6, <1>7, <1>8

\* Handing out the head of the list, with whatever result.
LEMMA FetchPlaces ==
    ASSUME SliceInv, NEW j \in Jobs, NEW r, BullFetch(j, r),
           UNCHANGED adding
    PROVE  /\ OnePlace'
           /\ InQueue(j) /\ run[j] = "idle" /\ status[j] # "none"
           /\ j \notin stalled /\ j \notin adding /\ active = NoJob
           /\ active' = j /\ outcome' = r /\ UNCHANGED <<stalled, stalls>>
           /\ \A k \in Jobs : /\ InQueue(k)' <=> InQueue(k) /\ k # j
                              /\ Held(k)' <=> Held(k)
<1>1. /\ TypeOK /\ waiting \in Seq(Jobs) /\ waiting # <<>>
      /\ Distinct(waiting) /\ j = Head(waiting) /\ waiting' = Tail(waiting)
      /\ active = NoJob /\ active' = j /\ NoJob \notin Jobs
      /\ outcome' = r /\ UNCHANGED <<stalled, stalls>>
  BY WaitingDistinct, BullAssumption
     DEF SliceInv, OnePlace, TypeOK, BullTypeOK, BullFetch
<1>2. /\ In(j, waiting)
      /\ Distinct(waiting')
      /\ \A k : In(k, waiting') <=> In(k, waiting) /\ k # j
  BY <1>1, TailPlaces
<1>3. InQueue(j) /\ j \notin stalled /\ j \notin adding
  BY <1>2, WaitingDistinct DEF SliceInv, OnePlace, Held
<1>4. run[j] = "idle" /\ status[j] # "none"
  BY <1>3 DEF SliceInv, OnlyActiveRuns, Held
<1>5. \A k \in Jobs : InQueue(k)' <=> InQueue(k) /\ k # j
  BY <1>2, WaitingDistinct DEF InQueue, In
<1>6. \A k \in Jobs : Held(k)' <=> Held(k)
  BY <1>1, <1>3, <1>5 DEF Held
<1>7. OnePlace'
  <2>1. \A k \in Jobs : InQueue(k)' => k \notin stalled' /\ k # active'
    BY <1>1, <1>5 DEF SliceInv, OnePlace
  <2>2. \A k \in adding' : ~Held(k)'
    BY <1>1, <1>6 DEF SliceInv, OnePlace, TypeOK
  <2> QED
    BY <1>1, <1>2, <1>3, <2>1, <2>2 DEF OnePlace, Distinct
<1> QED
  BY <1>1, <1>3, <1>4, <1>5, <1>6, <1>7

LEMMA WorkerStartsInv ==
    ASSUME SliceInv, TypeOK', NEW j \in Jobs, WorkerStarts(j)
    PROVE  SliceInv'
<1>1. TypeOK /\ NoJob \notin Jobs
  BY BullAssumption DEF SliceInv
<1>2. /\ OnePlace'
      /\ run[j] = "idle" /\ status[j] # "none"
      /\ j \notin stalled /\ j \notin adding /\ active = NoJob
      /\ active' = j /\ outcome' = "none" /\ UNCHANGED <<stalled, stalls>>
      /\ \A k \in Jobs : /\ InQueue(k)' <=> InQueue(k) /\ k # j
                         /\ Held(k)' <=> Held(k)
  BY FetchPlaces DEF WorkerStarts
<1>3. /\ \A k \in Jobs \ {j} : status'[k] = status[k]
      /\ status'[j] = IF status[j] \in Row THEN "running" ELSE status[j]
  BY <1>1, SetStatusEffect DEF WorkerStarts, Row
<1>4. /\ run'[j] = "build" /\ \A k \in Jobs \ {j} : run'[k] = run[k]
      /\ executors' = executors \cup {j}
      /\ status'[j] \notin {"completed", "failed", "none"}
  BY <1>1, <1>2, <1>3 DEF WorkerStarts, StartRun, TypeOK, Row
<1>5. OnlyActiveRuns'
  BY <1>1, <1>2, <1>3, <1>4 DEF WorkerStarts, SliceInv, OnlyActiveRuns
<1>6. NoQueueWithoutRedis'
  BY DEF WorkerStarts, SliceInv, NoQueueWithoutRedis
<1>7. AbortedMeansCancelled'
  BY <1>1, <1>2, <1>3, <1>4
     DEF WorkerStarts, execVars, SliceInv, AbortedMeansCancelled, TypeOK
<1>8. JobHasModel'
  BY <1>3 DEF WorkerStarts, SliceInv, JobHasModel
<1>9. PendingFailureLeavesNoDir'
  BY <1>2 DEF PendingFailureLeavesNoDir
<1>10. ExecutorsTracked'
  BY <1>1, <1>4 DEF SliceInv, ExecutorsTracked
<1>11. FinishedMeansIdle'
  BY <1>3, <1>4 DEF SliceInv, FinishedMeansIdle
<1>12. FailedLeavesNoDir'
  BY <1>2, <1>3, <1>4 DEF WorkerStarts, SliceInv, FailedLeavesNoDir
<1>13. CompletedHasGcode'
  BY <1>1, <1>2, <1>3, <1>4 DEF WorkerStarts, SliceInv, CompletedHasGcode
<1> QED
  BY <1>2, <1>5, <1>6, <1>7, <1>8, <1>9, <1>10, <1>11, <1>12, <1>13
     DEF SliceInv

LEMMA WorkerFindsNoModelInv ==
    ASSUME SliceInv, TypeOK', NEW j \in Jobs, WorkerFindsNoModel(j)
    PROVE  SliceInv'
<1> USE DEF WorkerFindsNoModel, sliceVars, storeVars, execVars
<1>1. /\ OnePlace'
      /\ run[j] = "idle" /\ status[j] # "none" /\ status[j] \notin Row
      /\ j \notin stalled /\ j \notin adding /\ active = NoJob
      /\ active' = j /\ outcome' = "error" /\ UNCHANGED <<stalled, stalls>>
      /\ \A k \in Jobs : /\ InQueue(k)' <=> InQueue(k) /\ k # j
                         /\ Held(k)' <=> Held(k)
  BY FetchPlaces DEF SliceInv, JobHasModel
<1>2. NoJob \notin Jobs
  BY BullAssumption
<1>3. OnlyActiveRuns'
  BY <1>1 DEF SliceInv, OnlyActiveRuns
<1>4. NoQueueWithoutRedis'
  BY DEF SliceInv, NoQueueWithoutRedis
<1>5. PendingFailureLeavesNoDir'
  BY <1>1 DEF SliceInv, PendingFailureLeavesNoDir
<1>6. /\ AbortedMeansCancelled' /\ JobHasModel'
      /\ ExecutorsTracked' /\ FinishedMeansIdle'
  BY DEF SliceInv, AbortedMeansCancelled, JobHasModel, ExecutorsTracked,
         FinishedMeansIdle
<1>7. FailedLeavesNoDir'
  BY <1>1 DEF SliceInv, FailedLeavesNoDir
<1>8. CompletedHasGcode'
  BY <1>1, <1>2 DEF SliceInv, CompletedHasGcode
<1> QED
  BY <1>1, <1>3, <1>4, <1>5, <1>6, <1>7, <1>8 DEF SliceInv

\* The failed event: the row follows, and its directory went before it.
LEMMA OnFailedInv ==
    ASSUME SliceInv, TypeOK', NEW j \in Jobs, OnFailed(j)
    PROVE  SliceInv'
<1>1. /\ TypeOK /\ NoJob \notin Jobs
      /\ active = j /\ outcome = "moved" /\ active' = NoJob
      /\ outcome' = "none" /\ UNCHANGED <<waiting, stalled, stalls>>
      /\ run[j] = "idle" /\ status[j] # "none" /\ j \notin adding
  BY BullAssumption
     DEF SliceInv, OnePlace, OnlyActiveRuns, OnFailed, BullEmitFailed, Held
<1>2. /\ \A k \in Jobs \ {j} : status'[k] = status[k]
      /\ status'[j] = IF status[j] \in Row THEN "failed" ELSE status[j]
  BY <1>1, SetStatusEffect DEF OnFailed, Row
<1>3. \A k \in Jobs : /\ InQueue(k)' <=> InQueue(k)
                      /\ Held(k)' => Held(k)
  BY <1>1 DEF InQueue, Held
<1>4. NoJob \notin stalled
  BY <1>1 DEF TypeOK, BullTypeOK
<1>5. OnePlace'
  BY <1>1, <1>3, <1>4 DEF OnFailed, SliceInv, OnePlace, TypeOK
<1>6. OnlyActiveRuns'
  BY <1>1, <1>2, <1>3 DEF OnFailed, SliceInv, OnlyActiveRuns
<1>7. NoQueueWithoutRedis'
  BY <1>1 DEF OnFailed, SliceInv, NoQueueWithoutRedis
<1>8. AbortedMeansCancelled'
  BY <1>1, <1>2 DEF OnFailed, execVars, SliceInv, AbortedMeansCancelled, TypeOK
<1>9. JobHasModel'
  BY <1>2 DEF OnFailed, SliceInv, JobHasModel
<1>10. PendingFailureLeavesNoDir'
  BY <1>1 DEF PendingFailureLeavesNoDir
<1>11. ExecutorsTracked'
  BY DEF OnFailed, SliceInv, ExecutorsTracked
<1>12. FinishedMeansIdle'
  BY <1>1, <1>2 DEF OnFailed, SliceInv, FinishedMeansIdle
<1>13. FailedLeavesNoDir'
  BY <1>1, <1>2
     DEF OnFailed, SliceInv, FailedLeavesNoDir, PendingFailureLeavesNoDir
<1>14. CompletedHasGcode'
  BY <1>1, <1>2 DEF OnFailed, SliceInv, CompletedHasGcode, Row
<1> QED
  BY <1>5, <1>6, <1>7, <1>8, <1>9, <1>10, <1>11, <1>12, <1>13, <1>14
     DEF SliceInv

LEMMA StalledJobRequeuedInv ==
    ASSUME SliceInv, TypeOK', NEW j \in Jobs, StalledJobRequeued(j)
    PROVE  SliceInv'
<1> USE DEF StalledJobRequeued, BullRequeue, sliceVars, storeVars, execVars
<1>1. /\ TypeOK /\ waiting \in Seq(Jobs) /\ Distinct(waiting)
      /\ ~In(j, waiting) /\ j # active /\ j \in stalled
      /\ run[j] = "idle" /\ status[j] # "none" /\ j \notin adding
  BY WaitingDistinct
     DEF SliceInv, OnePlace, OnlyActiveRuns, TypeOK, BullTypeOK, Held
<1>2. /\ Distinct(waiting')
      /\ \A k : In(k, waiting') <=> In(k, waiting) \/ k = j
  BY <1>1, PrependPlaces
<1>3. \A k \in Jobs : /\ InQueue(k)' <=> InQueue(k) \/ k = j
                      /\ Held(k)' <=> Held(k)
  BY <1>1, <1>2, WaitingDistinct DEF InQueue, In, Held
<1>4. OnePlace'
  <2>1. \A k \in Jobs : InQueue(k)' => k \notin stalled' /\ k # active'
    BY <1>1, <1>3 DEF SliceInv, OnePlace
  <2>2. \A k \in adding' : ~Held(k)'
    BY <1>1, <1>3 DEF SliceInv, OnePlace, TypeOK
  <2> QED
    BY <1>1, <1>2, <2>1, <2>2 DEF SliceInv, OnePlace, Distinct
<1>5. OnlyActiveRuns'
  BY <1>1, <1>3 DEF SliceInv, OnlyActiveRuns
<1>6. NoQueueWithoutRedis'
  BY <1>1 DEF SliceInv, NoQueueWithoutRedis
<1>7. /\ AbortedMeansCancelled' /\ JobHasModel' /\ PendingFailureLeavesNoDir'
      /\ ExecutorsTracked' /\ FinishedMeansIdle'
  BY DEF SliceInv, AbortedMeansCancelled, JobHasModel,
         PendingFailureLeavesNoDir, ExecutorsTracked, FinishedMeansIdle
<1>8. FailedLeavesNoDir'
  <2>1. \A k \in Jobs : stalls[k] = MaxStalls => stalls'[k] = stalls[k]
    BY <1>1, BullAssumption DEF TypeOK, BullTypeOK
  <2> QED
    BY <2>1 DEF SliceInv, FailedLeavesNoDir
<1>9. CompletedHasGcode'
  BY DEF SliceInv, CompletedHasGcode
<1> QED
  BY <1>4, <1>5, <1>6, <1>7, <1>8, <1>9 DEF SliceInv

LEMMA StalledJobFailsInv ==
    ASSUME SliceInv, TypeOK', NEW j \in Jobs, StalledJobFails(j)
    PROVE  SliceInv'
<1> USE DEF StalledJobFails, BullGiveUp, execVars
<1>1. /\ TypeOK /\ j \in stalled /\ stalled' = stalled \ {j}
      /\ stalls[j] = MaxStalls
      /\ UNCHANGED <<waiting, active, outcome, stalls>>
      /\ run[j] = "idle" /\ status[j] # "none" /\ j \notin adding
      /\ j # active
  BY DEF SliceInv, OnePlace, OnlyActiveRuns, Held
<1>2. /\ \A k \in Jobs \ {j} : status'[k] = status[k]
      /\ status'[j] = IF status[j] \in Row THEN "failed" ELSE status[j]
  BY <1>1, SetStatusEffect DEF Row
<1>3. \A k \in Jobs : /\ InQueue(k)' <=> InQueue(k)
                      /\ Held(k)' => Held(k)
  BY <1>1 DEF InQueue, Held
<1>4. OnePlace'
  BY <1>1, <1>3 DEF SliceInv, OnePlace, TypeOK
<1>5. OnlyActiveRuns'
  BY <1>1, <1>2, <1>3 DEF SliceInv, OnlyActiveRuns
<1>6. NoQueueWithoutRedis'
  BY <1>1 DEF SliceInv, NoQueueWithoutRedis
<1>7. AbortedMeansCancelled'
  BY <1>1, <1>2 DEF SliceInv, AbortedMeansCancelled, TypeOK
<1>8. JobHasModel'
  BY <1>2 DEF SliceInv, JobHasModel
<1>9. PendingFailureLeavesNoDir'
  BY <1>1, <1>2 DEF SliceInv, PendingFailureLeavesNoDir
<1>10. ExecutorsTracked'
  BY DEF SliceInv, ExecutorsTracked
<1>11. FinishedMeansIdle'
  BY <1>1, <1>2 DEF SliceInv, FinishedMeansIdle
<1>12. FailedLeavesNoDir'
  BY <1>1, <1>2 DEF SliceInv, FailedLeavesNoDir
<1>13. CompletedHasGcode'
  BY <1>1, <1>2 DEF SliceInv, CompletedHasGcode, Row
<1> QED
  BY <1>4, <1>5, <1>6, <1>7, <1>8, <1>9, <1>10, <1>11, <1>12, <1>13
     DEF SliceInv

LEMMA WorkerInv ==
    ASSUME SliceInv, TypeOK', NEW j \in Jobs, Worker(j)
    PROVE  SliceInv'
BY WorkerStartsInv, WorkerFindsNoModelInv, OnFailedInv,
   StalledJobRequeuedInv, StalledJobFailsInv
   DEF Worker

\* The worker's two reports change only its own view of the job.
LEMMA WorkerReportsInv ==
    ASSUME SliceInv, TypeOK', WorkerCompleted \/ WorkerMovesToFailed
    PROVE  SliceInv'
<1> USE DEF SliceInv, sliceVars, storeVars, execVars
<1>1. /\ TypeOK /\ NoJob \notin Jobs /\ NoJob \notin stalled
      /\ UNCHANGED <<waiting, stalled, stalls>>
      /\ \/ /\ active \in Jobs /\ outcome = "ok"
            /\ active' = NoJob /\ outcome' = "none"
         \/ /\ active \in Jobs /\ outcome = "error"
            /\ active' = active /\ outcome' = "moved"
      /\ UNCHANGED sliceVars
  BY BullAssumption
     DEF WorkerCompleted, BullCompleted, WorkerMovesToFailed,
         BullMoveToFailed, TypeOK, BullTypeOK
<1>2. \A k \in Jobs : /\ InQueue(k)' <=> InQueue(k)
                      /\ Held(k)' => Held(k)
  BY <1>1 DEF InQueue, Held
<1>3. OnePlace'
  BY <1>1, <1>2 DEF OnePlace, TypeOK
<1>4. OnlyActiveRuns'
  BY <1>1, <1>2 DEF OnlyActiveRuns
<1>5. NoQueueWithoutRedis'
  BY <1>1 DEF NoQueueWithoutRedis
<1>6. AbortedMeansCancelled' /\ JobHasModel'
  BY <1>1 DEF AbortedMeansCancelled, JobHasModel
<1>7. ExecutorsTracked' /\ FinishedMeansIdle' /\ FailedLeavesNoDir'
  BY <1>1 DEF ExecutorsTracked, FinishedMeansIdle, FailedLeavesNoDir
<1>8. PendingFailureLeavesNoDir'
  BY <1>1 DEF PendingFailureLeavesNoDir
<1>9. CompletedHasGcode'
  BY <1>1 DEF CompletedHasGcode
<1> QED
  BY <1>3, <1>4, <1>5, <1>6, <1>7, <1>8, <1>9

(***************************************************************************)
(* Timer, model, queue connection, restart.                                *)
(***************************************************************************)

\* Steps outside everything the invariant speaks of.
LEMMA UntouchedInv ==
    ASSUME SliceInv, TypeOK', UNCHANGED bullVars, UNCHANGED storeVars,
           UNCHANGED <<run, executors, aborted, adding, cancelling, crashes>>,
           ~RedisConfigured => ~queueUp'
    PROVE  SliceInv'
<1> USE DEF SliceInv, bullVars, storeVars
<1>1. /\ OnePlace'
      /\ \A k \in Jobs : InQueue(k)' <=> InQueue(k)
      /\ \A k \in Jobs : Held(k)' <=> Held(k)
  BY SamePlaces
<1>2. OnlyActiveRuns'
  BY <1>1 DEF OnlyActiveRuns
<1>3. NoQueueWithoutRedis'
  BY DEF NoQueueWithoutRedis
<1>4. /\ AbortedMeansCancelled' /\ JobHasModel' /\ PendingFailureLeavesNoDir'
      /\ ExecutorsTracked' /\ FinishedMeansIdle'
  BY DEF AbortedMeansCancelled, JobHasModel, PendingFailureLeavesNoDir,
         ExecutorsTracked, FinishedMeansIdle
<1>5. FailedLeavesNoDir' /\ CompletedHasGcode'
  BY DEF FailedLeavesNoDir, CompletedHasGcode
<1> QED
  BY <1>1, <1>2, <1>3, <1>4, <1>5

\* The cascade: a row goes with its model, and takes its promises along.
LEMMA DeleteModelInv ==
    ASSUME SliceInv, TypeOK', NEW m \in Models, DeleteModel(m)
    PROVE  SliceInv'
<1> USE DEF SliceInv, bullVars, execVars
<1>1. /\ OnePlace'
      /\ \A k \in Jobs : InQueue(k)' <=> InQueue(k)
      /\ \A k \in Jobs : Held(k)' <=> Held(k)
  BY SamePlaces DEF DeleteModel
<1>2. /\ \A k \in Jobs : status'[k] = IF ModelOf[k] = m /\ status[k] \in Row
                                      THEN "gone" ELSE status[k]
      /\ models' = models \ {m}
      /\ UNCHANGED <<bullVars, wd, deleted, queueUp, run, executors, execVars,
                     adding, cancelling, crashes>>
  BY DEF DeleteModel
<1>3. OnlyActiveRuns'
  BY <1>1, <1>2 DEF OnlyActiveRuns
<1>4. NoQueueWithoutRedis'
  BY <1>2 DEF NoQueueWithoutRedis
<1>5. AbortedMeansCancelled'
  BY <1>2 DEF AbortedMeansCancelled, TypeOK
<1>6. JobHasModel'
  BY <1>2 DEF JobHasModel, Row
<1>7. PendingFailureLeavesNoDir'
  BY <1>2 DEF PendingFailureLeavesNoDir, Row
<1>8. ExecutorsTracked' /\ FinishedMeansIdle'
  BY <1>2 DEF ExecutorsTracked, FinishedMeansIdle
<1>9. FailedLeavesNoDir' /\ CompletedHasGcode'
  BY <1>2 DEF FailedLeavesNoDir, CompletedHasGcode
<1> QED
  BY <1>1, <1>3, <1>4, <1>5, <1>6, <1>7, <1>8, <1>9

\* A restart stops every slice where it is; what it loses is the report of a
\* failure, which CompletedHasGcode allows for.
LEMMA RestartInv ==
    ASSUME SliceInv, TypeOK', Restart
    PROVE  SliceInv'
<1> USE DEF SliceInv, storeVars
<1>1. /\ TypeOK /\ NoJob \notin Jobs /\ NoJob \notin stalled'
      /\ crashes' > 0
  BY BullAssumption, SliceAssumption
     DEF TypeOK, BullTypeOK, Restart, BullCrash
<1>2. /\ active' = NoJob /\ outcome' = "none" /\ UNCHANGED <<waiting, stalls>>
      /\ stalled' = stalled \/ stalled' = stalled \cup {active}
      /\ adding' = {} /\ cancelling' = {} /\ aborted' = {} /\ executors' = {}
      /\ \A k \in Jobs : run'[k] = "idle"
      /\ ~queueUp'
      /\ UNCHANGED <<models, status, wd, deleted>>
  BY DEF Restart, BullCrash
<1>3. \A k \in Jobs : /\ InQueue(k)' <=> InQueue(k)
                      /\ Held(k)' => Held(k)
  BY <1>1, <1>2 DEF InQueue, Held
<1>4. OnePlace'
  BY <1>1, <1>2, <1>3 DEF OnePlace, TypeOK, BullTypeOK
<1>5. OnlyActiveRuns'
  BY <1>1, <1>2, <1>3 DEF OnlyActiveRuns
<1>6. NoQueueWithoutRedis'
  BY <1>2 DEF NoQueueWithoutRedis, Restart, BullCrash
<1>7. AbortedMeansCancelled' /\ JobHasModel'
  BY <1>2 DEF AbortedMeansCancelled, JobHasModel
<1>8. PendingFailureLeavesNoDir'
  BY <1>2 DEF PendingFailureLeavesNoDir
<1>9. ExecutorsTracked' /\ FinishedMeansIdle' /\ FailedLeavesNoDir'
  BY <1>2 DEF ExecutorsTracked, FinishedMeansIdle, FailedLeavesNoDir
<1>10. CompletedHasGcode'
  BY <1>1, <1>2 DEF CompletedHasGcode, NoQueueWithoutRedis
<1> QED
  BY <1>4, <1>5, <1>6, <1>7, <1>8, <1>9, <1>10

LEMMA NextInv == SliceInv /\ [Next]_vars => SliceInv'
<1> SUFFICES ASSUME SliceInv, [Next]_vars
             PROVE  SliceInv'
  OBVIOUS
<1>1. TypeOK'
  BY NextType DEF SliceInv
<1>2. ASSUME NEW j \in Jobs, Run(j) \/ Worker(j) \/ User(j)
                             \/ AddReachesRedis(j)
      PROVE  SliceInv'
  BY <1>1, <1>2, RunInv, WorkerInv, UserInv, AddReachesRedisInv
<1>3. ASSUME NEW j \in Jobs, CancelEnds(j)
      PROVE  SliceInv'
  <2>1. RedisConfigured
    BY <1>3 DEF CancelEnds, SliceInv, NoQueueWithoutRedis
  <2> QED
    BY <1>1, <1>3, <2>1, FinishCancelInv DEF CancelEnds
<1>4. ASSUME NEW j \in Jobs, KillTimerFires(j)
      PROVE  SliceInv'
  BY <1>1, <1>4, UntouchedInv
     DEF KillTimerFires, SliceInv, NoQueueWithoutRedis
<1>5. ASSUME NEW m \in Models, DeleteModel(m)
      PROVE  SliceInv'
  BY <1>1, <1>5, DeleteModelInv
<1>6. CASE QueueConnects
  BY <1>1, <1>6, UntouchedInv DEF QueueConnects, execVars
<1>7. CASE WorkerCompleted \/ WorkerMovesToFailed
  BY <1>1, <1>7, WorkerReportsInv
<1>8. CASE Restart
  BY <1>1, <1>8, RestartInv
<1>9. CASE UNCHANGED vars
  BY <1>1, <1>9, UntouchedInv
     DEF vars, sliceVars, execVars, SliceInv, NoQueueWithoutRedis
<1> QED
  BY <1>2, <1>3, <1>4, <1>5, <1>6, <1>7, <1>8, <1>9 DEF Next

\* At the start there are no jobs.
LEMMA InitInv ==
    ASSUME Init
    PROVE  SliceInv
<1>1. TypeOK
  BY InitType
<1>2. \A k \in Jobs : ~InQueue(k) /\ ~Held(k)
  BY BullAssumption DEF Init, BullInit, InQueue, Held
<1>3. OnePlace
  BY <1>2 DEF Init, BullInit, OnePlace
<1>4. OnlyActiveRuns
  BY <1>2, BullAssumption DEF Init, BullInit, OnlyActiveRuns
<1>5. NoQueueWithoutRedis /\ AbortedMeansCancelled /\ ExecutorsTracked
  BY DEF Init, BullInit, NoQueueWithoutRedis, AbortedMeansCancelled,
         ExecutorsTracked
<1>6. /\ JobHasModel /\ PendingFailureLeavesNoDir /\ FinishedMeansIdle
      /\ FailedLeavesNoDir /\ CompletedHasGcode
  BY DEF Init, BullInit, Row, JobHasModel, PendingFailureLeavesNoDir,
         FinishedMeansIdle, FailedLeavesNoDir, CompletedHasGcode
<1> QED
  BY <1>1, <1>3, <1>4, <1>5, <1>6 DEF SliceInv

\* In no state does a slice job contradict itself: its row, its directory,
\* its executor and its place in Redis fit together as SliceInv says.
THEOREM SliceInvariant == Spec => []SliceInv
BY InitInv, NextInv, PTL DEF Spec

\* runningExecutors holds exactly the slices in flight: the cancel route can
\* reach every slice, and none is forgotten there.
THEOREM ExecutorsTrackedAlways == Spec => []ExecutorsTracked
<1>1. SliceInv => ExecutorsTracked
  BY DEF SliceInv
<1> QED
  BY <1>1, SliceInvariant, PTL

\* Nothing works in the directory of a job reported completed or failed.
THEOREM FinishedMeansIdleAlways == Spec => []FinishedMeansIdle
<1>1. SliceInv => FinishedMeansIdle
  BY DEF SliceInv
<1> QED
  BY <1>1, SliceInvariant, PTL

\* A failed slice does not leave its work directory behind.
THEOREM FailedLeavesNoDirAlways == Spec => []FailedLeavesNoDir
<1>1. SliceInv => FailedLeavesNoDir
  BY DEF SliceInv
<1> QED
  BY <1>1, SliceInvariant, PTL

\* A completed slice has its gcode, with the exceptions the property names.
THEOREM CompletedHasGcodeAlways == Spec => []CompletedHasGcode
<1>1. SliceInv => CompletedHasGcode
  BY DEF SliceInv
<1> QED
  BY <1>1, SliceInvariant, PTL

----------------------------------------------------------------------------
(***************************************************************************)
(* What a step of SliceJobs can do to the rows of the jobs, and what       *)
(* follows: a cancel that reaches the fetch is final, and a server without *)
(* Redis implements JobLifecycle.  A cleanup of JobStorage, which takes    *)
(* rows and models at once, keeps what SliceJobs keeps.                    *)
(***************************************************************************)

\* The row of j alone changes, from one of "from" to "to", if it is there.
RowMoves(j, from, to) ==
    /\ \A k \in Jobs \ {j} : status'[k] = status[k]
    /\ \/ status'[j] = status[j]
       \/ status[j] \in from /\ status'[j] = to

\* Rows leave together with their model.
RowsLeave ==
    \A j \in Jobs :
        status'[j] = status[j] \/ (status[j] \in Row /\ status'[j] = "gone")

\* The verdict of a slice: its row was not final before, and a slice whose
\* fetch was aborted gives no verdict outside the worker's hands.
LEMMA RunMovesRow ==
    ASSUME SliceInv, NEW j \in Jobs, Run(j)
    PROVE  /\ \/ RowMoves(j, {"queued", "running", "cancelled"}, "completed")
              \/ RowMoves(j, {"queued", "running", "cancelled"}, "failed")
           /\ j \in aborted /\ active # j => status'[j] = status[j]
<1>1. TypeOK /\ (j \in aborted => run[j] = "post")
  BY DEF SliceInv, AbortedMeansCancelled
<1>2. run[j] # "idle" => status[j] \in {"queued", "running", "cancelled"}
                         \/ status[j] \notin Row
  BY DEF SliceInv, FinishedMeansIdle, Row
<1>3. ASSUME UNCHANGED status
      PROVE  RowMoves(j, {"queued", "running", "cancelled"}, "failed")
  BY <1>3 DEF RowMoves
<1>4. ASSUME NEW s \in Row, SetStatus(j, s), run[j] # "idle"
      PROVE  RowMoves(j, {"queued", "running", "cancelled"}, s)
  BY <1>1, <1>2, <1>4, SetStatusEffect DEF RowMoves
<1>5. CASE BuildEnds(j) \/ ReadEnds(j) \/ SidecarAccepts(j)
           \/ SidecarRefuses(j)
  BY <1>3, <1>5
     DEF BuildEnds, ReadEnds, SidecarAccepts, SidecarRefuses, Advance
<1>6. ASSUME NEW isAbort \in BOOLEAN, Throw(j, isAbort), run[j] # "idle"
      PROVE  /\ RowMoves(j, {"queued", "running", "cancelled"}, "failed")
             /\ isAbort /\ active # j => status'[j] = status[j]
  BY <1>3, <1>4, <1>6 DEF Throw, Row
<1>7. CASE FetchAborts(j) \/ SidecarTimesOut(j)
  BY <1>6, <1>7 DEF FetchAborts, SidecarTimesOut
<1>8. CASE BuildFails(j) \/ ReadFails(j) \/ RefusalRead(j)
           \/ SidecarUnreachable(j) \/ DownloadFails(j) \/ SlicerFails(j)
  <2>1. j \notin aborted
    BY <1>1, <1>8
       DEF BuildFails, ReadFails, RefusalRead, SidecarUnreachable,
           DownloadFails, SlicerFails
  <2>2. RowMoves(j, {"queued", "running", "cancelled"}, "failed")
    BY <1>6, <1>8
       DEF BuildFails, ReadFails, RefusalRead, SidecarUnreachable,
           DownloadFails, SlicerFails
  <2> QED
    BY <2>1, <2>2
<1>9. CASE DownloadEnds(j) \/ SlicerSucceeds(j)
  <2>1. j \notin aborted /\ run[j] # "idle"
    BY <1>1, <1>9 DEF DownloadEnds, SlicerSucceeds
  <2>2. CASE Complete(j)
    BY <1>4, <2>1, <2>2 DEF Complete, Row
  <2>3. CASE ThrowAfterCompleted(j)
    BY <1>4, <2>1, <2>3 DEF ThrowAfterCompleted, Row
  <2> QED
    BY <1>9, <2>1, <2>2, <2>3 DEF DownloadEnds, SlicerSucceeds
<1> QED
  BY <1>5, <1>7, <1>8, <1>9 DEF Run

LEMMA CancelMovesRow ==
    ASSUME SliceInv, NEW j \in Jobs, FinishCancel(j)
    PROVE  RowMoves(j, Row, "cancelled")
BY SetStatusEffect DEF SliceInv, FinishCancel, RowMoves, Row

LEMMA DeleteModelMovesRows ==
    ASSUME SliceInv, NEW m \in Models, DeleteModel(m)
    PROVE  RowsLeave
BY DEF SliceInv, TypeOK, DeleteModel, RowsLeave

\* The steps that write to a job that has no slice in flight.
LEMMA WorkerMovesRow ==
    ASSUME SliceInv, NEW j \in Jobs, Worker(j)
    PROVE  /\ run[j] = "idle" /\ RedisConfigured
           /\ \A k \in Jobs \ {j} : status'[k] = status[k]
<1>1. TypeOK /\ NoJob \notin Jobs
  BY BullAssumption DEF SliceInv
<1>2. CASE WorkerStarts(j)
  <2>1. run[j] = "idle"
    BY <1>2, FetchPlaces DEF WorkerStarts
  <2> QED
    BY <1>1, <1>2, <2>1, SetStatusEffect
       DEF WorkerStarts, Row, SliceInv, NoQueueWithoutRedis
<1>3. CASE WorkerFindsNoModel(j)
  <2>1. run[j] = "idle"
    BY <1>3, FetchPlaces
       DEF WorkerFindsNoModel, sliceVars
  <2> QED
    BY <1>3, <2>1
       DEF WorkerFindsNoModel, sliceVars, storeVars, SliceInv,
           NoQueueWithoutRedis
<1>4. CASE OnFailed(j)
  BY <1>1, <1>4, SetStatusEffect
     DEF OnFailed, BullEmitFailed, Row, SliceInv, NoQueueWithoutRedis,
         OnlyActiveRuns
<1>5. CASE StalledJobRequeued(j)
  BY <1>5
     DEF StalledJobRequeued, BullRequeue, sliceVars, storeVars, SliceInv,
         NoQueueWithoutRedis, OnlyActiveRuns
<1>6. CASE StalledJobFails(j)
  BY <1>1, <1>6, SetStatusEffect
     DEF StalledJobFails, BullGiveUp, Row, SliceInv, NoQueueWithoutRedis,
         OnlyActiveRuns
<1> QED
  BY <1>2, <1>3, <1>4, <1>5, <1>6 DEF Worker

\* All other steps leave the rows alone.
LEMMA QuietSteps ==
    ASSUME NEW j \in Jobs,
           \/ CancelBegins(j) \/ DeleteJob(j) \/ AddReachesRedis(j)
           \/ KillTimerFires(j) \/ QueueConnects
           \/ WorkerCompleted \/ WorkerMovesToFailed
           \/ Restart \/ UNCHANGED vars
    PROVE  UNCHANGED status
BY DEF CancelBegins, DeleteJob, AddReachesRedis, KillTimerFires,
       QueueConnects, WorkerCompleted, WorkerMovesToFailed, Restart,
       vars, sliceVars, storeVars

(***************************************************************************)
(* A cancel that reached the fetch is final.                               *)
(***************************************************************************)

LEMMA StepKeepsCancel ==
    ASSUME SliceInv, [Next]_vars, NEW i \in Jobs, i \in aborted, active # i
    PROVE  status'[i] \in {"cancelled", "gone"}
<1>1. run[i] = "post" /\ status[i] \in {"cancelled", "gone"}
  BY DEF SliceInv, AbortedMeansCancelled
<1>2. ASSUME NEW j \in Jobs, Run(j)
      PROVE  status'[i] \in {"cancelled", "gone"}
  BY <1>1, <1>2, RunMovesRow DEF RowMoves
<1>3. ASSUME NEW j \in Jobs, Worker(j)
      PROVE  status'[i] \in {"cancelled", "gone"}
  BY <1>1, <1>3, WorkerMovesRow
<1>4. ASSUME NEW j \in Jobs, CancelDirect(j) \/ CancelEnds(j)
      PROVE  status'[i] \in {"cancelled", "gone"}
  BY <1>1, <1>4, CancelMovesRow DEF RowMoves, CancelDirect, CancelEnds
<1>5. ASSUME NEW j \in Jobs, SubmitDirect(j) \/ SubmitQueued(j)
      PROVE  status'[i] \in {"cancelled", "gone"}
  BY <1>1, <1>5 DEF SubmitDirect, SubmitQueued, SliceInv, TypeOK
<1>6. ASSUME NEW m \in Models, DeleteModel(m)
      PROVE  status'[i] \in {"cancelled", "gone"}
  BY <1>1, <1>6, DeleteModelMovesRows DEF RowsLeave
<1>7. ASSUME UNCHANGED status
      PROVE  status'[i] \in {"cancelled", "gone"}
  BY <1>1, <1>7
<1> QED
  BY <1>2, <1>3, <1>4, <1>5, <1>6, <1>7, QuietSteps DEF Next, User

\* Without Redis a cancel that reached the fetch of a sidecar is never
\* replaced by another verdict.
THEOREM CancelInFetchSticksAlways == Spec => CancelInFetchSticks
<1>1. SliceInv /\ [Next]_vars =>
        [\A j \in Jobs :
            j \in aborted /\ active # j
                => status'[j] \in {"cancelled", "gone"}]_vars
  BY StepKeepsCancel
<1> QED
  BY <1>1, SliceInvariant, PTL DEF Spec, CancelInFetchSticks

(***************************************************************************)
(* A server without Redis implements JobLifecycle.                         *)
(***************************************************************************)

View(st) == [j \in Jobs |-> IF st[j] \in {"queued", "running"}
                            THEN "active" ELSE st[j]]

LEMMA AbstractMove ==
    ASSUME NEW j, NEW from, NEW to,
           View(status)[j] \in from,
           View(status)' = [View(status) EXCEPT ![j] = to]
    PROVE  Lifecycle!Move(j, from, to)
BY DEF Lifecycle!Move, View

LEMMA AbstractRemove ==
    ASSUME NEW S \in SUBSET Jobs,
           \A j \in S : View(status)[j] # "none",
           View(status)' = [j \in Jobs |-> IF j \in S THEN "gone"
                                           ELSE View(status)[j]]
    PROVE  Lifecycle!Remove(S)
BY DEF Lifecycle!Remove, View

LEMMA LifecycleStep ==
    ASSUME ~RedisConfigured, SliceInv, [Next]_vars
    PROVE  [Lifecycle!Next]_(View(status))
<1> DEFINE job == View(status)
<1>1. /\ TypeOK /\ ~queueUp /\ cancelling = {}
      /\ \A k \in Jobs : job[k] = IF status[k] \in {"queued", "running"}
                                  THEN "active" ELSE status[k]
  BY DEF SliceInv, NoQueueWithoutRedis, View
<1>2. ASSUME NEW j \in Jobs, NEW from \in SUBSET Row,
             NEW to \in {"completed", "failed", "cancelled"},
             RowMoves(j, from, to)
      PROVE  \/ UNCHANGED job
             \/ status[j] \in from /\ job' = [job EXCEPT ![j] = to]
  BY <1>1, <1>2 DEF RowMoves, View
<1>3. ASSUME NEW j \in Jobs, Run(j)
      PROVE  Lifecycle!Next \/ UNCHANGED job
  <2> DEFINE from == {"queued", "running", "cancelled"}
  <2>1. status[j] \in from => job[j] \in {"active", "cancelled"}
    BY <1>1
  <2>2. CASE RowMoves(j, from, "completed")
    <3>1. UNCHANGED job \/ Lifecycle!Finish(j)
      BY <1>2, <2>1, <2>2, AbstractMove DEF Lifecycle!Finish, Row
    <3> QED
      BY <3>1 DEF Lifecycle!Next
  <2>3. CASE RowMoves(j, from, "failed")
    <3>1. UNCHANGED job \/ Lifecycle!Fail(j)
      BY <1>2, <2>1, <2>3, AbstractMove DEF Lifecycle!Fail, Row
    <3> QED
      BY <3>1 DEF Lifecycle!Next
  <2> QED
    BY <1>3, <2>2, <2>3, RunMovesRow
<1>4. ASSUME NEW j \in Jobs, CancelDirect(j)
      PROVE  Lifecycle!Next \/ UNCHANGED job
  <2>1. job[j] = "active" /\ RowMoves(j, Row, "cancelled")
    BY <1>1, <1>4, CancelMovesRow DEF CancelDirect
  <2>2. UNCHANGED job \/ Lifecycle!Cancel(j)
    BY <1>2, <2>1, AbstractMove DEF Lifecycle!Cancel
  <2> QED
    BY <2>2 DEF Lifecycle!Next
<1>5. ASSUME NEW j \in Jobs, SubmitDirect(j)
      PROVE  Lifecycle!Next
  <2>1. job[j] = "none" /\ job' = [job EXCEPT ![j] = "active"]
    BY <1>1, <1>5 DEF SubmitDirect, View, TypeOK
  <2>2. Lifecycle!Create(j)
    BY <2>1 DEF Lifecycle!Create, Lifecycle!Move, View
  <2> QED
    BY <2>2 DEF Lifecycle!Next
<1>6. ASSUME NEW m \in Models, DeleteModel(m)
      PROVE  Lifecycle!Next
  <2>1. PICK S \in SUBSET Jobs :
            S = {j \in Jobs : ModelOf[j] = m /\ status[j] \in Row}
    OBVIOUS
  <2>2. \A j \in S : job[j] # "none"
    BY <1>1, <2>1 DEF Row
  <2>3. job' = [j \in Jobs |-> IF j \in S THEN "gone" ELSE job[j]]
    BY <1>6, <2>1 DEF DeleteModel, View
  <2>4. Lifecycle!Remove(S)
    BY <2>2, <2>3, AbstractRemove
  <2> QED
    BY <2>4 DEF Lifecycle!Next
<1>7. ASSUME NEW j \in Jobs, Worker(j)
      PROVE  FALSE
  BY <1>7, WorkerMovesRow
<1>8. ASSUME NEW j \in Jobs, SubmitQueued(j) \/ CancelEnds(j)
      PROVE  FALSE
  BY <1>1, <1>8 DEF SubmitQueued, CancelEnds
<1>9. ASSUME UNCHANGED status
      PROVE  UNCHANGED job
  BY <1>9 DEF View
<1> HIDE DEF job
<1>10. ASSUME NEW j \in Jobs, User(j)
       PROVE  Lifecycle!Next \/ UNCHANGED job
  <2>1. CancelBegins(j) \/ DeleteJob(j) => UNCHANGED job
    BY <1>9, QuietSteps
  <2> QED
    BY <1>4, <1>5, <1>8, <1>10, <2>1 DEF User
<1>11. ASSUME NEW j \in Jobs, AddReachesRedis(j) \/ KillTimerFires(j)
       PROVE  UNCHANGED job
  BY <1>9, <1>11, QuietSteps
<1>12. ASSUME \/ QueueConnects \/ WorkerCompleted \/ WorkerMovesToFailed
              \/ Restart \/ UNCHANGED vars
       PROVE  UNCHANGED job
  BY <1>9, <1>12
     DEF QueueConnects, WorkerCompleted, WorkerMovesToFailed, Restart, vars,
         sliceVars, storeVars
<1>13. Lifecycle!Next \/ UNCHANGED job
  BY <1>3, <1>6, <1>7, <1>8, <1>10, <1>11, <1>12 DEF Next
<1> QED
  BY <1>13 DEF job

\* What a client of a server without Redis sees of its jobs is what
\* JobLifecycle promises.
THEOREM ImplementsLifecycle ==
    ASSUME ~RedisConfigured
    PROVE  Spec => LifecycleSpec
<1>1. Init => Lifecycle!Init
  BY DEF Init, Lifecycle!Init
<1>2. SliceInv /\ [Next]_vars => [Lifecycle!Next]_(View(status))
  BY LifecycleStep
<1> QED
  BY <1>1, <1>2, SliceInvariant, PTL
     DEF Spec, LifecycleSpec, Lifecycle!Spec, View

(***************************************************************************)
(* Cleanups.                                                               *)
(***************************************************************************)

\* A cleanup leaves a job as it is, or takes its row and its directory; a model
\* goes only with the rows of its jobs.
LEMMA CleanupEffect ==
    ASSUME TypeOK, NEW mode \in Mode, NEW days \in Age, Cleanup(mode, days)
    PROVE  /\ \A j \in Jobs :
                \/ status'[j] = status[j] /\ wd'[j] = wd[j]
                \/ status[j] \in Row /\ status'[j] = "gone" /\ wd'[j] = "absent"
           /\ \A j \in Jobs : status'[j] \in Row /\ ModelOf[j] \in models => ModelOf[j] \in models'
           /\ models' \subseteq models
           /\ TypeOK'
<1>1. PurgedRows(mode, days) \subseteq Rows /\ PurgedDirs(mode, days) = PurgedRows(mode, days)
  BY DEF PurgedRows, PurgedDirs, JobsOf, JobCandidates, JobsOlderThan, Mode, Age
<1>2. /\ \A j \in Jobs : wd'[j] = IF j \in PurgedDirs(mode, days) THEN "absent" ELSE wd[j]
      /\ \A j \in Jobs : status'[j] = IF j \in PurgedRows(mode, days) THEN "gone" ELSE status[j]
      /\ models' = models \ ModelCandidates(mode, days)
      /\ status' \in [Jobs -> Status] /\ wd' \in [Jobs -> Dir]
  BY DEF Cleanup, TypeOK, Status, Dir
<1>3. \A j \in Jobs : status'[j] \in Row => ModelOf[j] \notin ModelCandidates(mode, days)
  <2>1. \A m \in ModelCandidates(mode, days) : JobsOf(m) \subseteq PurgedRows(mode, days)
    BY DEF PurgedRows
  <2> QED
    BY <1>2, <2>1 DEF JobsOf, Rows, Row
<1>4. TypeOK'
  BY <1>2 DEF Cleanup, TypeOK, BullTypeOK, bullVars, execVars
<1> QED
  BY <1>1, <1>2, <1>3, <1>4 DEF Rows

LEMMA CleanupKeepsInv ==
    ASSUME SliceInv, NEW mode \in Mode, NEW days \in Age, Cleanup(mode, days)
    PROVE  SliceInv'
<1> USE DEF SliceInv
<1>1. /\ OnePlace'
      /\ \A k \in Jobs : InQueue(k)' <=> InQueue(k)
      /\ \A k \in Jobs : Held(k)' <=> Held(k)
  BY SamePlaces DEF Cleanup, bullVars
<1>2. /\ \A j \in Jobs :
            \/ status'[j] = status[j] /\ wd'[j] = wd[j]
            \/ status[j] \in Row /\ status'[j] = "gone" /\ wd'[j] = "absent"
      /\ \A j \in Jobs : status'[j] \in Row /\ ModelOf[j] \in models => ModelOf[j] \in models'
      /\ models' \subseteq models
      /\ TypeOK'
  BY CleanupEffect
<1>3. UNCHANGED <<waiting, active, outcome, stalled, stalls, deleted, queueUp, run,
                  executors, execVars, adding, cancelling, crashes>>
  BY DEF Cleanup, bullVars
<1>4. OnlyActiveRuns'
  BY <1>1, <1>2, <1>3 DEF OnlyActiveRuns, Row
<1>5. NoQueueWithoutRedis'
  BY <1>3 DEF NoQueueWithoutRedis
<1>6. AbortedMeansCancelled'
  BY <1>2, <1>3 DEF AbortedMeansCancelled, TypeOK, execVars
<1>7. JobHasModel'
  BY <1>2 DEF JobHasModel, Row
<1>8. PendingFailureLeavesNoDir'
  BY <1>2, <1>3 DEF PendingFailureLeavesNoDir, Row
<1>9. ExecutorsTracked' /\ FinishedMeansIdle'
  BY <1>2, <1>3 DEF ExecutorsTracked, FinishedMeansIdle
<1>10. FailedLeavesNoDir' /\ CompletedHasGcode'
  BY <1>2, <1>3 DEF FailedLeavesNoDir, CompletedHasGcode
<1> QED
  BY <1>1, <1>2, <1>4, <1>5, <1>6, <1>7, <1>8, <1>9, <1>10

\* What SliceJobs keeps is kept beside cleanups of any kind.
THEOREM StorageInvariant == StorageSpec => []SliceInv
<1>1. StorageInit => SliceInv
  BY InitInv DEF StorageInit
<1>2. SliceInv /\ [StorageNext]_storageVars => SliceInv'
  <2>1. ASSUME SliceInv, [Next]_vars
        PROVE  SliceInv'
    BY <2>1, NextInv
  <2>2. ASSUME SliceInv, NEW mode \in Mode, NEW days \in Age, Cleanup(mode, days)
        PROVE  SliceInv'
    BY <2>2, CleanupKeepsInv
  <2> QED
    BY <2>1, <2>2 DEF StorageNext, SliceStep, ModelAges, JobAges, storageVars
<1> QED
  BY <1>1, <1>2, PTL DEF StorageSpec

\* A job row always has the row of its model, whatever is deleted or cleaned up
\* (the foreign key jobs.model_id, ON DELETE CASCADE).
THEOREM RowHasModelAlways == StorageSpec => []RowHasModel
<1>1. SliceInv => RowHasModel
  BY DEF SliceInv, JobHasModel, RowHasModel, Rows
<1> QED
  BY <1>1, StorageInvariant, PTL

\* A cleanup that takes a job's row, itself or with its model, takes its directory
\* (routes/system.ts, modelJobDirs).
THEOREM CleanupLeavesNoOrphanDirAlways == StorageSpec => CleanupLeavesNoOrphanDir
<1>1. ASSUME SliceInv, NEW mode \in Mode, NEW days \in Age, Cleanup(mode, days),
             NEW j \in Rows, status'[j] = "gone"
      PROVE  wd'[j] = "absent"
  BY <1>1, CleanupEffect DEF SliceInv, Rows, Row
<1>2. SliceInv /\ [StorageNext]_storageVars =>
        [\A mode \in Mode, days \in Age :
            Cleanup(mode, days) =>
                \A j \in Rows : status'[j] = "gone" => wd'[j] = "absent"]_storageVars
  BY <1>1
<1> QED
  BY <1>2, StorageInvariant, PTL DEF StorageSpec, CleanupLeavesNoOrphanDir
=============================================================================
