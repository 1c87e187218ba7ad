----------------------------- MODULE BullQueue -----------------------------
(***************************************************************************)
(* The optional Redis queue as jobs/queue.ts uses it: one BullMQ queue,    *)
(* one Worker with concurrency 1, no retry option, the default limit on    *)
(* stalled jobs.  BullMQ and Redis are libraries outside the repository;   *)
(* the module keeps what their user can observe.  Everything here lives in *)
(* Redis, so it survives a restart of the server, except "active" and      *)
(* "outcome", which are the worker's own view of the job in its hands.     *)
(***************************************************************************)
EXTENDS Naturals, Sequences

CONSTANTS
    Jobs,       \* job ids (uuid v4: each is used once)
    NoJob,      \* the worker holds no job
    MaxStalls   \* how often a job orphaned by a dead worker is handed out again

ASSUME BullAssumption ==
    /\ NoJob \notin Jobs
    /\ MaxStalls \in Nat \ {0}

VARIABLES
    waiting,    \* the wait list, next job first
    active,     \* the job the worker processes, or NoJob
    outcome,    \* how far the worker is with the result of "active"
    stalled,    \* jobs active in Redis whose worker died
    stalls      \* stalled count of every job

bullVars == <<waiting, active, outcome, stalled, stalls>>

\* "none": the processor runs; "ok" and "error": it settled and the worker
\* has still to move the job in Redis; "moved": the job is in Redis' failed
\* set and the 'failed' event has still to reach its listener.
Outcome == {"none", "ok", "error", "moved"}

BullTypeOK ==
    /\ waiting \in Seq(Jobs)
    /\ active \in Jobs \cup {NoJob}
    /\ outcome \in Outcome
    /\ stalled \subseteq Jobs
    /\ stalls \in [Jobs -> 0..MaxStalls]

BullInit ==
    /\ waiting = <<>>
    /\ active = NoJob
    /\ outcome = "none"
    /\ stalled = {}
    /\ stalls = [j \in Jobs |-> 0]

InQueue(j) == \E i \in DOMAIN waiting : waiting[i] = j

\* Redis still knows the job.
Held(j) == InQueue(j) \/ active = j \/ j \in stalled

----------------------------------------------------------------------------

BullAdd(j) ==
    /\ waiting' = Append(waiting, j)
    /\ UNCHANGED <<active, outcome, stalled, stalls>>

\* The idle worker takes the next job; result is "error" when its processor
\* throws before it does anything else.
BullFetch(j, result) ==
    /\ active = NoJob
    /\ waiting # <<>>
    /\ j = Head(waiting)
    /\ waiting' = Tail(waiting)
    /\ active' = j
    /\ outcome' = result
    /\ UNCHANGED <<stalled, stalls>>

BullSettle(result) ==
    /\ outcome' = result
    /\ UNCHANGED <<waiting, active, stalled, stalls>>

BullCompleted ==
    /\ active # NoJob
    /\ outcome = "ok"
    /\ active' = NoJob
    /\ outcome' = "none"
    /\ UNCHANGED <<waiting, stalled, stalls>>

BullMoveToFailed ==
    /\ active # NoJob
    /\ outcome = "error"
    /\ outcome' = "moved"
    /\ UNCHANGED <<waiting, active, stalled, stalls>>

BullEmitFailed ==
    /\ active # NoJob
    /\ outcome = "moved"
    /\ active' = NoJob
    /\ outcome' = "none"
    /\ UNCHANGED <<waiting, stalled, stalls>>

\* The server process dies: a job that Redis holds as active stays there
\* until the next worker's stalled check finds its lock expired.
BullCrash ==
    /\ stalled' = IF active # NoJob /\ outcome # "moved"
                  THEN stalled \cup {active} ELSE stalled
    /\ active' = NoJob
    /\ outcome' = "none"
    /\ UNCHANGED <<waiting, stalls>>

\* The stalled check puts an orphaned job back at the head of the wait list...
BullRequeue(j) ==
    /\ j \in stalled
    /\ stalls[j] < MaxStalls
    /\ waiting' = <<j>> \o waiting
    /\ stalled' = stalled \ {j}
    /\ stalls' = [stalls EXCEPT ![j] = @ + 1]
    /\ UNCHANGED <<active, outcome>>

\* ...or gives it up: "job stalled more than allowable limit".
BullGiveUp(j) ==
    /\ j \in stalled
    /\ stalls[j] = MaxStalls
    /\ stalled' = stalled \ {j}
    /\ UNCHANGED <<waiting, active, outcome, stalls>>

=============================================================================
