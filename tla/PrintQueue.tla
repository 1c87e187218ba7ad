----------------------------- MODULE PrintQueue -----------------------------
(* The queue of jobs to print on one printer: its rows in the database, their  *)
(* routes (printers.ts), and the pages that list them and send one at a time   *)
(* (PrintQueueSection.tsx), through an apiFetch that repeats lost requests.    *)
EXTENDS Naturals, Sequences

CONSTANTS Jobs,       \* completed jobs
          Tabs,       \* pages of the printer
          MaxItems,   \* bound: items ever added
          MaxPresses, \* bound: buttons pressed and lists asked for
          MaxRepeats  \* bound: repeated requests

ASSUME QueueAssumption == MaxItems \in Nat \ {0} /\ MaxPresses \in Nat

VARIABLES rows,       \* print_queue: ids in it
          items,      \* the job of each id ever added
          jobs,       \* jobs with a row
          shown,      \* ids each page lists
          sending,    \* sendingId of each page, 0 for none
          calls,      \* [tab, op, id, stage, ids] of each press
          repeats,
          strays,     \* sends of each id under way on the server that nobody waits for
          handed,     \* ids whose file was uploaded and whose startPrint resolved
          printed,    \* ids whose print has started
          dismissed   \* ids a user has removed

startVars == <<strays, handed, printed>>
queueVars == <<rows, items, jobs, shown, sending, calls, repeats, startVars, dismissed>>

Ids == 1..MaxItems

\* Requests of a call: "list", then "done"; "remove", then "done"; "send" (checked),
\* "upload" (uploadFile and startPrint awaited), "sent", then a "remove" of its own.
Call(t, op, i) == [tab |-> t, op |-> op, id |-> i, stage |-> op, ids |-> {}]

Stage(c, stage) == [calls EXCEPT ![c].stage = stage]

\* Pages opened on a queue that is empty or holds one item.
QueueInit ==
    /\ jobs = Jobs
    /\ items \in {<<>>} \union {<<j>> : j \in Jobs} /\ rows = DOMAIN items
    /\ shown = [t \in Tabs |-> rows] /\ sending = [t \in Tabs |-> 0]
    /\ calls = <<>> /\ repeats = 0
    /\ strays = [i \in Ids |-> 0] /\ handed = {} /\ printed = {} /\ dismissed = {}

-----------------------------------------------------------------------------
(* Buttons                                                                     *)

\* POST queue, from a job card: once for a job (an add that is repeated finds the
\* row of the first).
Add(j) ==
    /\ j \in jobs /\ Len(items) < MaxItems
    /\ \A i \in rows : items[i] # j
    /\ items' = Append(items, j)
    /\ rows' = rows \union {Len(items')}
    /\ UNCHANGED <<jobs, shown, sending, calls, repeats, startVars, dismissed>>

Press(t, op, i) ==
    /\ Len(calls) < MaxPresses
    /\ calls' = Append(calls, Call(t, op, i))

\* refresh: when the page of the printer is opened.
Refresh(t) ==
    /\ Press(t, "list", 0)
    /\ UNCHANGED <<rows, items, jobs, shown, sending, repeats, startVars, dismissed>>

\* sendNow: only the item sent last has a button that is disabled, whatever the
\* printer does meanwhile.
SendNow(t, i) ==
    /\ i \in shown[t] /\ sending[t] # i
    /\ Press(t, "send", i)
    /\ sending' = [sending EXCEPT ![t] = i]
    /\ UNCHANGED <<rows, items, jobs, shown, repeats, startVars, dismissed>>

Remove(t, i) ==
    /\ i \in shown[t]
    /\ Press(t, "remove", i)
    /\ dismissed' = dismissed \union {i}
    /\ UNCHANGED <<rows, items, jobs, shown, sending, repeats, startVars>>

-----------------------------------------------------------------------------
(* The server                                                                  *)

ListReaches(c) ==
    /\ calls[c].stage = "list"
    /\ calls' = [calls EXCEPT ![c].stage = "done", ![c].ids = rows]
    /\ UNCHANGED <<rows, items, jobs, shown, sending, repeats, startVars, dismissed>>

\* POST send takes the job of the item, queued or not.
SendReaches(c) ==
    /\ calls[c].stage = "send"
    /\ calls' = Stage(c, IF items[calls[c].id] \in jobs THEN "upload" ELSE "failed")
    /\ UNCHANGED <<rows, items, jobs, shown, sending, repeats, startVars, dismissed>>

\* uploadFile and startPrint resolve, and the route answers ok. Whether a print starts
\* is the printer's business: it may have refused.
HandsOver(c) ==
    /\ calls[c].stage = "upload"
    /\ calls' = Stage(c, "sent")
    /\ handed' = handed \union {calls[c].id}
    /\ UNCHANGED <<rows, items, jobs, shown, sending, repeats, strays, dismissed>>

\* The upload or the start throws. Its print may have started all the same, when only
\* the last answer was late (Bambuddy's start takes two requests).
SendThrows(c) ==
    /\ calls[c].stage = "upload"
    /\ calls' = Stage(c, "failed")
    /\ UNCHANGED <<rows, items, jobs, shown, sending, repeats, strays, handed, dismissed>>

\* A send nobody waits for ends as any other, and is answered to nobody.
StrayEnds(i) ==
    /\ strays[i] > 0
    /\ strays' = [strays EXCEPT ![i] = @ - 1]
    /\ UNCHANGED <<rows, items, jobs, shown, sending, calls, repeats, dismissed>>

StrayHandsOver(i) == StrayEnds(i) /\ handed' = handed \union {i}
StrayThrows(i) == StrayEnds(i) /\ UNCHANGED handed

RemoveReaches(c) ==
    /\ calls[c].stage = "remove"
    /\ rows' = rows \ {calls[c].id}
    /\ calls' = Stage(c, "done")
    /\ UNCHANGED <<items, jobs, shown, sending, repeats, startVars, dismissed>>

\* A job goes, with its model or in a cleanup: its items go with it.
DeleteJob(j) ==
    /\ j \in jobs
    /\ jobs' = jobs \ {j}
    /\ rows' = {i \in rows : items[i] # j}
    /\ UNCHANGED <<items, shown, sending, calls, repeats, startVars, dismissed>>

-----------------------------------------------------------------------------
(* Answers                                                                     *)

\* The request a call makes again.
Again(c) == CASE calls[c].stage \in {"upload", "sent"} -> "send"
              [] calls[c].op = "list" -> "list"
              [] OTHER -> "remove"

\* A request or its answer gets lost, before, while or after the server handles it:
\* apiFetch makes it again, or gives up. The server goes on with an upload.
Lost(c) ==
    /\ calls[c].stage \in {"list", "send", "remove", "upload", "sent", "done"}
    /\ \/ /\ calls[c].stage \in {"upload", "sent", "done"} /\ repeats < MaxRepeats
          /\ calls' = Stage(c, Again(c)) /\ repeats' = repeats + 1
       \/ calls' = Stage(c, "failed") /\ repeats' = repeats
    /\ strays' = IF calls[c].stage = "upload" THEN [strays EXCEPT ![calls[c].id] = @ + 1]
                 ELSE strays
    /\ UNCHANGED <<rows, items, jobs, shown, sending, handed, printed, dismissed>>

ListArrives(c) ==
    /\ calls[c].stage = "done" /\ calls[c].op = "list"
    /\ shown' = [shown EXCEPT ![calls[c].tab] = calls[c].ids]
    /\ calls' = [calls EXCEPT ![c].stage = "over", ![c].ids = {}]
    /\ UNCHANGED <<rows, items, jobs, sending, repeats, startVars, dismissed>>

\* "Sent - drop from queue."
SendArrives(c) ==
    /\ calls[c].stage = "sent"
    /\ calls' = Stage(c, "remove")
    /\ UNCHANGED <<rows, items, jobs, shown, sending, repeats, startVars, dismissed>>

RemoveArrives(c) ==
    /\ calls[c].stage = "done" /\ calls[c].op # "list"
    /\ shown' = [shown EXCEPT ![calls[c].tab] = @ \ {calls[c].id}]
    /\ sending' = IF calls[c].op = "send" THEN [sending EXCEPT ![calls[c].tab] = 0] ELSE sending
    /\ calls' = Stage(c, "over")
    /\ UNCHANGED <<rows, items, jobs, repeats, startVars, dismissed>>

\* Mutant: the item is taken off in the finally block.
FailureArrivesDrops(c) ==
    /\ calls[c].stage = "failed"
    /\ sending' = IF calls[c].op = "send" THEN [sending EXCEPT ![calls[c].tab] = 0] ELSE sending
    /\ calls' = Stage(c, IF calls[c].op = "send" THEN "remove" ELSE "over")
    /\ UNCHANGED <<rows, items, jobs, shown, repeats, startVars, dismissed>>

\* An error is shown; the item stays.
FailureArrives(c) ==
    /\ calls[c].stage = "failed"
    /\ sending' = IF calls[c].op = "send" THEN [sending EXCEPT ![calls[c].tab] = 0] ELSE sending
    /\ calls' = Stage(c, "over")
    /\ UNCHANGED <<rows, items, jobs, shown, repeats, startVars, dismissed>>

\* Everything but the end of a send, which the printer takes part in.
QueueSteps ==
    \/ \E j \in Jobs : Add(j) \/ DeleteJob(j)
    \/ \E t \in Tabs : Refresh(t) \/ \E i \in Ids : SendNow(t, i) \/ Remove(t, i)
    \/ \E c \in DOMAIN calls :
          \/ ListReaches(c) \/ SendReaches(c) \/ RemoveReaches(c) \/ Lost(c)
          \/ ListArrives(c) \/ SendArrives(c) \/ RemoveArrives(c) \/ FailureArrives(c)
=============================================================================
