----------------------------- MODULE PrinterDesk ----------------------------
(* A printer with its adapter and its queue: a print that is sent changes what *)
(* the printer reports, unless the printer takes no notice of its start.       *)
EXTENDS PrinterStatus, PrintQueue

CONSTANT MaxEvents  \* bound: changes, broken connections, presses and repeats together

vars == <<statusVars, queueVars>>

Init == StatusInit /\ QueueInit

\* The printer starts the print of an item; it gets a job of its own.
Starts(i) ==
    /\ printed' = printed \union {i}
    /\ Becomes([truth EXCEPT !.job = @ + 1], {"job"})
    /\ UNCHANGED changes

StartsNothing == UNCHANGED <<printed, statusVars>>

\* startPrint resolves although nothing starts: MoonrakerAdapter does not look at the
\* answer, BambuAdapter publishes without one, or not at all when it has no client.
\* BambuddyAdapter throws unless each request was accepted.
ReadsAnswers == kind = "bambuddy"

\* A send ends: uploads and starts use connections of their own, whatever the link does.
SendEnds(c) ==
    \/ HandsOver(c) /\ Starts(calls[c].id)
    \/ HandsOver(c) /\ ~ReadsAnswers /\ StartsNothing
    \/ SendThrows(c) /\ (Starts(calls[c].id) \/ StartsNothing)

StraySendEnds(i) ==
    \/ StrayHandsOver(i) /\ Starts(i)
    \/ StrayHandsOver(i) /\ ~ReadsAnswers /\ StartsNothing
    \/ StrayThrows(i) /\ (Starts(i) \/ StartsNothing)

\* A start that was published while the MQTT client was offline gets through later.
StartsLate(i) ==
    /\ kind = "bambu" /\ link = "open"
    /\ i \in handed \ printed
    /\ Starts(i)
    /\ UNCHANGED <<rows, items, jobs, shown, sending, calls, repeats, strays, handed, dismissed>>

Next ==
    /\ \/ StatusNext /\ UNCHANGED queueVars
       \/ QueueSteps /\ UNCHANGED statusVars
       \/ \E c \in DOMAIN calls : SendEnds(c)
       \/ \E i \in Ids : StraySendEnds(i) \/ StartsLate(i)
    /\ changes' + drops' + Len(calls') + repeats' <= MaxEvents

Spec == Init /\ [][Next]_vars /\ StatusFairness

-----------------------------------------------------------------------------
(* Properties                                                                  *)

\* Once the printer and its connection stay as they are, the status comes to be the
\* printer's: no field is lost by a partial report, kept from before a gap or
\* covered by an older answer.
StatusCatchesUp == <>[](status /\ connection = "connected" /\ kept = truth)

\* What the page may take for sent: the file reached the printer and startPrint
\* resolved; with an adapter that reads the answers, the print has started.
Sent(i) == i \in handed /\ (ReadsAnswers => i \in printed)

\* An item leaves the queue when it was sent, when a user has removed it, or with its
\* job (PrintQueueSection.tsx); never because a send failed, its answer was lost, or a
\* send that was given up went on.
QueuedUntilSent ==
    \A i \in DOMAIN items :
        i \in rows \/ Sent(i) \/ i \in dismissed \/ items[i] \notin jobs
=============================================================================
