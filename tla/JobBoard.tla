------------------------------- MODULE JobBoard -----------------------------
(* The jobs panel of App.tsx against the jobs of the server. The server sends  *)
(* no event about jobs (nothing calls emitJobProgress and its like), so the    *)
(* panel lives on the list it loads once, on the answers to its own requests,  *)
(* and on a timer that asks for every unfinished job; ticks do not wait for    *)
(* each other, and an answer is shown when it comes.                           *)
EXTENDS Session, FiniteSets

CONSTANTS Jobs, MaxPolls,   \* bound: ticks under way
          MaxLost           \* bound: replies and answers that get lost

Open == {"queued", "running"}
Ended == {"completed", "failed", "cancelled"}
Off == "absent"

VARIABLES row,      \* status in the server's table
          stage,    \* the slice itself: "none" | "waiting" | "slicing" | "over"
          board,    \* status shown, Off if the job is not on the board
          list,     \* GET /api/jobs: [at: "none" | "asked" | "read", rows: the answer]
          polls,    \* ticks under way: what each got for every job it asked for
          posted,   \* POST /api/slice: "none" | "sent" | the job of the reply
          stopping, \* jobs whose cancel is accepted and the reply on its way
          stopped,  \* jobs ever cancelled
          lost      \* losses so far

serverJobs == <<row, stage, stopped>>
boardVars == <<board, list, polls, posted, stopping>>
jobVars == <<serverJobs, boardVars, lost>>

\* Mutant: a job is asked for once it runs.
UnfinishedRunning == {j \in Jobs : board[j] = "running"}

Unfinished == {j \in Jobs : board[j] \in Open}

EmptyBoard == [j \in Jobs |-> Off]
NoList == [at |-> "none", rows |-> EmptyBoard]
NoPolls == [k \in 1..MaxPolls |-> EmptyBoard]
Idle(k) == polls[k] = EmptyBoard

JobsInit ==
    /\ row = EmptyBoard /\ stage = [j \in Jobs |-> "none"]
    /\ board = EmptyBoard /\ list = NoList /\ polls = NoPolls /\ posted = "none"
    /\ stopping = {} /\ stopped = {} /\ lost = 0

\* React takes the application down: its state is gone, late answers find nobody.
Unmounted ==
    /\ board' = EmptyBoard /\ list' = NoList /\ polls' = NoPolls /\ posted' = "none" /\ stopping' = {}
    /\ UNCHANGED <<serverJobs, lost>>
Mounted ==
    /\ list' = [NoList EXCEPT !.at = "asked"]
    /\ board' = EmptyBoard /\ polls' = NoPolls /\ posted' = "none" /\ stopping' = {}
    /\ UNCHANGED <<serverJobs, lost>>

-----------------------------------------------------------------------------
(* The server; see SliceJobs for what happens between start and end.           *)

Starts(j) ==
    /\ stage[j] = "waiting"
    /\ stage' = [stage EXCEPT ![j] = "slicing"] /\ row' = [row EXCEPT ![j] = "running"]
    /\ UNCHANGED <<stopped, boardVars, lost>>

\* A cancelled slice may be aborted, fail of it, or be through already.
Ends(j, result) ==
    /\ stage[j] = "slicing"
    /\ result = "cancelled" => row[j] = "cancelled"
    /\ stage' = [stage EXCEPT ![j] = "over"] /\ row' = [row EXCEPT ![j] = result]
    /\ UNCHANGED <<stopped, boardVars, lost>>

-----------------------------------------------------------------------------
(* The client                                                                  *)

\* Mutant: a 401 is one more failure.
AsksUnheard(action) == gate = "ready" /\ Admitted /\ action /\ UNCHANGED sessionVars

\* A request of the page reaches the server: it is served, or the page goes down.
Asks(action) ==
    /\ gate = "ready"
    /\ IF Admitted THEN action /\ UNCHANGED sessionVars
       ELSE Unauthorized /\ Unmounted

ListRead ==
    /\ list.at = "asked"
    /\ Asks(/\ list' = [at |-> "read", rows |-> row]
            /\ UNCHANGED <<serverJobs, board, polls, posted, stopping, lost>>)

\* listJobs turns any failure into an empty list; setJobs replaces what is there.
ListArrives ==
    /\ list.at = "read"
    /\ board' = list.rows /\ list' = NoList
    /\ UNCHANGED <<serverJobs, polls, posted, stopping, lost, sessionVars>>
ListFails ==
    /\ list.at = "asked" /\ lost < MaxLost
    /\ board' = EmptyBoard /\ list' = NoList /\ lost' = lost + 1
    /\ UNCHANGED <<serverJobs, polls, posted, stopping, sessionVars>>

\* POST /api/slice makes a row with a new id.
SliceReaches ==
    LET j == CHOOSE j \in Jobs : row[j] = Off
    IN /\ posted \in {"none", "sent"} /\ Off \in {row[k] : k \in Jobs}
       /\ Asks(/\ row' = [row EXCEPT ![j] = "queued"] /\ stage' = [stage EXCEPT ![j] = "waiting"]
               /\ posted' = j
               /\ UNCHANGED <<stopped, board, list, polls, stopping, lost>>)

\* The reply is lost and apiFetch repeats the request, which makes another job.
SliceReplyLost ==
    /\ posted \in Jobs /\ lost < MaxLost
    /\ posted' = "sent" /\ lost' = lost + 1
    /\ UNCHANGED <<serverJobs, board, list, polls, stopping, sessionVars>>
SliceArrives ==
    /\ posted \in Jobs
    /\ board' = [board EXCEPT ![posted] = "queued"] /\ posted' = "none"
    /\ UNCHANGED <<serverJobs, list, polls, stopping, lost, sessionVars>>

\* POST /api/jobs/:id/cancel; the button is there while the board says running.
CancelReaches(j) ==
    /\ board[j] = "running" /\ row[j] \in Open
    /\ Asks(/\ row' = [row EXCEPT ![j] = "cancelled"]
            /\ stopping' = stopping \union {j} /\ stopped' = stopped \union {j}
            /\ UNCHANGED <<stage, board, list, polls, posted, lost>>)
CancelArrives(j) ==
    /\ j \in stopping
    /\ board' = [board EXCEPT ![j] = IF @ = Off THEN Off ELSE "cancelled"]
    /\ stopping' = stopping \ {j}
    /\ UNCHANGED <<serverJobs, list, polls, posted, lost, sessionVars>>

\* The timer runs while something is unfinished.
Tick(k) ==
    /\ gate = "ready" /\ Unfinished # {} /\ Idle(k)
    /\ polls' = [polls EXCEPT ![k] = [j \in Jobs |-> IF j \in Unfinished THEN "nothing" ELSE Off]]
    /\ UNCHANGED <<serverJobs, board, list, posted, stopping, lost, sessionVars>>

PollRead(k, j) ==
    /\ polls[k][j] = "nothing"
    /\ Asks(/\ polls' = [polls EXCEPT ![k][j] = row[j]]
            /\ UNCHANGED <<serverJobs, board, list, posted, stopping, lost>>)
PollFails(k, j) ==
    /\ polls[k][j] = "nothing" /\ lost < MaxLost
    /\ polls' = [polls EXCEPT ![k][j] = "null"] /\ lost' = lost + 1
    /\ UNCHANGED <<serverJobs, board, list, posted, stopping, sessionVars>>

\* Promise.all: the answers are shown together, once the last has come.
PollArrives(k) ==
    /\ ~Idle(k) /\ \A j \in Jobs : polls[k][j] # "nothing"
    /\ board' = [j \in Jobs |-> IF board[j] = Off \/ polls[k][j] \in {Off, "null"}
                                THEN board[j] ELSE polls[k][j]]
    /\ polls' = [polls EXCEPT ![k] = EmptyBoard]
    /\ UNCHANGED <<serverJobs, list, posted, stopping, lost, sessionVars>>

JobsNext ==
    \/ ListRead \/ ListArrives \/ ListFails \/ SliceReplyLost \/ SliceArrives \/ SliceReaches
    \/ \E j \in Jobs :
            \/ Starts(j) /\ UNCHANGED sessionVars
            \/ \E r \in Ended : Ends(j, r) /\ UNCHANGED sessionVars
            \/ CancelReaches(j) \/ CancelArrives(j)
    \/ \E k \in 1..MaxPolls :
            Tick(k) \/ PollArrives(k) \/ \E j \in Jobs : PollRead(k, j) \/ PollFails(k, j)

JobsFairness ==
    /\ WF_<<jobVars, sessionVars>>(ListRead) /\ WF_<<jobVars, sessionVars>>(ListArrives)
    /\ WF_<<jobVars, sessionVars>>(SliceArrives) 
    /\ \A j \in Jobs : WF_<<jobVars, sessionVars>>(CancelArrives(j))
    /\ \A k \in 1..MaxPolls :
            /\ WF_<<jobVars, sessionVars>>(Tick(k)) /\ WF_<<jobVars, sessionVars>>(PollArrives(k))
            /\ \A j \in Jobs : WF_<<jobVars, sessionVars>>(PollRead(k, j))
=============================================================================
