----------------------------- MODULE DeskProofs -----------------------------
(***************************************************************************)
(* An item of a print queue is not lost by a send that fails, for any      *)
(* number of jobs, pages, requests and repetitions.                        *)
(*                                                                         *)
(* The invariant says what a call has behind it at each stage: a send that *)
(* removes its item has handed its print over (and started it, where the   *)
(* adapter reads the answers), and any other removal was asked for by a    *)
(* user.                                                                   *)
(***************************************************************************)
EXTENDS PrinterDesk, TLAPS

Stages == {"list", "send", "upload", "sent", "remove", "done", "failed", "over"}
Calls == [tab : Tabs, op : {"list", "send", "remove"}, id : Nat, stage : Stages, ids : SUBSET Nat]

QueueTypeOK ==
    /\ items \in Seq(Jobs) /\ Len(items) <= MaxItems
    /\ rows \subseteq Nat
    /\ calls \in Seq(Calls)

\* What a call has behind it.
Honest(c) ==
    /\ c.op = "list" => c.stage \in {"list", "done", "failed", "over"}
    /\ c.op = "send" =>
        /\ c.id \in Ids /\ c.stage # "list"
        /\ c.stage \in {"sent", "remove", "done"} => Sent(c.id)
    /\ c.op = "remove" =>
        /\ c.id \in dismissed
        /\ c.stage \in {"remove", "done", "failed", "over"}

AllHonest == \A c \in DOMAIN calls : Honest(calls[c])

QueueInv == QueueTypeOK /\ AllHonest /\ QueuedUntilSent

\* Another stage of a call changes nothing else of it, and no other call.
LEMMA StageEffect ==
    ASSUME calls \in Seq(Calls), NEW c \in DOMAIN calls, NEW s \in Stages,
           calls' = Stage(c, s)
    PROVE  /\ calls' \in Seq(Calls)
           /\ DOMAIN calls' = DOMAIN calls
           /\ \A d \in DOMAIN calls \ {c} : calls'[d] = calls[d]
           /\ calls'[c].stage = s
           /\ calls'[c].op = calls[c].op
           /\ calls'[c].id = calls[c].id
<1> DEFINE d == [calls[c] EXCEPT !.stage = s]
<1>1. calls[c] \in Calls
  OBVIOUS
<1>2. d \in Calls /\ d.stage = s /\ d.op = calls[c].op /\ d.id = calls[c].id
  BY <1>1 DEF Calls
<1>3. calls' = [calls EXCEPT ![c] = d]
  BY DEF Stage
<1> HIDE DEF d
<1> QED
  BY <1>2, <1>3

\* What is sent stays so: the history only grows, and the printer is the same.
Grows == kind' = kind /\ handed \subseteq handed' /\ printed \subseteq printed'

LEMMA SentStays ==
    ASSUME Grows
    PROVE  /\ \A i : Sent(i) => Sent(i)'
           /\ QueuedUntilSent /\ UNCHANGED <<rows, items, jobs, dismissed>> => QueuedUntilSent'
<1>1. \A i : Sent(i) => Sent(i)'
  BY DEF Grows, Sent, ReadsAnswers
<1> QED
  BY <1>1 DEF QueuedUntilSent

LEMMA StatusGrows ==
    ASSUME StatusNext, UNCHANGED queueVars
    PROVE  Grows
<1>1. kind' = kind
  <2>1. ASSUME NEW i \in DOMAIN chains, TickRead(i) \/ TickArrives(i) \/ TickFails(i) \/ Tick(i)
        PROVE  kind' = kind
    BY <2>1 DEF TickRead, TickArrives, TickFails, Tick
  <2>2. ASSUME NEW f \in Fields, Changes(f)
        PROVE  kind' = kind
    BY <2>2 DEF Changes, Becomes
  <2> QED
    BY <2>1, <2>2 DEF StatusNext, StatusSteps, Answer, FallSilent, Closed, Opens, Receive
<1> QED
  BY <1>1 DEF Grows, queueVars, startVars

\* A step that takes nothing out of the queue, and one call to a stage it may be in.
LEMMA StageKeeps ==
    ASSUME QueueInv, NEW c \in DOMAIN calls, NEW s \in Stages,
           calls' = Stage(c, s),
           Honest(calls[c])',
           Grows, UNCHANGED <<rows, items, jobs, dismissed>>
    PROVE  QueueInv'
<1>1. /\ calls' \in Seq(Calls)
      /\ DOMAIN calls' = DOMAIN calls
      /\ \A d \in DOMAIN calls \ {c} : calls'[d] = calls[d]
  BY StageEffect DEF QueueInv, QueueTypeOK
<1>2. AllHonest'
  <2>1. ASSUME NEW d \in DOMAIN calls \ {c}
        PROVE  Honest(calls[d])'
    BY <1>1, SentStays DEF QueueInv, AllHonest, Honest
  <2> QED
    BY <1>1, <2>1 DEF AllHonest
<1> QED
  BY <1>1, <1>2, SentStays DEF QueueInv, QueueTypeOK

LEMMA InitKeeps == Init => QueueInv
<1> SUFFICES ASSUME Init PROVE QueueInv
  OBVIOUS
<1>1. items \in Seq(Jobs) /\ Len(items) <= MaxItems /\ DOMAIN items \subseteq Nat
  <2>1. CASE items = << >>
    BY <2>1, QueueAssumption
  <2>2. ASSUME NEW j \in Jobs, items = << j >>
        PROVE  items \in Seq(Jobs) /\ Len(items) <= MaxItems /\ DOMAIN items \subseteq Nat
    BY <2>2, QueueAssumption
  <2> QED
    BY <2>1, <2>2 DEF Init, QueueInit
<1> QED
  BY <1>1 DEF Init, QueueInit, QueueInv, QueueTypeOK, AllHonest, QueuedUntilSent

LEMMA AddKeeps ==
    ASSUME QueueInv, NEW j \in Jobs, Add(j), kind' = kind
    PROVE  QueueInv'
<1>1. /\ items' \in Seq(Jobs) /\ Len(items') = Len(items) + 1
      /\ DOMAIN items' = DOMAIN items \union {Len(items')}
      /\ \A i \in DOMAIN items : items'[i] = items[i]
  BY DEF Add, QueueInv, QueueTypeOK
<1>2. QueueTypeOK'
  <2>1. Len(items') \in Nat /\ Len(items') <= MaxItems
    BY <1>1, QueueAssumption DEF Add, QueueInv, QueueTypeOK
  <2>2. rows' \subseteq Nat
    BY <2>1 DEF Add, QueueInv, QueueTypeOK
  <2> QED
    BY <1>1, <2>1, <2>2 DEF Add, QueueInv, QueueTypeOK
<1>3. QueuedUntilSent'
  BY <1>1 DEF Add, startVars, QueueInv, QueuedUntilSent, Sent, ReadsAnswers
<1> QED
  BY <1>2, <1>3 DEF Add, startVars, QueueInv, AllHonest, Honest, Sent, ReadsAnswers

LEMMA DeleteJobKeeps ==
    ASSUME QueueInv, NEW j \in Jobs, DeleteJob(j), kind' = kind
    PROVE  QueueInv'
BY DEF DeleteJob, startVars, QueueInv, QueueTypeOK, AllHonest, Honest, QueuedUntilSent, Sent, ReadsAnswers

LEMMA PressKeeps ==
    ASSUME QueueInv, NEW t \in Tabs, Refresh(t) \/ \E i \in Ids : SendNow(t, i) \/ Remove(t, i),
           kind' = kind
    PROVE  QueueInv'
<1>1. PICK c \in Calls : calls' = Append(calls, c) /\ Honest(c)'
  <2>1. CASE Refresh(t)
    <3> DEFINE d == Call(t, "list", 0)
    <3>1. d \in Calls /\ Honest(d)'
      BY DEF Call, Calls, Stages, Honest
    <3> QED
      BY <2>1, <3>1 DEF Refresh, Press
  <2>2. ASSUME NEW i \in Ids, SendNow(t, i)
        PROVE  \E c \in Calls : calls' = Append(calls, c) /\ Honest(c)'
    <3> DEFINE d == Call(t, "send", i)
    <3>1. d \in Calls /\ Honest(d)'
      BY QueueAssumption DEF Call, Calls, Stages, Honest, Ids
    <3> QED
      BY <2>2, <3>1 DEF SendNow, Press
  <2>3. ASSUME NEW i \in Ids, Remove(t, i)
        PROVE  \E c \in Calls : calls' = Append(calls, c) /\ Honest(c)'
    <3> DEFINE d == Call(t, "remove", i)
    <3>1. d \in Calls /\ Honest(d)'
      BY <2>3, QueueAssumption DEF Remove, Call, Calls, Stages, Honest, Ids
    <3> QED
      BY <2>3, <3>1 DEF Remove, Press
  <2> QED
    BY <2>1, <2>2, <2>3
<1>2. /\ calls' \in Seq(Calls)
      /\ DOMAIN calls' = DOMAIN calls \union {Len(calls')}
      /\ \A d \in DOMAIN calls : calls'[d] = calls[d]
      /\ calls'[Len(calls')] = c
  BY <1>1 DEF QueueInv, QueueTypeOK
<1>3. /\ UNCHANGED <<rows, items, jobs, handed, printed>>
      /\ dismissed \subseteq dismissed'
  BY DEF Refresh, SendNow, Remove, startVars
<1>4. \A i : Sent(i) <=> Sent(i)'
  BY <1>3 DEF Sent, ReadsAnswers
<1>5. AllHonest'
  BY <1>1, <1>2, <1>3, <1>4 DEF QueueInv, AllHonest, Honest
<1> QED
  BY <1>2, <1>3, <1>4, <1>5 DEF QueueInv, QueueTypeOK, QueuedUntilSent

\* The calls that only move on.
LEMMA CallMoves ==
    ASSUME QueueInv, NEW c \in DOMAIN calls,
           \/ SendReaches(c) \/ Lost(c)
           \/ SendArrives(c) \/ RemoveArrives(c) \/ FailureArrives(c),
           kind' = kind
    PROVE  QueueInv'
<1>1. calls[c] \in Calls /\ Honest(calls[c])
  BY DEF QueueInv, QueueTypeOK, AllHonest
<1>2. UNCHANGED <<rows, items, jobs, handed, printed, dismissed>>
  BY DEF SendReaches, Lost, SendArrives, RemoveArrives, FailureArrives, startVars
<1>3. \E s \in Stages : calls' = Stage(c, s) /\ Honest([calls[c] EXCEPT !.stage = s])
  <2>1. CASE SendReaches(c)
    BY <1>1, <2>1 DEF SendReaches, Stages, Honest, Calls
  <2>2. CASE Lost(c)
    BY <1>1, <2>2 DEF Lost, Again, Stages, Honest, Calls
  <2>3. CASE SendArrives(c) \/ RemoveArrives(c) \/ FailureArrives(c)
    BY <1>1, <2>3 DEF SendArrives, RemoveArrives, FailureArrives, Stages, Honest, Calls
  <2> QED
    BY <2>1, <2>2, <2>3
<1>4. PICK s \in Stages : calls' = Stage(c, s) /\ Honest([calls[c] EXCEPT !.stage = s])
  BY <1>3
<1>5. /\ calls'[c].stage = s
      /\ calls'[c].op = calls[c].op
      /\ calls'[c].id = calls[c].id
  BY <1>4, StageEffect DEF QueueInv, QueueTypeOK
<1>6. \A i : Sent(i) <=> Sent(i)'
  BY <1>2 DEF Sent, ReadsAnswers
<1>7. Honest(calls[c])'
  <2>1. LET d == [calls[c] EXCEPT !.stage = s]
        IN  Honest(d) /\ d.stage = s /\ d.op = calls[c].op /\ d.id = calls[c].id
    BY <1>1, <1>4 DEF Calls
  <2> QED
    BY <1>2, <1>5, <1>6, <2>1 DEF Honest
<1> QED
  BY <1>2, <1>4, <1>7, StageKeeps DEF Grows

\* A list is read, and shown.
LEMMA ListKeeps ==
    ASSUME QueueInv, NEW c \in DOMAIN calls, ListReaches(c) \/ ListArrives(c), kind' = kind
    PROVE  QueueInv'
<1>1. calls[c] \in Calls /\ Honest(calls[c]) /\ calls[c].op = "list"
  <2>1. calls[c] \in Calls /\ Honest(calls[c])
    BY DEF QueueInv, QueueTypeOK, AllHonest
  <2> QED
    BY <2>1 DEF ListReaches, ListArrives, Honest, Calls
<1>2. PICK s \in {"done", "over"} : \E ids \in SUBSET Nat :
          calls' = [calls EXCEPT ![c].stage = s, ![c].ids = ids]
  BY DEF ListReaches, ListArrives, QueueInv, QueueTypeOK
<1>3. /\ calls' \in Seq(Calls)
      /\ DOMAIN calls' = DOMAIN calls
      /\ \A d \in DOMAIN calls \ {c} : calls'[d] = calls[d]
      /\ calls'[c].stage = s
      /\ calls'[c].op = "list"
  <2>1. PICK ids \in SUBSET Nat : calls' = [calls EXCEPT ![c].stage = s, ![c].ids = ids]
    BY <1>2
  <2> DEFINE d == [calls[c] EXCEPT !.stage = s, !.ids = ids]
  <2>2. d \in Calls /\ d.stage = s /\ d.op = "list"
    BY <1>1 DEF Calls, Stages
  <2>3. calls' = [calls EXCEPT ![c] = d]
    BY <2>1
  <2> HIDE DEF d
  <2> QED
    BY <2>2, <2>3 DEF QueueInv, QueueTypeOK
<1>4. UNCHANGED <<rows, items, jobs, handed, printed, dismissed>>
  BY DEF ListReaches, ListArrives, startVars
<1>5. \A i : Sent(i) <=> Sent(i)'
  BY <1>4 DEF Sent, ReadsAnswers
<1>6. AllHonest'
  BY <1>3, <1>4, <1>5 DEF QueueInv, AllHonest, Honest
<1> QED
  BY <1>3, <1>4, <1>5, <1>6 DEF QueueInv, QueueTypeOK, QueuedUntilSent

\* The item goes that was sent, or dismissed.
LEMMA RemoveReachesKeeps ==
    ASSUME QueueInv, NEW c \in DOMAIN calls, RemoveReaches(c), kind' = kind
    PROVE  QueueInv'
<1>1. calls[c] \in Calls /\ Honest(calls[c]) /\ calls[c].stage = "remove"
  BY DEF RemoveReaches, QueueInv, QueueTypeOK, AllHonest
<1>2. Sent(calls[c].id) \/ calls[c].id \in dismissed
  BY <1>1 DEF Honest, Calls
<1>3. /\ calls' \in Seq(Calls)
      /\ DOMAIN calls' = DOMAIN calls
      /\ \A d \in DOMAIN calls \ {c} : calls'[d] = calls[d]
      /\ calls'[c].stage = "done"
      /\ calls'[c].op = calls[c].op
      /\ calls'[c].id = calls[c].id
  BY StageEffect DEF RemoveReaches, QueueInv, QueueTypeOK, Stages
<1>4. \A i : Sent(i) <=> Sent(i)'
  BY DEF RemoveReaches, startVars, Sent, ReadsAnswers
<1>5. AllHonest'
  BY <1>1, <1>3, <1>4 DEF RemoveReaches, QueueInv, AllHonest, Honest
<1>6. QueuedUntilSent'
  BY <1>2, <1>4 DEF RemoveReaches, QueueInv, QueuedUntilSent
<1> QED
  BY <1>3, <1>5, <1>6 DEF RemoveReaches, QueueInv, QueueTypeOK

\* What the printer makes of a start only adds to the history.
LEMMA StartEffect ==
    ASSUME NEW i, Starts(i) \/ StartsNothing
    PROVE  kind' = kind /\ printed \subseteq printed' /\ (Starts(i) => i \in printed')
BY DEF Starts, StartsNothing, Becomes, statusVars

\* A send ends that its page waits for.
LEMMA SendEndsKeeps ==
    ASSUME QueueInv, NEW c \in DOMAIN calls, SendEnds(c)
    PROVE  QueueInv'
<1>1. calls[c] \in Calls /\ Honest(calls[c])
  BY DEF QueueInv, QueueTypeOK, AllHonest
<1>2. calls[c].op = "send" /\ calls[c].id \in Ids
  BY <1>1 DEF SendEnds, HandsOver, SendThrows, Honest, Calls
<1>3. Grows /\ UNCHANGED <<rows, items, jobs, dismissed>>
  BY StartEffect DEF SendEnds, HandsOver, SendThrows, Grows
<1>4. CASE HandsOver(c)
  <2>1. /\ calls'[c].stage = "sent"
        /\ calls'[c].op = calls[c].op
        /\ calls'[c].id = calls[c].id
    BY <1>4, StageEffect DEF HandsOver, QueueInv, QueueTypeOK, Stages
  <2>2. ~SendThrows(c)
    <3> SUFFICES ASSUME SendThrows(c) PROVE FALSE
      OBVIOUS
    <3>1. calls'[c].stage = "failed"
      BY StageEffect DEF SendThrows, QueueInv, QueueTypeOK, Stages
    <3> QED
      BY <2>1, <3>1
  <2>3. Starts(calls[c].id) \/ ~ReadsAnswers
    BY <2>2 DEF SendEnds
  <2>4. calls[c].id \in handed' /\ (ReadsAnswers => calls[c].id \in printed')
    BY <1>4, <2>3, StartEffect DEF HandsOver
  <2>5. Sent(calls[c].id)'
    BY <1>3, <2>1, <2>4 DEF Sent, ReadsAnswers, Grows
  <2>6. Honest(calls[c])'
    BY <1>2, <2>1, <2>5 DEF Honest
  <2> QED
    BY <1>3, <1>4, <2>6, StageKeeps DEF HandsOver, Stages
<1>5. CASE SendThrows(c)
  <2>1. /\ calls'[c].stage = "failed"
        /\ calls'[c].op = calls[c].op
        /\ calls'[c].id = calls[c].id
    BY <1>5, StageEffect DEF SendThrows, QueueInv, QueueTypeOK, Stages
  <2>2. Honest(calls[c])'
    BY <1>2, <2>1 DEF Honest
  <2> QED
    BY <1>3, <1>5, <2>2, StageKeeps DEF SendThrows, Stages
<1> QED
  BY <1>4, <1>5 DEF SendEnds

\* A send nobody waits for ends, or a start gets through late: no call moves.
LEMMA UnheardKeeps ==
    ASSUME QueueInv, NEW i \in Ids, StraySendEnds(i) \/ StartsLate(i)
    PROVE  QueueInv'
<1>1. Grows /\ UNCHANGED <<rows, items, jobs, calls, dismissed>>
  BY StartEffect DEF StraySendEnds, StrayHandsOver, StrayThrows, StrayEnds, StartsLate, Grows
<1>2. AllHonest'
  BY <1>1, SentStays DEF QueueInv, AllHonest, Honest
<1> QED
  BY <1>1, <1>2, SentStays DEF QueueInv, QueueTypeOK

LEMMA StepKeeps ==
    ASSUME QueueInv, [Next]_vars
    PROVE  QueueInv'
<1>1. CASE UNCHANGED vars \/ (StatusNext /\ UNCHANGED queueVars)
  <2>1. Grows /\ UNCHANGED <<rows, items, jobs, calls, dismissed>>
    BY <1>1, StatusGrows DEF vars, statusVars, queueVars, startVars, Grows
  <2>2. AllHonest'
    BY <2>1, SentStays DEF QueueInv, AllHonest, Honest
  <2> QED
    BY <2>1, <2>2, SentStays DEF QueueInv, QueueTypeOK
<1>2. CASE QueueSteps /\ UNCHANGED statusVars
  <2>1. kind' = kind
    BY <1>2 DEF statusVars
  <2>2. ASSUME NEW j \in Jobs, Add(j) \/ DeleteJob(j)
        PROVE  QueueInv'
    BY <2>1, <2>2, AddKeeps, DeleteJobKeeps
  <2>3. ASSUME NEW t \in Tabs, Refresh(t) \/ \E i \in Ids : SendNow(t, i) \/ Remove(t, i)
        PROVE  QueueInv'
    BY <2>1, <2>3, PressKeeps
  <2>4. ASSUME NEW c \in DOMAIN calls, ListReaches(c) \/ ListArrives(c)
        PROVE  QueueInv'
    BY <2>1, <2>4, ListKeeps
  <2>5. ASSUME NEW c \in DOMAIN calls, RemoveReaches(c)
        PROVE  QueueInv'
    BY <2>1, <2>5, RemoveReachesKeeps
  <2>6. ASSUME NEW c \in DOMAIN calls,
               \/ SendReaches(c) \/ Lost(c)
               \/ SendArrives(c) \/ RemoveArrives(c) \/ FailureArrives(c)
        PROVE  QueueInv'
    BY <2>1, <2>6, CallMoves
  <2> QED
    BY <1>2, <2>2, <2>3, <2>4, <2>5, <2>6 DEF QueueSteps
<1>3. ASSUME NEW c \in DOMAIN calls, SendEnds(c)
      PROVE  QueueInv'
  BY <1>3, SendEndsKeeps
<1>4. ASSUME NEW i \in Ids, StraySendEnds(i) \/ StartsLate(i)
      PROVE  QueueInv'
  BY <1>4, UnheardKeeps
<1> QED
  BY <1>1, <1>2, <1>3, <1>4 DEF Next

\* What the calls of a print queue have behind them.
THEOREM QueueInvariant == Spec => []QueueInv
BY InitKeeps, StepKeeps, PTL DEF Spec

\* An item leaves the queue when it was sent, when a user removed it or with its job;
\* never because a send failed or an answer was lost (PrintQueueSection.tsx). Sent means
\* uploaded and its start handed over without an error and, with Bambuddy, started.
THEOREM QueuedUntilSentAlways == Spec => []QueuedUntilSent
<1>1. QueueInv => QueuedUntilSent
  BY DEF QueueInv
<1> QED
  BY <1>1, QueueInvariant, PTL
=============================================================================
