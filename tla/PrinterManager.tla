--------------------------- MODULE PrinterManager ---------------------------
(***************************************************************************)
(* The printer manager and the routes that drive it: start, stop, retry,   *)
(* rotation and reconnect of the adapter of one printer (all its maps are  *)
(* keyed by printer).                                                      *)
(*                                                                         *)
(* An action runs from one await to the next.  disconnect() of a web       *)
(* socket adapter awaits nothing, so what follows it belongs to the same   *)
(* step; that of a Bambu adapter awaits the end of its MQTT client.  The   *)
(* length of the retry delay and the count of network failures, which is   *)
(* only logged, are left out.                                              *)
(***************************************************************************)
EXTENDS PrinterLinks

CONSTANTS
    Calls,                   \* pool of calls of the manager in progress
    MaxConsecutiveRetries    \* MAX_CONSECUTIVE_RETRIES

ASSUME ManagerAssumption == MaxConsecutiveRetries \in Nat

VARIABLES
    row,       \* the row of printers: "none", "present", "gone"
    mode,      \* the adapter class its columns ask for
    current,   \* adapters.get(id)
    timer,     \* retryTimers.has(id)
    count,     \* retryCounts, capped one above the limit
    gaveUp,    \* the manager gave up since the last start (history)
    aged,      \* adapterStartedAt is more than ADAPTER_ROTATE_MS ago
    call,      \* where each call is suspended
    waiting    \* calls of reconnectWithResult that still wait for an event

managerVars == <<row, mode, current, timer, count, gaveUp, aged, call, waiting>>
vars == <<link, managerVars>>

\* "replacing": startAdapter awaits the disconnect of the old adapter;
\* "connecting": it awaits connect(); "stopping": stopAdapter awaits disconnect.
Place == {"idle", "replacing", "connecting", "stopping"}
Sequel == {"none", "return", "delete", "start", "ask"}

Call == [at : Place, adapter : Adapters \cup {NoAdapter},
         kind : Kind \cup {"none"}, sequel : Sequel]

Idle == [at |-> "idle", adapter |-> NoAdapter, kind |-> "none",
         sequel |-> "none"]

\* The one type invariant.
TypeOK ==
    /\ link \in [Adapters -> Link]
    /\ row \in {"none", "present", "gone"}
    /\ mode \in Kinds
    /\ current \in Adapters \cup {NoAdapter}
    /\ timer \in BOOLEAN
    /\ count \in 0..(MaxConsecutiveRetries + 1)
    /\ gaveUp \in BOOLEAN
    /\ aged \in BOOLEAN
    /\ call \in [Calls -> Call]
    /\ waiting \subseteq Calls

Init ==
    /\ link = [a \in Adapters |-> Unused]
    /\ row = "none"
    /\ mode \in Kinds
    /\ current = NoAdapter
    /\ timer = FALSE
    /\ count = 0
    /\ gaveUp = FALSE
    /\ aged = FALSE
    /\ call = [c \in Calls |-> Idle]
    /\ waiting = {}

\* What the map entry cur and the calls cs refer to.
Held(cs, cur) == {cur} \cup {cs[c].adapter : c \in Calls}

\* The protocol of a printer never changes, its connection mode may.
SameProtocol(k) == k = "moonraker" <=> mode = "moonraker"

----------------------------------------------------------------------------
(* startAdapter *)

\* From clearRetry to connect(): the links are L once the map has no entry.
Create(c, k, L) ==
    LET others == [call EXCEPT ![c] = Idle]
        K == Collected(L, Held(others, NoAdapter))
    IN \E a \in Adapters :
        /\ K[a] = Unused
        /\ link' = [K EXCEPT ![a] = Fresh(k)]
        /\ current' = a
        /\ timer' = FALSE
        /\ gaveUp' = FALSE
        /\ aged' = FALSE
        /\ call' = [call EXCEPT ![c] = [at |-> "connecting", adapter |-> a,
                                        kind |-> k, sequel |-> "none"]]

\* Mutant: the old adapter is dropped from the map, not disconnected.
StartAdapterForgetsOld(c, k, t) ==
    Create(c, k, link) /\ UNCHANGED waiting

\* startAdapter(p) up to its first await.  t: the timer if it waits.
StartAdapter(c, k, t) ==
    \/ /\ current = NoAdapter
       /\ Create(c, k, link)
       /\ UNCHANGED waiting
    \/ /\ current # NoAdapter
       /\ ~EndsSlowly(link[current])
       /\ Create(c, k, [link EXCEPT ![current] = Told(@)])
       /\ waiting' = {}
    \/ /\ current # NoAdapter
       /\ EndsSlowly(link[current])
       /\ link' = [link EXCEPT ![current] = Ending(@)]
       /\ call' = [call EXCEPT ![c] = [at |-> "replacing", adapter |-> current,
                                       kind |-> k, sequel |-> "none"]]
       /\ timer' = t
       /\ UNCHANGED <<current, gaveUp, aged, waiting>>

----------------------------------------------------------------------------
(* stopAdapter and what its callers do next *)

\* The map entry goes, whichever adapter it holds by now.  L, w: the links and
\* the waiting calls after disconnect(); t: the retry timer.
AfterStop(c, sequel, k, L, w, t) ==
    \/ /\ sequel \in {"return", "delete"}
       /\ row' = IF sequel = "delete" /\ row = "present" THEN "gone" ELSE row
       /\ current' = NoAdapter
       /\ aged' = FALSE
       /\ timer' = t
       /\ call' = [call EXCEPT ![c] = Idle]
       /\ link' = Collected(L, Held(call', NoAdapter))
       /\ waiting' = w
       /\ UNCHANGED gaveUp
    \/ /\ sequel \in {"start", "ask"}
       /\ Create(c, k, L)
       /\ waiting' = IF sequel = "ask" THEN w \cup {c} ELSE w
       /\ UNCHANGED row

\* stopAdapter(id) up to its await, or to the end of the call.
StopAdapter(c, sequel, k) ==
    \/ /\ current = NoAdapter
       /\ AfterStop(c, sequel, k, link, waiting, FALSE)
    \/ /\ current # NoAdapter
       /\ ~EndsSlowly(link[current])
       /\ AfterStop(c, sequel, k, [link EXCEPT ![current] = Told(@)], {}, FALSE)
    \/ /\ current # NoAdapter
       /\ EndsSlowly(link[current])
       /\ link' = [link EXCEPT ![current] = Ending(@)]
       /\ call' = [call EXCEPT ![c] = [at |-> "stopping", adapter |-> current,
                                       kind |-> k, sequel |-> sequel]]
       /\ timer' = FALSE
       /\ UNCHANGED <<row, current, gaveUp, aged, waiting>>

----------------------------------------------------------------------------
(* Requests *)

\* POST /api/printers; init() does the same for a row it finds.
Register(c) ==
    /\ row = "none"
    /\ call[c] = Idle
    /\ row' = "present"
    /\ StartAdapter(c, mode, timer)
    /\ UNCHANGED <<mode, count>>

\* PATCH /api/printers/:id with a connection field: reconnect(id).
Patch(c, k) ==
    /\ row = "present"
    /\ call[c] = Idle
    /\ SameProtocol(k)
    /\ mode' = k
    /\ StopAdapter(c, "start", k)
    /\ UNCHANGED count

\* POST /api/printers/:id/reconnect: reconnectWithResult(id).
Reconnect(c) ==
    /\ row = "present"
    /\ call[c] = Idle
    /\ StopAdapter(c, "ask", mode)
    /\ UNCHANGED <<mode, count>>

\* POST /api/printers/:id/disconnect.
Disconnect(c) ==
    /\ call[c] = Idle
    /\ StopAdapter(c, "return", mode)
    /\ UNCHANGED <<mode, count>>

\* DELETE /api/printers/:id.
Delete(c) ==
    /\ call[c] = Idle
    /\ StopAdapter(c, "delete", mode)
    /\ UNCHANGED <<mode, count>>

\* The six seconds of reconnectWithResult are over.
ReplyTimesOut(c) ==
    /\ c \in waiting
    /\ waiting' = waiting \ {c}
    /\ UNCHANGED <<link, row, mode, current, timer, count, gaveUp, aged, call>>

----------------------------------------------------------------------------
(* Timers of the manager *)

\* Mutant: the retry uses the row it was scheduled with.
RetryFiresUnchecked(c) ==
    /\ timer
    /\ call[c] = Idle
    /\ StartAdapter(c, mode, FALSE)
    /\ UNCHANGED <<row, mode, count>>

\* The timer of scheduleRetry reads the row again.
RetryFires(c) ==
    /\ timer
    /\ call[c] = Idle
    /\ IF row = "present"
       THEN StartAdapter(c, mode, FALSE) /\ UNCHANGED <<row, mode, count>>
       ELSE /\ timer' = FALSE
            /\ UNCHANGED <<link, row, mode, current, count, gaveUp, aged, call,
                           waiting>>

\* Six hours pass for the adapter in the map.
Ages ==
    /\ current # NoAdapter
    /\ ~aged
    /\ aged' = TRUE
    /\ UNCHANGED <<link, row, mode, current, timer, count, gaveUp, call, waiting>>

\* rotateStaleAdapters leaves alone what reports to be connected.
Rotate(c) ==
    /\ current # NoAdapter
    /\ aged
    /\ call[c] = Idle
    /\ ~(link[current].reported /\ link[current].sock = "open")
    /\ row = "present"
    /\ StartAdapter(c, mode, timer)
    /\ UNCHANGED <<row, mode, count>>

----------------------------------------------------------------------------
(* Connection events, and the call that awaits one *)

Awaiting(a) == {c \in Calls : call[c].at = "connecting" /\ call[c].adapter = a}

\* The calls of C return, adapter a goes on as l.
Resume(a, l, C) ==
    /\ call' = [c \in Calls |-> IF c \in C THEN Idle ELSE call[c]]
    /\ link' = Collected([link EXCEPT ![a] = l], Held(call', current))
    /\ UNCHANGED <<row, mode, current, aged>>

\* Mutant: off by one, the last failure is neither retried nor given up.
RetryAfterShort(C) ==
    IF C = {} THEN UNCHANGED <<timer, count, gaveUp>>
    ELSE LET n == count + 1 IN
         /\ count' = IF n > MaxConsecutiveRetries
                     THEN MaxConsecutiveRetries + 1 ELSE n
         /\ gaveUp' = (gaveUp \/ n > MaxConsecutiveRetries)
         /\ timer' = (timer \/ n < MaxConsecutiveRetries)

\* The catch of startAdapter, for the calls C whose connect() is rejected.
RetryAfter(C) ==
    IF C = {} THEN UNCHANGED <<timer, count, gaveUp>>
    ELSE LET n == count + 1 IN
         /\ count' = IF n > MaxConsecutiveRetries
                     THEN MaxConsecutiveRetries + 1 ELSE n
         /\ gaveUp' = (gaveUp \/ n > MaxConsecutiveRetries)
         /\ timer' = (timer \/ n <= MaxConsecutiveRetries)

\* A connection is established, whoever still wants it.
Opens(a) ==
    /\ link[a].sock \in Trying
    /\ Resume(a, Opened(link[a]), Awaiting(a))
    /\ count' = IF Awaiting(a) = {} THEN count ELSE 0
    /\ waiting' = {}
    /\ UNCHANGED <<timer, gaveUp>>

\* An attempt ends in an error.
Fails(a) ==
    /\ link[a].sock \in Trying
    /\ Resume(a, Lost(link[a]), Awaiting(a))
    /\ RetryAfter(Awaiting(a))
    /\ waiting' = {}

\* bambuddy refuses the token; only connect() tells anybody.
MintFails(a) ==
    /\ link[a].kind = "bambuddy"
    /\ link[a].sock \in Trying
    /\ Resume(a, MintFailed(link[a]), Awaiting(a))
    /\ RetryAfter(Awaiting(a))
    /\ waiting' = IF Awaiting(a) = {} THEN waiting ELSE {}

\* The hard timeout of connect().
TimesOut(a) ==
    /\ HasTimeout(link[a])
    /\ Resume(a, TimedOut(link[a]), Awaiting(a))
    /\ RetryAfter(Awaiting(a))
    /\ waiting' = {}

\* An established connection is lost.
Drops(a) ==
    /\ link[a].sock = "open"
    /\ Resume(a, Lost(link[a]), {})
    /\ waiting' = {}
    /\ UNCHANGED <<timer, count, gaveUp>>

\* The reconnect timer of a web socket adapter.
Heals(a) ==
    /\ link[a].heal
    /\ Resume(a, Reopened(link[a]), {})
    /\ UNCHANGED <<timer, count, gaveUp, waiting>>

\* The close event of a socket that disconnect() terminated.
Closed(a) ==
    /\ link[a].kind # "bambu"
    /\ link[a].sock = "closing"
    /\ Resume(a, Lost(link[a]), {})
    /\ waiting' = {}
    /\ UNCHANGED <<timer, count, gaveUp>>

\* endAsync returns to the call that awaits it, and that call goes on.
Ended(a) ==
    LET over == [link EXCEPT ![a].sock = "none", ![a].client = FALSE] IN
    /\ link[a].kind = "bambu"
    /\ link[a].sock = "closing"
    /\ \E c \in Calls :
        /\ call[c].adapter = a
        /\ \/ /\ call[c].at = "stopping"
              /\ AfterStop(c, call[c].sequel, call[c].kind, over, {}, timer)
           \/ /\ call[c].at = "replacing"
              /\ Create(c, call[c].kind, over)
              /\ waiting' = {}
              /\ UNCHANGED row
    /\ UNCHANGED <<mode, count>>

\* The first status report.
Reports(a) ==
    /\ link[a].sock = "open"
    /\ ~link[a].reported
    /\ Resume(a, [link[a] EXCEPT !.reported = TRUE], {})
    /\ UNCHANGED <<timer, count, gaveUp, waiting>>

----------------------------------------------------------------------------
Request(c) ==
    \/ Register(c)
    \/ \E k \in Kinds : Patch(c, k)
    \/ Reconnect(c)
    \/ Disconnect(c)
    \/ Delete(c)

Network(a) ==
    \/ Opens(a)
    \/ Fails(a)
    \/ MintFails(a)
    \/ Drops(a)
    \/ Closed(a)
    \/ Ended(a)
    \/ Reports(a)

Next ==
    \/ Ages
    \/ \E c \in Calls : Request(c) \/ ReplyTimesOut(c) \/ RetryFires(c) \/ Rotate(c)
    \/ \E a \in Adapters : Network(a) \/ TimesOut(a) \/ Heals(a)

Spec == Init /\ [][Next]_vars

----------------------------------------------------------------------------
(* Properties *)

\* Every adapter of the printer is one whose disconnect() awaits nothing.
WebSockets == mode = "moonraker" \/ "bambu" \notin Kinds

\* A printer in the map whose adapter can do nothing by itself is retried by
\* the manager, unless it gave up (printer-manager.ts:13-17, 25-31), however
\* the failures of overlapping starts, stops and reconnects are interleaved.
NoForgottenPrinter ==
    /\ row = "present"
    /\ current # NoAdapter
    /\ Dead(link[current])
    /\ \A c \in Calls : call[c] = Idle
    => timer \/ gaveUp

\* With web socket adapters, nothing brings a deleted printer back: not a
\* retry armed by a connect that was in flight, nor a rotation.
DeletedStaysGone == (WebSockets /\ row = "gone") => current = NoAdapter

\* With web socket adapters, every adapter but the one in the map was told to
\* disconnect: overlapping requests never lose one (startAdapter, stopAdapter).
OrphansAreTold ==
    WebSockets =>
        \A a \in Adapters : link[a] # Unused /\ a # current => link[a].told

\* An adapter told to disconnect never reconnects by itself, whatever it was
\* doing at that moment (disconnect of the web socket adapters).
ToldNeverHeals == \A a \in Adapters : link[a].told => ~link[a].heal

\* A call that awaits connect() awaits an attempt of its own with the hard
\* timeout still pending, so it returns however silent the printer is, even when
\* other requests have replaced or stopped its adapter meanwhile.
ConnectReturns ==
    \A c \in Calls : call[c].at = "connecting" =>
        /\ link[call[c].adapter].sock = "opening"
        /\ Awaiting(call[c].adapter) = {c}

\* While reconnectWithResult waits its attempt is in flight: the attempt's own
\* event, if no other, answers it (startAdapter never throws past line 116).
AnswerComes == \A c \in waiting : call[c].at = "connecting"

=============================================================================
