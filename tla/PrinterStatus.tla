---------------------------- MODULE PrinterStatus ---------------------------
(* How an adapter's idea of its printer follows the printer: the snapshot it   *)
(* asks for when its connection opens, the partial reports it merges, the      *)
(* polling of filament slots beside the socket (MoonrakerAdapter), the         *)
(* watchdog that ends a half-open connection. One adapter whose first          *)
(* connection is up; PrinterLinks has the life of connections.                 *)
EXTENDS Naturals, Sequences, Functions

CONSTANTS Kinds,       \* classes of adapter
          Unknown,     \* a field no report had
          MaxChanges,  \* bound: changes of the printer by itself
          MaxDrops     \* bound: connections that break

VARIABLES kind,
          truth,       \* what the printer would report: version of each field
          changes, drops,
          link,        \* "open", "half" (silent for good), "down"
          asked,       \* the request for a snapshot is under way
          listed,      \* the printer reports its changes on this connection
          inbox,       \* reports under way on it
          connection,  \* "connected" or "disconnected"
          kept,        \* objects and filamentSlots, lastReport and cachedAms, or status
          status,      \* getStatus() is not null
          chains,      \* Moonraker's polling: [stage, slots] of each chain of ticks
          timer        \* filamentTimer is set

printerVars == <<truth, changes>>
linkVars == <<link, drops, asked, listed, inbox, connection>>
pollVars == <<chains, timer>>
statusVars == <<kind, printerVars, linkVars, kept, status, pollVars>>

Fields == {"job", "temp", "slots"}

\* The fields a socket of this kind reports: Moonraker's slots are asked over HTTP.
Pushed == IF kind = "moonraker" THEN {"job", "temp"} ELSE Fields

Chain(stage, slots) == [stage |-> stage, slots |-> slots]

\* startFilamentPolling: a new chain of ticks, unless one has set the timer.
Polling == IF kind = "moonraker" /\ ~timer THEN Append(chains, Chain("asking", Unknown)) ELSE chains

StatusInit ==
    /\ kind \in Kinds
    /\ truth = [f \in Fields |-> 0] /\ changes = 0 /\ drops = 0
    /\ link = "open" /\ listed = FALSE /\ inbox = <<>>
    /\ asked = TRUE
    /\ connection = "connected" /\ kept = [f \in Fields |-> Unknown] /\ status = FALSE
    /\ chains = IF kind = "moonraker" THEN <<Chain("asking", Unknown)>> ELSE <<>>
    /\ timer = FALSE

-----------------------------------------------------------------------------
(* The printer                                                                 *)

\* Reports of the changed fields reach a connection that is listed; bambuddy
\* always sends them all.
Report(t, fs) ==
    IF link = "open" /\ listed /\ fs # {}
    THEN Append(inbox, Restrict(t, IF kind = "bambuddy" THEN Fields ELSE fs)) ELSE inbox

\* The fields fs get the values of t.
Becomes(t, fs) ==
    /\ truth' = t
    /\ inbox' = Report(t, fs \intersect Pushed)
    /\ UNCHANGED <<kind, link, drops, asked, listed, connection, kept, status, pollVars>>

Changes(f) ==
    /\ changes < MaxChanges /\ changes' = changes + 1
    /\ Becomes([truth EXCEPT ![f] = @ + 1], {f})

\* The snapshot; a Bambu printer sends its spools apart from the rest.
Answer ==
    /\ asked /\ link = "open"
    /\ asked' = FALSE /\ listed' = TRUE
    /\ inbox' = IF kind = "bambu"
                THEN inbox \o <<Restrict(truth, {"job", "temp"}), Restrict(truth, {"slots"})>>
                ELSE Append(inbox, Restrict(truth, Pushed))
    /\ UNCHANGED <<kind, printerVars, link, drops, connection, kept, status, pollVars>>

-----------------------------------------------------------------------------
(* The connection                                                              *)

\* Nothing passes any more, and no close event says so.
FallSilent ==
    /\ link = "open" /\ drops < MaxDrops
    /\ link' = "half" /\ drops' = drops + 1 /\ inbox' = <<>>
    /\ UNCHANGED <<kind, printerVars, asked, listed, connection, kept, status, pollVars>>

\* 'close': by the peer, or by the watchdog when it has missed its pongs. What is
\* kept stays, and is told again as disconnected.
Closed ==
    /\ \/ link = "open" /\ drops < MaxDrops /\ drops' = drops + 1
       \/ link = "half" /\ drops' = drops
    /\ link' = "down" /\ asked' = FALSE /\ listed' = FALSE /\ inbox' = <<>>
    /\ connection' = "disconnected"
    /\ UNCHANGED <<kind, printerVars, kept, status, pollVars>>

\* 'open' of a reconnect: what is kept is told again as connected, and the snapshot
\* asked for. bambuddy sends one by itself.
Opens ==
    /\ link = "down"
    /\ link' = "open" /\ connection' = "connected"
    /\ asked' = TRUE
    /\ chains' = Polling
    /\ UNCHANGED <<kind, printerVars, drops, listed, inbox, kept, status, timer>>

-----------------------------------------------------------------------------
(* Reports                                                                     *)

\* Mutant: a report takes the place of the one before (handleReport as it was).
MergedShallow(r) == [f \in Fields |-> IF f \in DOMAIN r THEN r[f] ELSE
                                      IF f = "slots" THEN kept[f] ELSE Unknown]

\* mergeObjects, handleReport, applyStatus: fields a report leaves out stay.
Merged(r) == [f \in Fields |-> IF f \in DOMAIN r THEN r[f] ELSE kept[f]]

Receive ==
    /\ inbox # <<>>
    /\ kept' = Merged(Head(inbox)) /\ status' = TRUE
    /\ inbox' = Tail(inbox)
    /\ UNCHANGED <<kind, printerVars, link, drops, asked, listed, connection, pollVars>>

-----------------------------------------------------------------------------
(* Polling of filament slots, whatever the socket does                         *)

\* The printer reads its slots for a tick.
TickRead(i) ==
    /\ chains[i].stage = "asking" /\ link # "down"
    /\ chains' = [chains EXCEPT ![i] = Chain("answered", truth.slots)]
    /\ UNCHANGED <<kind, printerVars, linkVars, kept, status, timer>>

\* The answers of two chains arrive in any order; one without news tells nobody.
TickArrives(i) ==
    /\ chains[i].stage = "answered"
    /\ kept' = [kept EXCEPT !.slots = chains[i].slots]
    /\ status' = (status \/ kept' # kept)
    /\ chains' = [chains EXCEPT ![i].stage = "waiting"] /\ timer' = TRUE
    /\ UNCHANGED <<kind, printerVars, linkVars>>

\* The request is refused, lost, or times out.
TickFails(i) ==
    /\ chains[i].stage = "asking" /\ link # "open"
    /\ chains' = [chains EXCEPT ![i].stage = "waiting"] /\ timer' = TRUE
    /\ UNCHANGED <<kind, printerVars, linkVars, kept, status>>

Tick(i) ==
    /\ chains[i].stage = "waiting"
    /\ chains' = [chains EXCEPT ![i].stage = "asking"]
    /\ UNCHANGED <<kind, printerVars, linkVars, kept, status, timer>>

StatusSteps ==
    \/ Answer \/ FallSilent \/ Closed \/ Opens \/ Receive
    \/ \E i \in DOMAIN chains : TickRead(i) \/ TickArrives(i) \/ TickFails(i) \/ Tick(i)

StatusNext == StatusSteps \/ \E f \in Fields : Changes(f)

\* Timers fire, a printer answers, a socket delivers what it accepted, and the
\* watchdog (or MQTT's keep-alive) ends a connection that fell silent.
StatusFairness ==
    /\ WF_statusVars(Answer) /\ WF_statusVars(Receive) /\ WF_statusVars(Opens)
    /\ WF_statusVars(link = "half" /\ Closed)
    /\ \A i \in 1..(MaxDrops + 1) :
          /\ WF_statusVars(i \in DOMAIN chains /\ Tick(i))
          /\ WF_statusVars(i \in DOMAIN chains /\ (TickRead(i) \/ TickFails(i)))
          /\ WF_statusVars(i \in DOMAIN chains /\ TickArrives(i))
=============================================================================
