------------------------------ MODULE PrinterPage ---------------------------
(* One printer on a page of the web client: the state the server knows, the    *)
(* events it sends, and a page that loads a list and listens to the stream     *)
(* (HomeDashboard, PrinterDetail, PrinterDashboard). The stream delivers in    *)
(* order and loses everything while it is down; a list answer comes when it    *)
(* comes.                                                                      *)
EXTENDS Session, Sequences, FiniteSets

CONSTANTS Pages,      \* which of "home", "detail", "manage"
          MaxChanges, \* bound: changes of the printer
          MaxDrops,   \* bound: failures of the stream
          MaxLoads    \* bound: lists asked for

VARIABLES page,    \* the page that is open
          live,    \* adapter.getStatus(): [conn, n]; Silent while null, NoStatus without adapter
          shown,   \* what the page shows
          stream,  \* EventSource: "closed" | "connecting" | "open"
          opened,  \* firstOpen is FALSE
          wire,    \* events sent and not yet received
          loads,   \* list requests: Asked, or the status in the answer
          asks,    \* lists asked for
          changes, drops,
          missed   \* an event was sent to nobody and no list was read since

pageVars == <<page, live, shown, stream, opened, wire, loads, asks, changes, drops, missed>>
bounds == <<asks, changes, drops>>

NoStatus == [conn |-> "none", n |-> 0]
Silent == [conn |-> "silent", n |-> 0] \* an adapter without a report: null as well
Asked == [conn |-> "asked", n |-> 0]  \* a list request nobody has answered

PageInit ==
    /\ page \in Pages
    /\ live \in {NoStatus, [conn |-> "connected", n |-> 0]} /\ shown = NoStatus
    /\ stream = "closed" /\ opened = FALSE
    /\ wire = <<>> /\ loads = <<>>
    /\ asks = 0 /\ changes = 0 /\ drops = 0
    /\ missed = FALSE

PageUnmounted ==
    /\ shown' = NoStatus /\ stream' = "closed" /\ opened' = FALSE
    /\ wire' = <<>> /\ loads' = <<>>
    /\ UNCHANGED <<page, live, bounds, missed>>

\* The mount effects: one list, one stream.
PageMounted ==
    /\ shown' = NoStatus /\ stream' = "connecting" /\ opened' = FALSE
    /\ wire' = <<>> /\ loads' = <<Asked>> /\ asks' = 0
    /\ UNCHANGED <<page, live, changes, drops, missed>>

\* loadPrinter, refresh; a repetition of a request nobody has read yet adds nothing.
Load ==
    IF Asked \in {loads[i] : i \in DOMAIN loads} \/ asks = MaxLoads THEN UNCHANGED <<loads, asks>>
    ELSE loads' = Append(loads, Asked) /\ asks' = asks + 1
NoLoad == UNCHANGED <<loads, asks>>

-----------------------------------------------------------------------------
(* The server                                                                  *)

\* eventBus.emit writes to the subscribed clients, there is no replay.
Emit(events) ==
    IF stream = "open" THEN wire' = wire \o events /\ UNCHANGED missed
    ELSE missed' = TRUE /\ UNCHANGED wire

Server == UNCHANGED <<page, shown, stream, opened, loads, asks, drops, sessionVars>>

\* setConnection tells the listeners of the connection, then those of the status;
\* a report of the printer is a status alone. An adapter that has had no report
\* yet has no status to tell.
Change(conn) ==
    /\ changes < MaxChanges /\ live # NoStatus
    /\ changes' = changes + 1
    /\ LET new == [conn |-> conn, n |-> changes + 1]
           told == [type |-> conn, v |-> new]
           status == [type |-> "status", v |-> new]
       IN \/ live # Silent /\ conn # live.conn /\ live' = new /\ Emit(<<told, status>>)
          \/ live # Silent /\ conn = live.conn /\ live' = new /\ Emit(<<status>>)
          \/ live = Silent /\ live' = Silent /\ Emit(<<told>>)
          \/ live = Silent /\ conn = "connected" /\ live' = new /\ Emit(<<status>>)
    /\ Server

\* stopAdapter: the adapter says that it is disconnected and leaves the map.
Stop ==
    /\ changes < MaxChanges /\ live # NoStatus
    /\ changes' = changes + 1
    /\ live' = NoStatus
    /\ LET down == [conn |-> "disconnected", n |-> changes + 1]
       IN Emit(<<[type |-> "disconnected", v |-> down]>>
               \o IF live = Silent THEN <<>> ELSE <<[type |-> "status", v |-> down]>>)
    /\ Server

\* startAdapter: a new adapter, connected.
Start ==
    /\ changes < MaxChanges /\ live = NoStatus
    /\ changes' = changes + 1
    /\ live' = Silent
    /\ Emit(<<[type |-> "connected", v |-> Silent]>>)
    /\ Server

-----------------------------------------------------------------------------
(* The page                                                                    *)

\* Mutant: the page trusts its stream to have lost nothing.
StreamOpensTrusting ==
    /\ stream = "connecting" /\ gate = "ready" /\ Admitted
    /\ stream' = "open" /\ opened' = TRUE
    /\ NoLoad
    /\ UNCHANGED <<page, live, shown, wire, changes, drops, missed, sessionVars>>

\* onopen: the first time the list of the mount is enough; PrinterDashboard has no
\* onopen at all.
StreamOpens ==
    /\ stream = "connecting" /\ gate = "ready" /\ Admitted
    /\ stream' = "open" /\ opened' = TRUE
    /\ IF opened /\ page # "manage" THEN Load ELSE NoLoad
    /\ UNCHANGED <<page, live, shown, wire, changes, drops, missed, sessionVars>>

\* onerror: the stream is opened anew after two seconds (by the browser itself on
\* PrinterDashboard), and what was on the wire is gone.
StreamDrops ==
    /\ stream = "open" /\ drops < MaxDrops
    /\ stream' = "connecting" /\ drops' = drops + 1
    /\ missed' = (missed \/ wire # <<>>) /\ wire' = <<>>
    /\ UNCHANGED <<page, live, shown, opened, loads, asks, changes, sessionVars>>

\* The handshake gets a 401, which EventSource does not tell; probeAuthOnSSEError
\* asks /api/auth/status, which answers everybody.
ProbeAfterError ==
    /\ stream = "connecting" /\ gate = "ready" /\ ~Admitted
    /\ UNCHANGED <<pageVars, sessionVars>>

Receive ==
    /\ stream = "open" /\ wire # <<>>
    /\ wire' = Tail(wire)
    /\ LET e == Head(wire)
       IN /\ shown' = IF e.type = "status" THEN e.v
                      ELSE IF page = "detail" /\ shown # NoStatus THEN [shown EXCEPT !.conn = e.type]
                      ELSE shown
          /\ IF (e.type = "connected" /\ page # "home") \/ (e.type = "disconnected" /\ page = "manage")
             THEN Load ELSE NoLoad
    /\ UNCHANGED <<page, live, stream, opened, changes, drops, missed, sessionVars>>

\* GET /api/printers.
LoadRead(i) ==
    /\ gate = "ready" /\ loads[i] = Asked /\ Admitted
    /\ loads' = [loads EXCEPT ![i] = IF live = Silent THEN NoStatus ELSE live] /\ missed' = FALSE
    /\ UNCHANGED <<page, live, shown, stream, opened, wire, bounds, sessionVars>>
LoadRefused(i) ==
    /\ gate = "ready" /\ loads[i] = Asked /\ ~Admitted
    /\ Unauthorized /\ PageUnmounted

\* PrinterDetail keeps what it shows if the list has no status.
LoadArrives(i) ==
    /\ loads[i] # Asked
    /\ loads' = SubSeq(loads, 1, i - 1) \o SubSeq(loads, i + 1, Len(loads))
    /\ shown' = IF page = "detail" /\ loads[i] = NoStatus THEN shown ELSE loads[i]
    /\ UNCHANGED <<page, live, stream, opened, wire, bounds, missed, sessionVars>>

PageNext ==
    \/ Change("connected") \/ Change("disconnected") \/ Stop \/ Start
    \/ StreamOpens \/ StreamDrops \/ ProbeAfterError \/ Receive
    \/ \E i \in DOMAIN loads : LoadRead(i) \/ LoadRefused(i) \/ LoadArrives(i)

PageFairness ==
    /\ WF_<<pageVars, sessionVars>>(StreamOpens) /\ WF_<<pageVars, sessionVars>>(Receive)
    /\ WF_<<pageVars, sessionVars>>(\E i \in DOMAIN loads : LoadRead(i) \/ LoadRefused(i) \/ LoadArrives(i))
=============================================================================
