---------------------------- MODULE PrinterLinks ----------------------------
(***************************************************************************)
(* The connections of the adapters of one printer: MoonrakerAdapter (web   *)
(* socket), BambuddyAdapter (token request, then web socket) and           *)
(* BambuAdapter (an MQTT client that reconnects by itself).                *)
(*                                                                         *)
(* An adapter is an object: it may live on, with its socket and its        *)
(* timers, after the manager has dropped it.  Adapters is the pool of      *)
(* objects; one that nothing refers to and that can do nothing any more is *)
(* Unused again.  Messages, status reports and keep-alives are left out    *)
(* but for the fact that a first report has come.                          *)
(***************************************************************************)
EXTENDS Naturals, FiniteSets

CONSTANTS
    Adapters,    \* pool of adapter objects
    NoAdapter,   \* undefined
    Kinds        \* classes of adapter the printer may be configured for

Kind == {"moonraker", "bambu", "bambuddy"}

ASSUME LinksAssumption ==
    /\ NoAdapter \notin Adapters
    /\ Kinds \subseteq Kind
    /\ Kinds # {}

VARIABLE link    \* the state of each adapter

\* "opening": the attempt a connect() of the manager awaits; "late": an attempt
\* whose hard timeout has passed; "reopening": an attempt the adapter, or the
\* MQTT client, makes by itself; "closing": the socket is terminated and its
\* close event yet to come, or endAsync is awaited.
Sock == {"none", "opening", "late", "reopening", "open", "closing"}

Link == [kind : Kind \cup {"none"},
         sock : Sock,
         heal : BOOLEAN,       \* reconnectTimer is set
         told : BOOLEAN,       \* disconnect() was called (destroyed)
         client : BOOLEAN,     \* BambuAdapter.client is set
         reported : BOOLEAN]   \* getStatus() is not null

Unused == [kind |-> "none", sock |-> "none", heal |-> FALSE, told |-> FALSE,
           client |-> FALSE, reported |-> FALSE]

\* A new adapter whose connect() has been called.
Fresh(k) == [Unused EXCEPT !.kind = k, !.sock = "opening"]

Trying == {"opening", "late", "reopening"}

\* Nothing will ever happen on this adapter.
Dead(l) == l.sock = "none" /\ ~l.heal

\* The links L once the dead adapters outside "held" are forgotten.
Collected(L, held) ==
    [a \in Adapters |-> IF Dead(L[a]) /\ a \notin held THEN Unused ELSE L[a]]

----------------------------------------------------------------------------
(* disconnect() *)

\* BambuAdapter.disconnect awaits endAsync when it knows its client; a second
\* end of the same client returns at once.
EndsSlowly(l) == l.kind = "bambu" /\ l.client /\ l.sock # "closing"

\* Mutant: a handshake in progress is aborted and its promise never settles.
ToldAborts(l) ==
    IF l.kind = "bambu" THEN [l EXCEPT !.told = TRUE, !.client = FALSE]
    ELSE [l EXCEPT !.told = TRUE,
                   !.heal = FALSE,
                   !.sock = IF @ = "open" THEN "closing" ELSE "none"]

\* Only an open socket is known to the adapter: one that is still opening is
\* not touched, nor is an MQTT client that never got as far as subscribing.
Told(l) ==
    IF l.kind = "bambu" THEN [l EXCEPT !.told = TRUE, !.client = FALSE]
    ELSE [l EXCEPT !.told = TRUE,
                   !.heal = FALSE,
                   !.sock = IF @ = "open" THEN "closing" ELSE @]

\* The part of BambuAdapter.disconnect before its await.
Ending(l) == [l EXCEPT !.told = TRUE, !.sock = "closing"]

----------------------------------------------------------------------------
(* What the network does to an adapter *)

\* The handlers of 'open' and of MQTT's subscribe; told or not.
Opened(l) == [l EXCEPT !.sock = "open", !.client = (l.kind = "bambu")]

\* The socket is closed: by the peer, by the watchdog, or after an error.
\* MQTT goes on by itself, also after a refused subscription;
\* the web socket adapters set their timer.
Lost(l) ==
    IF l.kind = "bambu" THEN [l EXCEPT !.sock = "reopening"]
    ELSE [l EXCEPT !.sock = "none", !.heal = ~l.told]

\* mintToken fails: there is no socket whose close event would set the timer,
\* but the reconnect loop sets it in its catch.
MintFailed(l) ==
    [l EXCEPT !.sock = "none", !.heal = (l.sock = "reopening" /\ ~l.told)]

\* Which attempts have a hard timeout pending: every connect(), and Moonraker
\* reconnects by connect() too.
HasTimeout(l) ==
    \/ l.sock = "opening"
    \/ l.sock = "reopening" /\ l.kind = "moonraker"

\* fail() rejects and leaves the attempt as it is.
TimedOut(l) ==
    [l EXCEPT !.sock = IF l.kind = "bambu" THEN "reopening" ELSE "late"]

\* reconnectTimer fires; Moonraker's connect() clears destroyed.
Reopened(l) ==
    [l EXCEPT !.heal = FALSE,
              !.sock = "reopening",
              !.told = IF l.kind = "moonraker" THEN FALSE ELSE @]
=============================================================================
