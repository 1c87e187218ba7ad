---------------------------- MODULE PrinterProofs ----------------------------
(***************************************************************************)
(* The inductive invariant of PrinterManager and the properties it gives,  *)
(* for every pool of adapters and calls, every set of adapter classes and  *)
(* every limit of retries.                                                 *)
(***************************************************************************)
EXTENDS PrinterManager, TLAPS

\* What the steps of an adapter preserve: no timer survives disconnect(), MQTT
\* needs none, and a client that awaits its first connection is not known yet.
LinkInv(l) ==
    /\ l \in Link
    /\ l.told => ~l.heal
    /\ l.kind = "bambu" => ~l.heal
    /\ l.sock = "opening" => ~l.client
    /\ l.heal => l.sock = "none"

\* A call holds an adapter and a class to start as long as it needs them.
CallsOK ==
    \A c \in Calls :
        /\ call[c].at = "connecting" => call[c].adapter \in Adapters
        /\ call[c].at \in {"replacing", "stopping"} => call[c].kind \in Kinds

\* The part of the invariant that startAdapter and stopAdapter touch.
Core ==
    /\ link \in [Adapters -> Link]
    /\ current \in Adapters \cup {NoAdapter}
    /\ timer \in BOOLEAN
    /\ gaveUp \in BOOLEAN
    /\ aged \in BOOLEAN
    /\ call \in [Calls -> Call]
    /\ waiting \subseteq Calls
    /\ \A a \in Adapters : LinkInv(link[a])
    /\ CallsOK
    /\ ConnectReturns
    /\ AnswerComes

\* With web socket adapters no call waits for a disconnect.
WebPart ==
    /\ \A a \in Adapters : link[a].kind # "bambu"
    /\ \A c \in Calls : call[c].at \in {"idle", "connecting"}
    /\ \A a \in Adapters : link[a] # Unused /\ a # current => link[a].told

PrinterInv ==
    /\ TypeOK
    /\ Core
    /\ WebSockets => WebPart
    /\ DeletedStaysGone

----------------------------------------------------------------------------
(* Adapters *)

LEMMA UnusedInv == LinkInv(Unused)
  BY DEF LinkInv, Unused, Link, Sock, Kind

LEMMA FreshInv ==
  ASSUME NEW k \in Kinds
  PROVE  /\ LinkInv(Fresh(k))
         /\ Fresh(k).kind = k
         /\ Fresh(k).sock = "opening"
  BY LinksAssumption DEF LinkInv, Fresh, Unused, Link, Sock, Kind

\* disconnect() keeps an attempt that is awaited and cancels the timer.
LEMMA ToldInv ==
  ASSUME NEW l, LinkInv(l)
  PROVE  /\ LinkInv(Told(l))
         /\ Told(l).told
         /\ Told(l).kind = l.kind
         /\ l.sock = "opening" => Told(l).sock = "opening"
  BY DEF LinkInv, Told, Link, Sock, Kind

LEMMA EndingInv ==
  ASSUME NEW l, LinkInv(l), EndsSlowly(l)
  PROVE  LinkInv(Ending(l))
  BY DEF LinkInv, Ending, EndsSlowly, Link, Sock, Kind

\* What the network and the timers do to an adapter.
LEMMA OpenedInv ==
  ASSUME NEW l, LinkInv(l), l.sock \in Trying
  PROVE  LinkInv(Opened(l)) /\ Opened(l).kind = l.kind /\ Opened(l).told = l.told
  BY DEF LinkInv, Opened, Link, Sock, Kind, Trying

LEMMA LostInv ==
  ASSUME NEW l, LinkInv(l)
  PROVE  LinkInv(Lost(l)) /\ Lost(l).kind = l.kind /\ Lost(l).told = l.told
  BY DEF LinkInv, Lost, Link, Sock, Kind

LEMMA MintFailedInv ==
  ASSUME NEW l, LinkInv(l), l.kind = "bambuddy"
  PROVE  /\ LinkInv(MintFailed(l))
         /\ MintFailed(l).kind = l.kind
         /\ MintFailed(l).told = l.told
  BY DEF LinkInv, MintFailed, Link, Sock, Kind

LEMMA TimedOutInv ==
  ASSUME NEW l, LinkInv(l), HasTimeout(l)
  PROVE  LinkInv(TimedOut(l)) /\ TimedOut(l).kind = l.kind /\ TimedOut(l).told = l.told
  BY DEF LinkInv, TimedOut, HasTimeout, Link, Sock, Kind

LEMMA ReopenedInv ==
  ASSUME NEW l, LinkInv(l), l.heal
  PROVE  LinkInv(Reopened(l)) /\ Reopened(l).kind = l.kind /\ Reopened(l).told = l.told
  BY DEF LinkInv, Reopened, Link, Sock, Kind

LEMMA ReportedInv ==
  ASSUME NEW l, LinkInv(l)
  PROVE  /\ LinkInv([l EXCEPT !.reported = TRUE])
         /\ [l EXCEPT !.reported = TRUE].kind = l.kind
         /\ [l EXCEPT !.reported = TRUE].told = l.told
         /\ [l EXCEPT !.reported = TRUE].sock = l.sock
  BY DEF LinkInv, Link, Sock, Kind

\* Forgetting the dead leaves every other adapter as it is.
LEMMA CollectedInv ==
  ASSUME NEW L, NEW held, L \in [Adapters -> Link],
         \A a \in Adapters : LinkInv(L[a])
  PROVE  /\ Collected(L, held) \in [Adapters -> Link]
         /\ \A a \in Adapters :
              /\ Collected(L, held)[a] \in {L[a], Unused}
              /\ LinkInv(Collected(L, held)[a])
              /\ L[a].sock # "none" => Collected(L, held)[a] = L[a]
<1>1. Unused \in Link
  BY UnusedInv DEF LinkInv
<1> QED
  BY <1>1, UnusedInv DEF Collected, Dead

----------------------------------------------------------------------------
(* startAdapter and stopAdapter *)

\* The links L are such that call c may go on to create an adapter of class k.
Prepared(c, k, L) ==
    /\ L \in [Adapters -> Link]
    /\ \A a \in Adapters : LinkInv(L[a])
    /\ call[c].at # "connecting"
    /\ \A d \in Calls : call[d].at = "connecting" =>
          L[call[d].adapter].sock = "opening"
    /\ WebSockets =>
          /\ k # "bambu"
          /\ \A a \in Adapters : L[a].kind # "bambu"
          /\ \A d \in Calls \ {c} : call[d].at \in {"idle", "connecting"}
          /\ \A a \in Adapters : L[a] # Unused => L[a].told

LEMMA IdleCall == Idle \in Call /\ Idle.at = "idle" /\ Idle.kind = "none"
  BY DEF Idle, Call, Place, Sequel

\* From clearRetry to connect(), whatever disconnect() made of the links.
LEMMA CreateInv ==
  ASSUME Core, NEW c \in Calls, NEW k \in Kinds, NEW L, Prepared(c, k, L),
         Create(c, k, L),
         waiting' \subseteq waiting \cup {c}
  PROVE  Core' /\ (WebSockets => WebPart')
<1> DEFINE K == Collected(L, Held([call EXCEPT ![c] = Idle], NoAdapter))
           new(a) == [at |-> "connecting", adapter |-> a, kind |-> k,
                      sequel |-> "none"]
<1>1. /\ K \in [Adapters -> Link]
      /\ \A a \in Adapters :
            /\ K[a] \in {L[a], Unused}
            /\ LinkInv(K[a])
            /\ L[a].sock # "none" => K[a] = L[a]
  BY CollectedInv DEF Prepared
<1>2. PICK a \in Adapters :
        /\ K[a] = Unused
        /\ link' = [K EXCEPT ![a] = Fresh(k)]
        /\ current' = a
        /\ timer' = FALSE
        /\ gaveUp' = FALSE
        /\ aged' = FALSE
        /\ call' = [call EXCEPT ![c] = new(a)]
  BY DEF Create
<1> HIDE DEF K
<1>3. /\ Fresh(k) \in Link
      /\ LinkInv(Fresh(k))
      /\ Fresh(k).sock = "opening"
      /\ Fresh(k).kind = k
  BY FreshInv DEF LinkInv
<1>4. new(a) \in Call
  BY LinksAssumption DEF Call, Place, Sequel
<1>5. /\ call \in [Calls -> Call]
      /\ \A d \in Calls : call'[d] = IF d = c THEN new(a) ELSE call[d]
      /\ call' \in [Calls -> Call]
  BY <1>2, <1>4 DEF Core
<1>6. /\ link' \in [Adapters -> Link]
      /\ \A b \in Adapters : link'[b] = IF b = a THEN Fresh(k) ELSE K[b]
  BY <1>1, <1>2, <1>3
<1>7. \A b \in Adapters : LinkInv(link'[b])
  BY <1>1, <1>3, <1>6
<1>8. \A d \in Calls \ {c} : call[d].at = "connecting" =>
        /\ call[d].adapter \in Adapters
        /\ call[d].adapter # a
        /\ link'[call[d].adapter].sock = "opening"
  <2> SUFFICES ASSUME NEW d \in Calls \ {c}, call[d].at = "connecting"
               PROVE  /\ call[d].adapter \in Adapters
                      /\ call[d].adapter # a
                      /\ link'[call[d].adapter].sock = "opening"
    OBVIOUS
  <2>1. call[d].adapter \in Adapters
    BY DEF Core, CallsOK
  <2>2. K[call[d].adapter].sock = "opening"
    BY <1>1, <2>1 DEF Prepared
  <2>3. Unused.sock # "opening"
    BY DEF Unused
  <2> QED
    BY <1>2, <1>6, <2>1, <2>2, <2>3
<1>9. CallsOK'
  BY <1>5, <1>8 DEF CallsOK, Core
<1>10. ConnectReturns'
  <2> SUFFICES ASSUME NEW d \in Calls, call'[d].at = "connecting"
               PROVE  /\ link'[call'[d].adapter].sock = "opening"
                      /\ {e \in Calls : /\ call'[e].at = "connecting"
                                        /\ call'[e].adapter = call'[d].adapter}
                           = {d}
    BY DEF ConnectReturns, Awaiting
  <2>1. CASE d = c
    <3>1. call'[d].adapter = a
      BY <1>5, <2>1
    <3> QED
      BY <1>3, <1>5, <1>6, <1>8, <2>1, <3>1
  <2>2. CASE d # c
    <3>1. call'[d] = call[d] /\ call[d].at = "connecting"
      BY <1>5, <2>2
    <3>2. {e \in Calls : /\ call[e].at = "connecting"
                         /\ call[e].adapter = call[d].adapter} = {d}
      BY <3>1 DEF Core, ConnectReturns, Awaiting
    <3>3. call[d].adapter # a /\ link'[call[d].adapter].sock = "opening"
      BY <1>8, <2>2, <3>1
    <3>4. call'[c].adapter = a
      BY <1>5
    <3> QED
      BY <1>5, <2>2, <3>1, <3>2, <3>3, <3>4
  <2> QED
    BY <2>1, <2>2
<1>11. AnswerComes' /\ waiting' \subseteq Calls
  <2>1. call'[c].at = "connecting"
    BY <1>5
  <2> QED
    BY <1>5, <2>1 DEF Core, AnswerComes
<1>12. Core'
  BY <1>2, <1>5, <1>6, <1>7, <1>9, <1>10, <1>11 DEF Core
<1>13. ASSUME WebSockets PROVE WebPart'
  <2>1. \A b \in Adapters : link'[b].kind # "bambu"
    <3>1. Unused.kind # "bambu"
      BY DEF Unused
    <3> QED
      BY <1>1, <1>3, <1>6, <1>13, <3>1 DEF Prepared
  <2>2. \A d \in Calls : call'[d].at \in {"idle", "connecting"}
    BY <1>5, <1>13 DEF Prepared
  <2>3. \A b \in Adapters : link'[b] # Unused /\ b # current' => link'[b].told
    BY <1>1, <1>2, <1>6, <1>13 DEF Prepared
  <2> QED
    BY <2>1, <2>2, <2>3 DEF WebPart
<1> QED
  BY <1>12, <1>13
----------------------------------------------------------------------------
\* disconnect() without an await prepares the links of the adapter in the map.
LEMMA ToldPrepares ==
  ASSUME Core, WebSockets => WebPart, NEW c \in Calls, NEW k,
         WebSockets => k # "bambu", call[c] = Idle, current # NoAdapter
  PROVE  Prepared(c, k, [link EXCEPT ![current] = Told(@)])
<1> DEFINE L == [link EXCEPT ![current] = Told(@)]
<1>1. current \in Adapters /\ link \in [Adapters -> Link] /\ LinkInv(link[current])
  BY DEF Core
<1>2. /\ LinkInv(Told(link[current]))
      /\ Told(link[current]).told
      /\ Told(link[current]).kind = link[current].kind
      /\ link[current].sock = "opening" => Told(link[current]).sock = "opening"
  BY <1>1, ToldInv
<1>3. Told(link[current]) \in Link
  BY <1>2 DEF LinkInv
<1>4. /\ L \in [Adapters -> Link]
      /\ \A a \in Adapters :
            L[a] = IF a = current THEN Told(link[current]) ELSE link[a]
  BY <1>1, <1>3
<1> HIDE DEF L
<1>5. \A a \in Adapters : LinkInv(L[a])
  BY <1>2, <1>4 DEF Core
<1>6. \A d \in Calls : call[d].at = "connecting" =>
        L[call[d].adapter].sock = "opening"
  BY <1>2, <1>4 DEF Core, CallsOK, ConnectReturns
<1>7. ASSUME WebSockets
      PROVE  /\ \A a \in Adapters : L[a].kind # "bambu"
             /\ \A d \in Calls \ {c} : call[d].at \in {"idle", "connecting"}
             /\ \A a \in Adapters : L[a] # Unused => L[a].told
  BY <1>2, <1>4, <1>7 DEF WebPart
<1> QED
  BY <1>4, <1>5, <1>6, <1>7, IdleCall DEF Prepared, L

\* Without an adapter in the map the links are prepared as they are.
LEMMA NonePrepares ==
  ASSUME Core, WebSockets => WebPart, NEW c \in Calls, NEW k,
         WebSockets => k # "bambu", call[c] = Idle, current = NoAdapter
  PROVE  Prepared(c, k, link)
<1>1. \A a \in Adapters : a # current
  BY LinksAssumption
<1> QED
  BY <1>1, IdleCall DEF Prepared, Core, WebPart, ConnectReturns

\* Waiting for endAsync, in startAdapter or stopAdapter.
LEMMA SuspendInv ==
  ASSUME Core, WebSockets => WebPart, NEW c \in Calls, NEW p \in Call,
         call[c] = Idle, current # NoAdapter, EndsSlowly(link[current]),
         p.at \in {"replacing", "stopping"}, p.kind \in Kinds,
         link' = [link EXCEPT ![current] = Ending(@)],
         call' = [call EXCEPT ![c] = p],
         timer' \in BOOLEAN,
         UNCHANGED <<current, gaveUp, aged, waiting>>
  PROVE  Core' /\ ~WebSockets
<1>1. current \in Adapters /\ LinkInv(link[current])
  BY DEF Core
<1>2. link[current].kind = "bambu" /\ link[current].client
  BY DEF EndsSlowly
<1>3. ~WebSockets
  BY <1>1, <1>2 DEF WebPart
<1>4. LinkInv(Ending(link[current])) /\ Ending(link[current]) \in Link
  BY <1>1, EndingInv DEF LinkInv
<1>5. /\ link' \in [Adapters -> Link]
      /\ \A a \in Adapters :
            /\ LinkInv(link'[a])
            /\ a # current => link'[a] = link[a]
  BY <1>1, <1>4 DEF Core
<1>6. /\ call' \in [Calls -> Call]
      /\ \A d \in Calls : call'[d] = IF d = c THEN p ELSE call[d]
  BY DEF Core
<1>7. link[current].sock # "opening"
  BY <1>1, <1>2 DEF LinkInv
<1>8. CallsOK'
  BY <1>6 DEF Core, CallsOK
<1>9. ConnectReturns'
  <2>1. \A a : Awaiting(a)' = Awaiting(a)
    BY <1>6, IdleCall DEF Awaiting
  <2> QED
    BY <1>5, <1>6, <1>7, <2>1 DEF Core, CallsOK, ConnectReturns
<1>10. AnswerComes'
  BY <1>6, IdleCall DEF Core, AnswerComes
<1> QED
  BY <1>3, <1>5, <1>6, <1>8, <1>9, <1>10 DEF Core

LEMMA StartAdapterInv ==
  ASSUME Core, WebSockets => WebPart, NEW c \in Calls, NEW k \in Kinds,
         NEW t \in BOOLEAN, WebSockets => k # "bambu", call[c] = Idle,
         StartAdapter(c, k, t)
  PROVE  Core' /\ (WebSockets => WebPart')
<1>1. CASE current = NoAdapter /\ Create(c, k, link) /\ UNCHANGED waiting
  BY <1>1, NonePrepares, CreateInv
<1>2. CASE /\ current # NoAdapter
           /\ Create(c, k, [link EXCEPT ![current] = Told(@)])
           /\ waiting' = {}
  BY <1>2, ToldPrepares, CreateInv
<1>3. CASE /\ current # NoAdapter
           /\ EndsSlowly(link[current])
           /\ link' = [link EXCEPT ![current] = Ending(@)]
           /\ call' = [call EXCEPT ![c] = [at |-> "replacing",
                 adapter |-> current, kind |-> k, sequel |-> "none"]]
           /\ timer' = t
           /\ UNCHANGED <<current, gaveUp, aged, waiting>>
  <2>1. [at |-> "replacing", adapter |-> current, kind |-> k,
         sequel |-> "none"] \in Call
    BY LinksAssumption DEF Core, Call, Place, Sequel
  <2> QED
    BY <1>3, <2>1, SuspendInv
<1> QED
  BY <1>1, <1>2, <1>3 DEF StartAdapter
----------------------------------------------------------------------------
\* Idle calls and idle calls made idle.
LEMMA ReturnInv ==
  ASSUME Core, NEW c \in Calls, NEW k, NEW L, Prepared(c, k, L),
         NEW w, w \subseteq waiting, call[c].at # "connecting",
         call' = [call EXCEPT ![c] = Idle],
         link' = Collected(L, Held(call', NoAdapter)),
         current' = NoAdapter, aged' = FALSE, timer' \in BOOLEAN,
         waiting' = w, UNCHANGED gaveUp
  PROVE  Core' /\ (WebSockets => WebPart')
<1> DEFINE K == Collected(L, Held(call', NoAdapter))
<1>1. /\ K \in [Adapters -> Link]
      /\ \A a \in Adapters :
            /\ K[a] \in {L[a], Unused}
            /\ LinkInv(K[a])
            /\ L[a].sock # "none" => K[a] = L[a]
  BY CollectedInv DEF Prepared
<1>2. link' = K
  OBVIOUS
<1> HIDE DEF K
<1>3. /\ call' \in [Calls -> Call]
      /\ \A d \in Calls : call'[d] = IF d = c THEN Idle ELSE call[d]
  BY IdleCall DEF Core
<1>4. CallsOK'
  BY <1>3, IdleCall DEF Core, CallsOK
<1>5. ConnectReturns'
  <2> SUFFICES ASSUME NEW d \in Calls, call'[d].at = "connecting"
               PROVE  /\ link'[call'[d].adapter].sock = "opening"
                      /\ {e \in Calls : /\ call'[e].at = "connecting"
                                          /\ call'[e].adapter = call'[d].adapter} = {d}
    BY DEF ConnectReturns, Awaiting
  <2>1. call'[d] = call[d] /\ call[d].at = "connecting"
    BY <1>3, IdleCall
  <2>2. call[d].adapter \in Adapters /\ L[call[d].adapter].sock = "opening"
    BY <2>1 DEF Core, CallsOK, Prepared
  <2>3. \A e \in Calls : call'[e].at = "connecting" => call'[e] = call[e]
    BY <1>3, IdleCall
  <2> QED
    BY <1>1, <1>2, <1>3, <2>1, <2>2, <2>3, IdleCall DEF Core, ConnectReturns, Awaiting
<1>6. AnswerComes' /\ waiting' \subseteq Calls
  BY <1>3 DEF Core, AnswerComes
<1>7. Core'
  BY <1>1, <1>2, <1>3, <1>4, <1>5, <1>6 DEF Core
<1>8. ASSUME WebSockets PROVE WebPart'
  <2>1. \A b \in Adapters : link'[b].kind # "bambu"
    <3>1. Unused.kind # "bambu"
      BY DEF Unused
    <3> QED
      BY <1>1, <1>2, <1>8, <3>1 DEF Prepared
  <2>2. \A d \in Calls : call'[d].at \in {"idle", "connecting"}
    BY <1>3, <1>8, IdleCall DEF Prepared
  <2>3. \A b \in Adapters : link'[b] # Unused => link'[b].told
    BY <1>1, <1>2, <1>8 DEF Prepared
  <2> QED
    BY <2>1, <2>2, <2>3 DEF WebPart
<1> QED
  BY <1>7, <1>8

\* What follows the await of stopAdapter.
LEMMA AfterStopInv ==
  ASSUME Core, NEW c \in Calls, NEW k \in Kinds, NEW L, Prepared(c, k, L),
         NEW w, w \subseteq waiting, NEW t \in BOOLEAN, NEW sequel,
         AfterStop(c, sequel, k, L, w, t)
  PROVE  /\ Core'
         /\ WebSockets => WebPart'
         /\ \/ current' = NoAdapter /\ row' \in {row, "gone"}
            \/ sequel \in {"start", "ask"} /\ row' = row
<1>0. call[c].at # "connecting"
  BY DEF Prepared
<1>1. CASE sequel \in {"return", "delete"}
  <2>1. /\ call' = [call EXCEPT ![c] = Idle]
        /\ link' = Collected(L, Held(call', NoAdapter))
        /\ current' = NoAdapter /\ aged' = FALSE /\ timer' = t
        /\ waiting' = w /\ gaveUp' = gaveUp
        /\ row' \in {row, "gone"}
    BY <1>1 DEF AfterStop
  <2>2. Core' /\ (WebSockets => WebPart')
    BY <1>0, <2>1, ReturnInv
  <2> QED
    BY <2>1, <2>2
<1>2. CASE sequel \in {"start", "ask"}
  <2>1. /\ Create(c, k, L)
        /\ waiting' \subseteq waiting \cup {c}
        /\ row' = row
    BY <1>2 DEF AfterStop
  <2>2. Core' /\ (WebSockets => WebPart')
    BY <2>1, CreateInv
  <2> QED
    BY <1>2, <2>1, <2>2
<1> QED
  BY <1>1, <1>2 DEF AfterStop

LEMMA StopAdapterInv ==
  ASSUME Core, WebSockets => WebPart, NEW c \in Calls, NEW k \in Kinds,
         WebSockets => k # "bambu", call[c] = Idle,
         NEW sequel \in {"return", "delete", "start", "ask"},
         StopAdapter(c, sequel, k)
  PROVE  /\ Core'
         /\ WebSockets => WebPart'
         /\ row' \in {row, "gone"}
         /\ \/ ~WebSockets
            \/ current' = NoAdapter
            \/ sequel \in {"start", "ask"} /\ row' = row
<1>1. CASE /\ current = NoAdapter
           /\ AfterStop(c, sequel, k, link, waiting, FALSE)
  BY <1>1, NonePrepares, AfterStopInv
<1>2. CASE /\ current # NoAdapter
           /\ AfterStop(c, sequel, k, [link EXCEPT ![current] = Told(@)], {}, FALSE)
  BY <1>2, ToldPrepares, AfterStopInv
<1>3. CASE /\ current # NoAdapter
           /\ EndsSlowly(link[current])
           /\ link' = [link EXCEPT ![current] = Ending(@)]
           /\ call' = [call EXCEPT ![c] = [at |-> "stopping",
                 adapter |-> current, kind |-> k, sequel |-> sequel]]
           /\ timer' = FALSE
           /\ UNCHANGED <<row, current, gaveUp, aged, waiting>>
  <2>1. [at |-> "stopping", adapter |-> current, kind |-> k,
         sequel |-> sequel] \in Call
    BY LinksAssumption DEF Core, Call, Place, Sequel
  <2> QED
    BY <1>3, <2>1, SuspendInv
<1> QED
  BY <1>1, <1>2, <1>3 DEF StopAdapter

----------------------------------------------------------------------------
(* Events *)

\* A step of adapter a that answers every call that awaits it, or that leaves
\* an awaited attempt alone.
LEMMA ResumeInv ==
  ASSUME Core, WebSockets => WebPart, NEW a \in Adapters, NEW l, NEW C,
         link[a] # Unused, LinkInv(l),
         l.kind = link[a].kind, l.told = link[a].told,
         Resume(a, l, C),
         C = Awaiting(a) \/ (C = {} /\ link[a].sock # "opening"),
         waiting' \subseteq waiting, waiting' \cap C = {},
         timer' \in BOOLEAN, gaveUp' \in BOOLEAN
  PROVE  Core' /\ (WebSockets => WebPart')
<1> DEFINE L == [link EXCEPT ![a] = l]
           K == Collected(L, Held(call', current))
<1>1. /\ L \in [Adapters -> Link]
      /\ \A b \in Adapters : L[b] = IF b = a THEN l ELSE link[b]
  BY DEF Core, LinkInv
<1>2. \A b \in Adapters : LinkInv(L[b])
  BY <1>1 DEF Core
<1>3. link' = K
  BY DEF Resume
<1> HIDE DEF L
<1>4. /\ K \in [Adapters -> Link]
      /\ \A b \in Adapters :
            /\ K[b] \in {L[b], Unused}
            /\ LinkInv(K[b])
            /\ L[b].sock # "none" => K[b] = L[b]
  BY <1>1, <1>2, CollectedInv
<1> HIDE DEF K
<1>5. /\ call' \in [Calls -> Call]
      /\ \A c \in Calls : call'[c] = IF c \in C THEN Idle ELSE call[c]
  BY IdleCall DEF Core, Resume
<1>6. /\ current' = current
      /\ aged' = aged
  BY DEF Resume
<1>7. CallsOK'
  BY <1>5, IdleCall DEF Core, CallsOK
<1>8. \A c \in Calls : call'[c].at = "connecting" =>
        /\ c \notin C
        /\ call'[c] = call[c]
        /\ call[c].adapter \in Adapters \ {a}
  <2> SUFFICES ASSUME NEW c \in Calls, call'[c].at = "connecting"
               PROVE  /\ c \notin C
                      /\ call'[c] = call[c]
                      /\ call[c].adapter \in Adapters \ {a}
    OBVIOUS
  <2>1. c \notin C /\ call'[c] = call[c]
    BY <1>5, IdleCall
  <2>2. call[c].adapter \in Adapters /\ link[call[c].adapter].sock = "opening"
    BY <2>1 DEF Core, CallsOK, ConnectReturns
  <2>3. call[c].adapter # a
    BY <2>1, <2>2 DEF Awaiting
  <2> QED
    BY <2>1, <2>2, <2>3
<1>9. ConnectReturns'
  <2> SUFFICES ASSUME NEW c \in Calls, call'[c].at = "connecting"
               PROVE  /\ link'[call'[c].adapter].sock = "opening"
                      /\ {e \in Calls : /\ call'[e].at = "connecting"
                                          /\ call'[e].adapter = call'[c].adapter} = {c}
    BY DEF ConnectReturns, Awaiting
  <2>1. /\ call'[c] = call[c]
        /\ call[c].adapter \in Adapters \ {a}
        /\ c \notin C
    BY <1>8
  <2>2. /\ link[call[c].adapter].sock = "opening"
        /\ Awaiting(call[c].adapter) = {c}
    BY <2>1 DEF Core, ConnectReturns
  <2>3. link'[call[c].adapter].sock = "opening"
    BY <1>1, <1>3, <1>4, <2>1, <2>2
  <2>4. \A d \in Calls : call'[d].at = "connecting" => call'[d] = call[d]
    BY <1>8
  <2> QED
    BY <2>1, <2>2, <2>3, <2>4 DEF Awaiting
<1>10. AnswerComes' /\ waiting' \subseteq Calls
  BY <1>5 DEF Core, AnswerComes
<1>11. Core'
  BY <1>3, <1>4, <1>5, <1>6, <1>7, <1>9, <1>10 DEF Core
<1>12. ASSUME WebSockets PROVE WebPart'
  <2>1. \A b \in Adapters : link'[b].kind # "bambu"
    <3>1. Unused.kind # "bambu"
      BY DEF Unused
    <3> QED
      BY <1>1, <1>3, <1>4, <1>12, <3>1 DEF WebPart
  <2>2. \A d \in Calls : call'[d].at \in {"idle", "connecting"}
    BY <1>5, <1>12, IdleCall DEF WebPart
  <2>3. \A b \in Adapters : link'[b] # Unused /\ b # current' => link'[b].told
    BY <1>1, <1>3, <1>4, <1>6, <1>12 DEF WebPart
  <2> QED
    BY <2>1, <2>2, <2>3 DEF WebPart
<1> QED
  BY <1>11, <1>12
----------------------------------------------------------------------------
LEMMA RetryAfterTypes ==
  ASSUME TypeOK, NEW C, RetryAfter(C)
  PROVE  /\ timer' \in BOOLEAN
         /\ gaveUp' \in BOOLEAN
         /\ count' \in 0..(MaxConsecutiveRetries + 1)
<1>1. CASE C = {}
  BY <1>1 DEF TypeOK, RetryAfter
<1>2. CASE C # {}
  <2>1. /\ count' = IF count + 1 > MaxConsecutiveRetries
                     THEN MaxConsecutiveRetries + 1 ELSE count + 1
        /\ gaveUp' = (gaveUp \/ count + 1 > MaxConsecutiveRetries)
        /\ timer' = (timer \/ count + 1 <= MaxConsecutiveRetries)
    BY <1>2 DEF RetryAfter
  <2>2. count \in 0..(MaxConsecutiveRetries + 1)
    BY DEF TypeOK
  <2> QED
    BY <2>1, <2>2, ManagerAssumption
<1> QED
  BY <1>1, <1>2

\* Everything that happens to adapter a except the end of an MQTT client.
LEMMA EventInv ==
  ASSUME TypeOK, Core, WebSockets => WebPart, NEW a \in Adapters,
         \/ Opens(a) \/ Fails(a) \/ MintFails(a) \/ TimesOut(a)
         \/ Drops(a) \/ Heals(a) \/ Closed(a) \/ Reports(a)
  PROVE  /\ Core'
         /\ WebSockets => WebPart'
         /\ count' \in 0..(MaxConsecutiveRetries + 1)
         /\ UNCHANGED <<row, mode, current>>
<1> DEFINE Goal == /\ Core'
                   /\ WebSockets => WebPart'
                   /\ count' \in 0..(MaxConsecutiveRetries + 1)
                   /\ UNCHANGED <<row, mode, current>>
<1>1. /\ LinkInv(link[a])
      /\ timer \in BOOLEAN
      /\ gaveUp \in BOOLEAN
      /\ count \in 0..(MaxConsecutiveRetries + 1)
      /\ 0 \in 0..(MaxConsecutiveRetries + 1)
      /\ waiting \subseteq Calls
  BY ManagerAssumption DEF TypeOK, Core
<1>2. link[a].sock # "none" \/ link[a].heal => link[a] # Unused
  BY DEF Unused
<1>3. CASE Opens(a)
  <2>1. /\ Resume(a, Opened(link[a]), Awaiting(a))
        /\ link[a] # Unused
        /\ link[a].sock \in Trying
        /\ waiting' = {} /\ timer' = timer /\ gaveUp' = gaveUp
        /\ count' \in {count, 0}
    BY <1>2, <1>3 DEF Opens, Trying
  <2>2. Core' /\ (WebSockets => WebPart')
    BY <1>1, <2>1, OpenedInv, ResumeInv
  <2> QED
    BY <1>1, <2>1, <2>2 DEF Resume
<1>4. CASE Fails(a)
  <2>1. /\ Resume(a, Lost(link[a]), Awaiting(a))
        /\ link[a] # Unused
        /\ waiting' = {}
        /\ RetryAfter(Awaiting(a))
    BY <1>2, <1>4 DEF Fails, Trying
  <2>2. Core' /\ (WebSockets => WebPart')
    BY <1>1, <2>1, LostInv, ResumeInv, RetryAfterTypes
  <2> QED
    BY <2>1, <2>2, RetryAfterTypes DEF Resume
<1>5. CASE MintFails(a)
  <2>1. /\ Resume(a, MintFailed(link[a]), Awaiting(a))
        /\ link[a] # Unused
        /\ link[a].kind = "bambuddy"
        /\ waiting' = IF Awaiting(a) = {} THEN waiting ELSE {}
        /\ RetryAfter(Awaiting(a))
    BY <1>2, <1>5 DEF MintFails, Trying
  <2>2. waiting' \subseteq waiting /\ waiting' \cap Awaiting(a) = {}
    BY <2>1
  <2>3. Core' /\ (WebSockets => WebPart')
    BY <1>1, <2>1, <2>2, MintFailedInv, ResumeInv, RetryAfterTypes
  <2> QED
    BY <2>1, <2>3, RetryAfterTypes DEF Resume
<1>6. CASE TimesOut(a)
  <2>1. /\ Resume(a, TimedOut(link[a]), Awaiting(a))
        /\ link[a] # Unused
        /\ HasTimeout(link[a])
        /\ waiting' = {}
        /\ RetryAfter(Awaiting(a))
    BY <1>2, <1>6 DEF TimesOut, HasTimeout
  <2>2. Core' /\ (WebSockets => WebPart')
    BY <1>1, <2>1, TimedOutInv, ResumeInv, RetryAfterTypes
  <2> QED
    BY <2>1, <2>2, RetryAfterTypes DEF Resume
<1>7. CASE Drops(a) \/ Closed(a)
  <2>1. /\ Resume(a, Lost(link[a]), {})
        /\ link[a] # Unused
        /\ link[a].sock # "opening"
        /\ waiting' = {} /\ timer' = timer /\ gaveUp' = gaveUp
        /\ count' = count
    BY <1>2, <1>7 DEF Drops, Closed
  <2>2. Core' /\ (WebSockets => WebPart')
    BY <1>1, <2>1, LostInv, ResumeInv
  <2> QED
    BY <1>1, <2>1, <2>2 DEF Resume
<1>8. CASE Heals(a)
  <2>1. /\ Resume(a, Reopened(link[a]), {})
        /\ link[a] # Unused
        /\ link[a].heal
        /\ waiting' = waiting /\ timer' = timer /\ gaveUp' = gaveUp
        /\ count' = count
    BY <1>2, <1>8 DEF Heals
  <2>2. link[a].sock # "opening"
    BY <1>1, <2>1 DEF LinkInv
  <2>3. Core' /\ (WebSockets => WebPart')
    BY <1>1, <2>1, <2>2, ReopenedInv, ResumeInv
  <2> QED
    BY <1>1, <2>1, <2>3 DEF Resume
<1>9. CASE Reports(a)
  <2> DEFINE l == [link[a] EXCEPT !.reported = TRUE]
  <2>1. /\ Resume(a, l, {})
        /\ link[a] # Unused
        /\ link[a].sock # "opening"
        /\ waiting' = waiting /\ timer' = timer /\ gaveUp' = gaveUp
        /\ count' = count
    BY <1>2, <1>9 DEF Reports
  <2>2. LinkInv(l) /\ l.kind = link[a].kind /\ l.told = link[a].told
    BY <1>1, ReportedInv
  <2> HIDE DEF l
  <2>3. Core' /\ (WebSockets => WebPart')
    BY <1>1, <2>1, <2>2, ResumeInv
  <2>4. row' = row /\ mode' = mode /\ current' = current
    BY <2>1 DEF Resume
  <2> QED
    BY <1>1, <2>1, <2>3, <2>4
<1> QED
  BY <1>3, <1>4, <1>5, <1>6, <1>7, <1>8, <1>9

\* The end of an MQTT client; there is none among web sockets.
LEMMA EndedInv ==
  ASSUME TypeOK, Core, WebSockets => WebPart, NEW a \in Adapters, Ended(a)
  PROVE  /\ Core'
         /\ ~WebSockets
         /\ row' \in {row, "gone"}
         /\ UNCHANGED <<mode, count>>
<1> DEFINE over == [link EXCEPT ![a].sock = "none", ![a].client = FALSE]
<1>1. /\ link[a].kind = "bambu" /\ link[a].sock = "closing"
      /\ UNCHANGED <<mode, count>>
  BY DEF Ended
<1>2. ~WebSockets
  BY <1>1 DEF WebPart
<1>3. PICK c \in Calls :
        \/ /\ call[c].at = "stopping"
           /\ AfterStop(c, call[c].sequel, call[c].kind, over, {}, timer)
        \/ /\ call[c].at = "replacing"
           /\ Create(c, call[c].kind, over)
           /\ waiting' = {}
           /\ UNCHANGED row
  BY DEF Ended
<1>4. /\ over \in [Adapters -> Link]
      /\ \A b \in Adapters :
            /\ LinkInv(over[b])
            /\ b # a => over[b] = link[b]
  <2>1. link \in [Adapters -> Link] /\ LinkInv(link[a])
    BY DEF Core
  <2>2. over = [link EXCEPT ![a] = [link[a] EXCEPT !.sock = "none",
                                                   !.client = FALSE]]
    BY <2>1 DEF Link
  <2>3. LinkInv([link[a] EXCEPT !.sock = "none", !.client = FALSE])
    BY <2>1 DEF LinkInv, Link, Sock
  <2>4. over \in [Adapters -> Link]
    BY <2>1, <2>2, <2>3 DEF LinkInv
  <2>5. LinkInv(over[a]) /\ \A b \in Adapters : b # a => over[b] = link[b]
    BY <2>1, <2>2, <2>3
  <2> QED
    BY <2>4, <2>5 DEF Core
<1> HIDE DEF over
<1>5. \A d \in Calls : call[d].at = "connecting" =>
        over[call[d].adapter].sock = "opening"
  BY <1>1, <1>4 DEF Core, CallsOK, ConnectReturns
<1>6. call[c].kind \in Kinds /\ call[c].at # "connecting"
  BY <1>3 DEF Core, CallsOK
<1>7. Prepared(c, call[c].kind, over)
  BY <1>2, <1>4, <1>5, <1>6 DEF Prepared
<1>8. CASE AfterStop(c, call[c].sequel, call[c].kind, over, {}, timer)
  <2>1. timer \in BOOLEAN /\ {} \subseteq waiting
    BY DEF Core
  <2>2. Core' /\ row' \in {row, "gone"}
    BY <1>6, <1>7, <1>8, <2>1, AfterStopInv
  <2> QED
    BY <1>1, <1>2, <2>2
<1>9. CASE Create(c, call[c].kind, over) /\ waiting' = {} /\ UNCHANGED row
  <2>1. Core'
    BY <1>6, <1>7, <1>9, CreateInv
  <2> QED
    BY <1>1, <1>2, <1>9, <2>1
<1> QED
  BY <1>3, <1>8, <1>9
----------------------------------------------------------------------------
(* The invariant *)

LEMMA InitInv == Init => PrinterInv
<1> SUFFICES ASSUME Init PROVE PrinterInv
  OBVIOUS
<1>1. Unused \in Link /\ LinkInv(Unused) /\ Unused.kind # "bambu"
  BY UnusedInv DEF LinkInv, Unused
<1>2. TypeOK
  <2>1. count \in 0..(MaxConsecutiveRetries + 1)
    BY ManagerAssumption DEF Init
  <2>2. link \in [Adapters -> Link] /\ call \in [Calls -> Call]
    BY <1>1, IdleCall DEF Init
  <2> QED
    BY <2>1, <2>2 DEF Init, TypeOK
<1>3. Core
  BY <1>1, IdleCall DEF Init, Core, CallsOK, ConnectReturns, AnswerComes
<1>4. WebPart
  BY <1>1, IdleCall DEF Init, WebPart
<1>5. DeletedStaysGone
  BY DEF Init, DeletedStaysGone
<1> QED
  BY <1>2, <1>3, <1>4, <1>5 DEF PrinterInv

\* The class a request asks for.
LEMMA ModeClass ==
  ASSUME TypeOK, NEW k \in Kinds, SameProtocol(k), WebSockets
  PROVE  k # "bambu"
  BY DEF TypeOK, SameProtocol, WebSockets

\* What is left to show of a step once the lemmas have done Core and WebPart.
LEMMA StepDone ==
  ASSUME PrinterInv, Core', WebSockets => WebPart',
         row' \in {"none", "present", "gone"}, mode' \in Kinds,
         SameProtocol(mode'),
         count' \in 0..(MaxConsecutiveRetries + 1),
         WebSockets /\ row' = "gone" => current' = NoAdapter
  PROVE  PrinterInv'
<1>1. WebSockets' => WebSockets
  BY DEF WebSockets, SameProtocol
<1> QED
  BY <1>1 DEF PrinterInv, TypeOK, Core, DeletedStaysGone

LEMMA NextInv == PrinterInv /\ [Next]_vars => PrinterInv'
<1> SUFFICES ASSUME PrinterInv, [Next]_vars PROVE PrinterInv'
  OBVIOUS
<1> USE DEF PrinterInv
<1>1. /\ row \in {"none", "present", "gone"}
      /\ mode \in Kinds
      /\ timer \in BOOLEAN
      /\ count \in 0..(MaxConsecutiveRetries + 1)
      /\ SameProtocol(mode)
      /\ WebSockets => mode # "bambu"
      /\ WebSockets /\ row = "gone" => current = NoAdapter
  BY ModeClass DEF TypeOK, SameProtocol, DeletedStaysGone
<1>2. CASE UNCHANGED vars
  <2>1. Core' /\ (WebSockets => WebPart')
    BY <1>2 DEF vars, managerVars, Core, CallsOK, ConnectReturns, Awaiting,
                AnswerComes, WebPart
  <2> QED
    BY <1>1, <1>2, <2>1, StepDone DEF vars, managerVars
<1>3. CASE Ages
  <2>1. /\ aged' = TRUE
        /\ UNCHANGED <<link, row, mode, current, timer, count, gaveUp, call,
                       waiting>>
    BY <1>3 DEF Ages
  <2>2. Core' /\ (WebSockets => WebPart')
    BY <2>1 DEF Core, CallsOK, ConnectReturns, Awaiting, AnswerComes, WebPart
  <2> QED
    BY <1>1, <2>1, <2>2, StepDone
<1>4. ASSUME NEW c \in Calls, Register(c) PROVE PrinterInv'
  <2>1. call[c] = Idle /\ StartAdapter(c, mode, timer) /\ row' = "present"
        /\ UNCHANGED <<mode, count>>
    BY <1>4 DEF Register
  <2>2. Core' /\ (WebSockets => WebPart')
    BY <1>1, <2>1, StartAdapterInv
  <2> QED
    BY <1>1, <2>1, <2>2, StepDone
<1>5. ASSUME NEW c \in Calls, NEW k \in Kinds, Patch(c, k) PROVE PrinterInv'
  <2>1. /\ call[c] = Idle /\ StopAdapter(c, "start", k) /\ SameProtocol(k)
        /\ mode' = k /\ row = "present" /\ count' = count
    BY <1>5 DEF Patch
  <2>2. WebSockets => k # "bambu"
    BY <2>1, ModeClass
  <2>3. /\ Core' /\ (WebSockets => WebPart')
        /\ row' \in {row, "gone"}
        /\ ~WebSockets \/ current' = NoAdapter \/ row' = row
    BY <2>1, <2>2, StopAdapterInv
  <2> QED
    BY <1>1, <2>1, <2>3, StepDone
<1>6. ASSUME NEW c \in Calls, Reconnect(c) PROVE PrinterInv'
  <2>1. /\ call[c] = Idle /\ StopAdapter(c, "ask", mode)
        /\ row = "present" /\ UNCHANGED <<mode, count>>
    BY <1>6 DEF Reconnect
  <2>2. /\ Core' /\ (WebSockets => WebPart')
        /\ row' \in {row, "gone"}
        /\ ~WebSockets \/ current' = NoAdapter \/ row' = row
    BY <1>1, <2>1, StopAdapterInv
  <2> QED
    BY <1>1, <2>1, <2>2, StepDone
<1>7. ASSUME NEW c \in Calls, Disconnect(c) \/ Delete(c) PROVE PrinterInv'
  <2>1. /\ call[c] = Idle
        /\ \E sequel \in {"return", "delete"} : StopAdapter(c, sequel, mode)
        /\ UNCHANGED <<mode, count>>
    BY <1>7 DEF Disconnect, Delete
  <2>2. PICK sequel \in {"return", "delete"} : StopAdapter(c, sequel, mode)
    BY <2>1
  <2>3. /\ Core' /\ (WebSockets => WebPart')
        /\ row' \in {row, "gone"}
        /\ ~WebSockets \/ current' = NoAdapter
    BY <1>1, <2>1, <2>2, StopAdapterInv
  <2> QED
    BY <1>1, <2>1, <2>3, StepDone
<1>8. ASSUME NEW c \in Calls, ReplyTimesOut(c) PROVE PrinterInv'
  <2>1. /\ waiting' = waiting \ {c}
        /\ UNCHANGED <<link, row, mode, current, timer, count, gaveUp, aged, call>>
    BY <1>8 DEF ReplyTimesOut
  <2>2. Core' /\ (WebSockets => WebPart')
    BY <2>1 DEF Core, CallsOK, ConnectReturns, Awaiting, AnswerComes, WebPart
  <2> QED
    BY <1>1, <2>1, <2>2, StepDone
<1>9. ASSUME NEW c \in Calls, RetryFires(c) PROVE PrinterInv'
  <2>1. CASE row = "present"
    <3>1. /\ call[c] = Idle /\ StartAdapter(c, mode, FALSE)
          /\ UNCHANGED <<row, mode, count>>
      BY <1>9, <2>1 DEF RetryFires
    <3>2. Core' /\ (WebSockets => WebPart')
      BY <1>1, <3>1, StartAdapterInv
    <3> QED
      BY <1>1, <2>1, <3>1, <3>2, StepDone
  <2>2. CASE row # "present"
    <3>1. /\ timer' = FALSE
          /\ UNCHANGED <<link, row, mode, current, count, gaveUp, aged, call,
                         waiting>>
      BY <1>9, <2>2 DEF RetryFires
    <3>2. Core' /\ (WebSockets => WebPart')
      BY <3>1 DEF Core, CallsOK, ConnectReturns, Awaiting, AnswerComes, WebPart
    <3> QED
      BY <1>1, <3>1, <3>2, StepDone
  <2> QED
    BY <2>1, <2>2
<1>10. ASSUME NEW c \in Calls, Rotate(c) PROVE PrinterInv'
  <2>1. /\ call[c] = Idle /\ StartAdapter(c, mode, timer) /\ row = "present"
        /\ UNCHANGED <<row, mode, count>>
    BY <1>10 DEF Rotate
  <2>2. Core' /\ (WebSockets => WebPart')
    BY <1>1, <2>1, StartAdapterInv
  <2> QED
    BY <1>1, <2>1, <2>2, StepDone
<1>11. ASSUME NEW a \in Adapters,
              \/ Opens(a) \/ Fails(a) \/ MintFails(a) \/ TimesOut(a)
              \/ Drops(a) \/ Heals(a) \/ Closed(a) \/ Reports(a)
       PROVE  PrinterInv'
  <2>1. /\ Core' /\ (WebSockets => WebPart')
        /\ count' \in 0..(MaxConsecutiveRetries + 1)
        /\ UNCHANGED <<row, mode, current>>
    BY <1>11, EventInv
  <2> QED
    BY <1>1, <2>1, StepDone
<1>12. ASSUME NEW a \in Adapters, Ended(a) PROVE PrinterInv'
  <2>1. /\ Core' /\ ~WebSockets
        /\ row' \in {row, "gone"}
        /\ UNCHANGED <<mode, count>>
    BY <1>12, EndedInv
  <2> QED
    BY <1>1, <2>1, StepDone
<1> QED
  BY <1>2, <1>3, <1>4, <1>5, <1>6, <1>7, <1>8, <1>9, <1>10, <1>11, <1>12
  DEF Next, Request, Network

----------------------------------------------------------------------------
(* The adapter in the map goes on by itself, or the manager goes on for it *)

\* Before its row is written nothing is known of a printer.
Unborn ==
    row = "none" => current = NoAdapter /\ \A c \in Calls : call[c] = Idle

\* Every attempt of the manager is still awaited.
Attempts == \A a \in Adapters : link[a].sock = "opening" => Awaiting(a) # {}

\* The adapter in the map was told to disconnect only if MQTT is still ending
\* it; and if it can do nothing, or is about to be refused by bambuddy when
\* nobody awaits it any more, a retry is armed or the manager has given up.
CurrentLives ==
    current # NoAdapter =>
        /\ link[current].told <=> link[current].sock = "closing"
        /\ link[current].told => link[current].kind = "bambu"
        /\ link[current].kind = "bambu" => link[current].sock # "none"
        /\ /\ row = "present"
           /\ \/ Dead(link[current])
              \/ link[current].kind = "bambuddy" /\ link[current].sock = "late"
           => timer \/ gaveUp

LiveInv == Unborn /\ Attempts /\ CurrentLives

\* startAdapter makes a new attempt, which is awaited and in the map.
LEMMA CreateLives ==
  ASSUME Core, Attempts, NEW c \in Calls, NEW k \in Kinds, NEW L,
         L \in [Adapters -> Link], \A a \in Adapters : LinkInv(L[a]),
         \A a \in Adapters : L[a].sock = "opening" => link[a].sock = "opening",
         call[c].at # "connecting", Create(c, k, L)
  PROVE  Attempts' /\ CurrentLives'
<1> DEFINE K == Collected(L, Held([call EXCEPT ![c] = Idle], NoAdapter))
           new(a) == [at |-> "connecting", adapter |-> a, kind |-> k,
                      sequel |-> "none"]
<1>1. /\ K \in [Adapters -> Link]
      /\ \A a \in Adapters : K[a] \in {L[a], Unused}
  BY CollectedInv
<1>2. PICK a \in Adapters :
        /\ link' = [K EXCEPT ![a] = Fresh(k)]
        /\ current' = a
        /\ call' = [call EXCEPT ![c] = new(a)]
  BY DEF Create
<1> HIDE DEF K
<1>3. /\ Fresh(k).sock = "opening"
      /\ Fresh(k).told = FALSE
      /\ Unused.sock # "opening"
  BY DEF Fresh, Unused
<1>4. \A b \in Adapters : link'[b] = IF b = a THEN Fresh(k) ELSE K[b]
  BY <1>1, <1>2
<1>5. \A d \in Calls : call'[d] = IF d = c THEN new(a) ELSE call[d]
  BY <1>2 DEF Core
<1>6. Attempts'
  <2> SUFFICES ASSUME NEW b \in Adapters, link'[b].sock = "opening"
               PROVE  \E d \in Calls : /\ call'[d].at = "connecting"
                                       /\ call'[d].adapter = b
    BY DEF Attempts, Awaiting
  <2>1. CASE b = a
    BY <1>5, <2>1
  <2>2. CASE b # a
    <3>1. link[b].sock = "opening"
      BY <1>1, <1>3, <1>4, <2>2
    <3>2. PICK d \in Calls : call[d].at = "connecting" /\ call[d].adapter = b
      BY <3>1 DEF Attempts, Awaiting
    <3> QED
      BY <1>5, <3>2
  <2> QED
    BY <2>1, <2>2
<1>7. CurrentLives'
  BY <1>2, <1>3, <1>4 DEF CurrentLives, Dead
<1> QED
  BY <1>6, <1>7

\* The links as disconnect() leaves them, without or with an await.
LEMMA ToldLinks ==
  ASSUME Core, current # NoAdapter
  PROVE  LET L == [link EXCEPT ![current] = Told(@)] IN
         /\ L \in [Adapters -> Link]
         /\ \A a \in Adapters :
              /\ LinkInv(L[a])
              /\ L[a].sock = "opening" => link[a].sock = "opening"
<1> DEFINE L == [link EXCEPT ![current] = Told(@)]
<1>1. current \in Adapters /\ link \in [Adapters -> Link] /\ LinkInv(link[current])
  BY DEF Core
<1>2. LinkInv(Told(link[current]))
  BY <1>1, ToldInv
<1>3. Told(link[current]).sock = "opening" => link[current].sock = "opening"
  BY <1>1 DEF Told, Link
<1>4. /\ L \in [Adapters -> Link]
      /\ \A a \in Adapters :
            L[a] = IF a = current THEN Told(link[current]) ELSE link[a]
  BY <1>1, <1>2 DEF LinkInv
<1> HIDE DEF L
<1>5. \A a \in Adapters : LinkInv(L[a]) /\ (L[a].sock = "opening" => link[a].sock = "opening")
  BY <1>2, <1>3, <1>4 DEF Core
<1> QED
  BY <1>4, <1>5 DEF L

LEMMA SuspendLives ==
  ASSUME Core, Attempts, NEW c \in Calls, NEW p \in Call, call[c] = Idle,
         current # NoAdapter, EndsSlowly(link[current]),
         link' = [link EXCEPT ![current] = Ending(@)],
         call' = [call EXCEPT ![c] = p],
         UNCHANGED current
  PROVE  Attempts' /\ CurrentLives'
<1>1. current \in Adapters /\ link[current] \in Link
  BY DEF Core
<1>2. /\ link[current].kind = "bambu"
      /\ Ending(link[current]).kind = "bambu"
      /\ Ending(link[current]).sock = "closing"
      /\ Ending(link[current]).told
  BY <1>1 DEF EndsSlowly, Ending, Link
<1>3. \A a \in Adapters :
        link'[a] = IF a = current THEN Ending(link[current]) ELSE link[a]
  BY <1>1 DEF Core
<1>4. \A d \in Calls : d # c => call'[d] = call[d]
  BY DEF Core
<1>5. Attempts'
  <2> SUFFICES ASSUME NEW a \in Adapters, link'[a].sock = "opening"
               PROVE  \E d \in Calls : /\ call'[d].at = "connecting"
                                       /\ call'[d].adapter = a
    BY DEF Attempts, Awaiting
  <2>1. link[a].sock = "opening"
    BY <1>2, <1>3
  <2>2. PICK d \in Calls : call[d].at = "connecting" /\ call[d].adapter = a
    BY <2>1 DEF Attempts, Awaiting
  <2> QED
    BY <1>4, <2>2, IdleCall
<1>6. CurrentLives'
  BY <1>1, <1>2, <1>3 DEF CurrentLives, Dead
<1> QED
  BY <1>5, <1>6

LEMMA StartLives ==
  ASSUME Core, Attempts, NEW c \in Calls, NEW k \in Kinds, NEW t, call[c] = Idle,
         StartAdapter(c, k, t)
  PROVE  Attempts' /\ CurrentLives'
<1>1. link \in [Adapters -> Link] /\ \A a \in Adapters : LinkInv(link[a])
  BY DEF Core
<1>2. CASE current = NoAdapter /\ Create(c, k, link)
  BY <1>1, <1>2, CreateLives, IdleCall
<1>3. CASE /\ current # NoAdapter
           /\ Create(c, k, [link EXCEPT ![current] = Told(@)])
  BY <1>3, ToldLinks, CreateLives, IdleCall
<1>4. CASE /\ current # NoAdapter
           /\ EndsSlowly(link[current])
           /\ link' = [link EXCEPT ![current] = Ending(@)]
           /\ call' = [call EXCEPT ![c] = [at |-> "replacing",
                 adapter |-> current, kind |-> k, sequel |-> "none"]]
           /\ UNCHANGED current
  <2>1. [at |-> "replacing", adapter |-> current, kind |-> k,
         sequel |-> "none"] \in Call
    BY LinksAssumption DEF Core, Call, Place, Sequel
  <2> QED
    BY <1>4, <2>1, SuspendLives
<1> QED
  BY <1>2, <1>3, <1>4 DEF StartAdapter

\* stopAdapter takes the adapter out of the map, or starts a new one.
LEMMA AfterStopLives ==
  ASSUME Core, LiveInv, NEW c \in Calls, NEW k \in Kinds, NEW L,
         L \in [Adapters -> Link], \A a \in Adapters : LinkInv(L[a]),
         \A a \in Adapters : L[a].sock = "opening" => link[a].sock = "opening",
         call[c].at # "connecting", NEW sequel, NEW w, NEW t,
         AfterStop(c, sequel, k, L, w, t),
         sequel \in {"start", "ask"} => row # "none"
  PROVE  LiveInv'
<1>1. CASE sequel \in {"return", "delete"}
  <2>1. /\ call' = [call EXCEPT ![c] = Idle]
        /\ link' = Collected(L, Held(call', NoAdapter))
        /\ current' = NoAdapter
        /\ row' = "none" => row = "none"
    BY <1>1 DEF AfterStop
  <2>2. \A a \in Adapters : link'[a].sock = "opening" => link[a].sock = "opening"
    <3>1. Unused.sock # "opening"
      BY DEF Unused
    <3> QED
      BY <2>1, <3>1, CollectedInv
  <2>3. \A d \in Calls : call'[d] = IF d = c THEN Idle ELSE call[d]
    BY <2>1 DEF Core
  <2>4. Attempts'
    <3> SUFFICES ASSUME NEW a \in Adapters, link'[a].sock = "opening"
                 PROVE  \E d \in Calls : /\ call'[d].at = "connecting"
                                         /\ call'[d].adapter = a
      BY DEF Attempts, Awaiting
    <3>1. PICK d \in Calls : call[d].at = "connecting" /\ call[d].adapter = a
      BY <2>2 DEF LiveInv, Attempts, Awaiting
    <3> QED
      BY <2>3, <3>1
  <2> QED
    BY <2>1, <2>3, <2>4 DEF LiveInv, Unborn, CurrentLives
<1>2. CASE sequel \in {"start", "ask"}
  <2>1. Create(c, k, L) /\ row' = row
    BY <1>2 DEF AfterStop
  <2> QED
    BY <1>2, <2>1, CreateLives DEF LiveInv, Unborn
<1> QED
  BY <1>1, <1>2 DEF AfterStop

LEMMA StopLives ==
  ASSUME Core, LiveInv, NEW c \in Calls, NEW k \in Kinds, call[c] = Idle,
         NEW sequel \in {"return", "delete", "start", "ask"},
         StopAdapter(c, sequel, k),
         sequel \in {"start", "ask"} => row # "none"
  PROVE  LiveInv'
<1>1. link \in [Adapters -> Link] /\ \A a \in Adapters : LinkInv(link[a])
  BY DEF Core
<1>2. CASE /\ current = NoAdapter
           /\ AfterStop(c, sequel, k, link, waiting, FALSE)
  BY <1>1, <1>2, AfterStopLives, IdleCall
<1>3. CASE /\ current # NoAdapter
           /\ AfterStop(c, sequel, k, [link EXCEPT ![current] = Told(@)], {}, FALSE)
  BY <1>3, ToldLinks, AfterStopLives, IdleCall
<1>4. CASE /\ current # NoAdapter
           /\ EndsSlowly(link[current])
           /\ link' = [link EXCEPT ![current] = Ending(@)]
           /\ call' = [call EXCEPT ![c] = [at |-> "stopping",
                 adapter |-> current, kind |-> k, sequel |-> sequel]]
           /\ UNCHANGED <<row, current>>
  <2>1. [at |-> "stopping", adapter |-> current, kind |-> k,
         sequel |-> sequel] \in Call
    BY LinksAssumption DEF Core, Call, Place, Sequel
  <2> QED
    BY <1>4, <2>1, SuspendLives DEF LiveInv, Unborn
<1> QED
  BY <1>2, <1>3, <1>4 DEF StopAdapter

\* A failure that somebody awaits arms the timer, or is one too many.
LEMMA RetryArmed ==
  ASSUME TypeOK, NEW C, RetryAfter(C)
  PROVE  /\ C # {} => timer' \/ gaveUp'
         /\ timer \/ gaveUp => timer' \/ gaveUp'
<1>1. CASE C = {}
  BY <1>1 DEF RetryAfter
<1>2. CASE C # {}
  <2>1. /\ gaveUp' = (gaveUp \/ count + 1 > MaxConsecutiveRetries)
        /\ timer' = (timer \/ count + 1 <= MaxConsecutiveRetries)
    BY <1>2 DEF RetryAfter
  <2>2. count + 1 > MaxConsecutiveRetries \/ count + 1 <= MaxConsecutiveRetries
    BY ManagerAssumption DEF TypeOK
  <2> QED
    BY <2>1, <2>2, Zenon
<1> QED
  BY <1>1, <1>2

\* What an event leaves of the links: an attempt that is still opening was
\* opening before, and only adapter a goes on otherwise.
LEMMA ResumeLives ==
  ASSUME Core, Attempts, NEW a \in Adapters, NEW l, LinkInv(l), NEW C,
         Resume(a, l, C), l.sock # "opening",
         \A c \in C : call[c].at = "connecting" => call[c].adapter = a
  PROVE  /\ Attempts'
         /\ current # NoAdapter =>
              link'[current] = IF current = a THEN l ELSE link[current]
<1> DEFINE L == [link EXCEPT ![a] = l]
<1>1. /\ L \in [Adapters -> Link]
      /\ \A b \in Adapters : L[b] = IF b = a THEN l ELSE link[b]
  BY DEF Core, LinkInv
<1>2. /\ call' = [c \in Calls |-> IF c \in C THEN Idle ELSE call[c]]
      /\ link' = Collected(L, Held(call', current))
  BY DEF Resume
<1> HIDE DEF L
<1>3. \A b \in Adapters : LinkInv(L[b])
  BY <1>1 DEF Core
<1>4. \A b \in Adapters : link'[b] \in {L[b], Unused}
  BY <1>1, <1>2, <1>3, CollectedInv
<1>5. Attempts'
  <2> SUFFICES ASSUME NEW b \in Adapters, link'[b].sock = "opening"
               PROVE  \E d \in Calls : /\ call'[d].at = "connecting"
                                       /\ call'[d].adapter = b
    BY DEF Attempts, Awaiting
  <2>1. Unused.sock # "opening"
    BY DEF Unused
  <2>2. b # a /\ link[b].sock = "opening"
    BY <1>1, <1>4, <2>1
  <2>3. PICK d \in Calls : call[d].at = "connecting" /\ call[d].adapter = b
    BY <2>2 DEF Attempts, Awaiting
  <2> QED
    BY <1>2, <2>2, <2>3
<1>6. ASSUME current # NoAdapter PROVE link'[current] = L[current]
  BY <1>2, <1>6 DEF Core, Collected, Held
<1> QED
  BY <1>1, <1>5, <1>6 DEF Core

\* Everything that happens to adapter a except the end of an MQTT client.
LEMMA EventLives ==
  ASSUME TypeOK, Core, LiveInv, NEW a \in Adapters,
         \/ Opens(a) \/ Fails(a) \/ MintFails(a) \/ TimesOut(a)
         \/ Drops(a) \/ Heals(a) \/ Closed(a) \/ Reports(a)
  PROVE  LiveInv'
<1> DEFINE s == link[a].sock
           Kept == timer' = timer /\ gaveUp' = gaveUp
           Next1(l) ==
              /\ LinkInv(l)
              /\ l.told = link[a].told /\ l.kind = link[a].kind
              /\ l.sock \notin {"opening", "closing"}
              /\ s # "closing" \/ current # a
              /\ l.kind = "bambu" => l.sock # "none"
              /\ \/ Dead(l) /\ ~l.told
                 \/ l.kind = "bambuddy" /\ l.sock = "late"
                 => \/ s = "opening" /\ RetryAfter(Awaiting(a))
                    \/ link[a].kind = "bambuddy" /\ s = "late"
<1>1. /\ LinkInv(link[a]) /\ link[a] \in Link
      /\ link[a].told \in BOOLEAN
      /\ current = a =>
            /\ link[a].told <=> s = "closing"
            /\ link[a].told => link[a].kind = "bambu"
  BY LinksAssumption DEF Core, Link, LiveInv, CurrentLives
<1>2. PICK l, C :
        /\ Resume(a, l, C)
        /\ C \in {{}, Awaiting(a)}
        /\ Next1(l)
        /\ RetryAfter(C) \/ (timer' = timer /\ gaveUp' = gaveUp)
  <2>1. CASE Opens(a)
    <3>1. Next1(Opened(link[a]))
      BY <1>1, <2>1, OpenedInv DEF Opens, Opened, Dead, Trying, Link
    <3> QED
      BY <2>1, <3>1 DEF Opens
  <2>2. CASE Fails(a)
    <3>1. Next1(Lost(link[a]))
      BY <1>1, <2>2, LostInv DEF Fails, Lost, Dead, Trying, Link
    <3> QED
      BY <2>2, <3>1 DEF Fails
  <2>3. CASE MintFails(a)
    <3>1. Next1(MintFailed(link[a]))
      BY <1>1, <2>3, MintFailedInv DEF MintFails, MintFailed, Dead, Trying, Link
    <3> QED
      BY <2>3, <3>1 DEF MintFails
  <2>4. CASE TimesOut(a)
    <3>1. Next1(TimedOut(link[a]))
      BY <1>1, <2>4, TimedOutInv DEF TimesOut, TimedOut, HasTimeout, Dead, Link
    <3> QED
      BY <2>4, <3>1 DEF TimesOut
  <2>5. CASE Drops(a)
    <3>1. Next1(Lost(link[a]))
      BY <1>1, <2>5, LostInv DEF Drops, Lost, Dead, Link
    <3> QED
      BY <2>5, <3>1 DEF Drops
  <2>6. CASE Heals(a)
    <3>1. Next1(Reopened(link[a]))
      BY <1>1, <2>6, ReopenedInv DEF Heals, Reopened, Dead, Link, LinkInv
    <3> QED
      BY <2>6, <3>1 DEF Heals
  <2>7. CASE Closed(a)
    <3>1. Next1(Lost(link[a]))
      BY <1>1, <2>7, LostInv DEF Closed, Lost, Dead, Link
    <3> QED
      BY <2>7, <3>1 DEF Closed
  <2>8. CASE Reports(a)
    <3>1. Next1([link[a] EXCEPT !.reported = TRUE])
      BY <1>1, <2>8, ReportedInv DEF Reports, Dead, Link
    <3> QED
      BY <2>8, <3>1 DEF Reports
  <2> QED
    BY <2>1, <2>2, <2>3, <2>4, <2>5, <2>6, <2>7, <2>8
<1>3. UNCHANGED <<row, current>>
  BY <1>2 DEF Resume
<1>4. /\ Attempts'
      /\ current # NoAdapter =>
           link'[current] = IF current = a THEN l ELSE link[current]
  BY <1>2, ResumeLives DEF Awaiting, LiveInv
<1>5. timer \/ gaveUp => timer' \/ gaveUp'
  BY <1>2, RetryArmed
<1>6. s = "opening" /\ RetryAfter(Awaiting(a)) => timer' \/ gaveUp'
  BY RetryArmed DEF LiveInv, Attempts
<1>7. CurrentLives'
  <2>1. CASE current = a
    BY <1>1, <1>2, <1>3, <1>4, <1>5, <1>6, <2>1 DEF LiveInv, CurrentLives, Dead
  <2>2. CASE current # a
    BY <1>3, <1>4, <1>5, <2>2 DEF LiveInv, CurrentLives
  <2> QED
    BY <2>1, <2>2
<1>8. Unborn'
  BY <1>2, <1>3 DEF LiveInv, Unborn, Resume
<1> QED
  BY <1>4, <1>7, <1>8 DEF LiveInv

\* The end of an MQTT client takes the adapter out of the map.
LEMMA EndedLives ==
  ASSUME Core, LiveInv, NEW a \in Adapters, Ended(a)
  PROVE  LiveInv'
<1> DEFINE over == [link EXCEPT ![a].sock = "none", ![a].client = FALSE]
<1>1. PICK c \in Calls :
        \/ /\ call[c].at = "stopping"
           /\ AfterStop(c, call[c].sequel, call[c].kind, over, {}, timer)
        \/ /\ call[c].at = "replacing"
           /\ Create(c, call[c].kind, over)
           /\ waiting' = {}
           /\ UNCHANGED row
  BY DEF Ended
<1>2. /\ over \in [Adapters -> Link]
      /\ \A b \in Adapters :
            /\ LinkInv(over[b])
            /\ over[b].sock = "opening" => link[b].sock = "opening"
  <2>1. link \in [Adapters -> Link] /\ LinkInv(link[a]) /\ link[a].kind = "bambu"
    BY DEF Core, Ended
  <2>2. over = [link EXCEPT ![a] = [link[a] EXCEPT !.sock = "none",
                                                   !.client = FALSE]]
    BY <2>1 DEF Link
  <2>3. LinkInv([link[a] EXCEPT !.sock = "none", !.client = FALSE])
    BY <2>1 DEF LinkInv, Link, Sock
  <2>4. over \in [Adapters -> Link]
    BY <2>1, <2>2, <2>3 DEF LinkInv
  <2>5. /\ LinkInv(over[a]) /\ over[a].sock = "none"
        /\ \A b \in Adapters : b # a => over[b] = link[b]
    BY <2>1, <2>2, <2>3 DEF Link
  <2> QED
    BY <2>4, <2>5 DEF Core
<1> HIDE DEF over
<1>3. call[c].kind \in Kinds /\ call[c].at # "connecting"
  BY <1>1 DEF Core, CallsOK
<1>4. row # "none"
  BY <1>1, IdleCall DEF LiveInv, Unborn
<1>5. CASE AfterStop(c, call[c].sequel, call[c].kind, over, {}, timer)
  BY <1>2, <1>3, <1>4, <1>5, AfterStopLives
<1>6. CASE Create(c, call[c].kind, over) /\ UNCHANGED row
  BY <1>2, <1>3, <1>4, <1>6, CreateLives DEF LiveInv, Unborn
<1> QED
  BY <1>1, <1>5, <1>6

LEMMA InitLives == Init => LiveInv
<1> SUFFICES ASSUME Init PROVE LiveInv
  OBVIOUS
<1>1. Unborn /\ CurrentLives
  BY DEF Init, Unborn, CurrentLives
<1>2. Attempts
  BY DEF Init, Attempts, Unused
<1> QED
  BY <1>1, <1>2 DEF LiveInv

LEMMA NextLives == PrinterInv /\ LiveInv /\ [Next]_vars => LiveInv'
<1> SUFFICES ASSUME PrinterInv, LiveInv, [Next]_vars PROVE LiveInv'
  OBVIOUS
<1>1. TypeOK /\ Core /\ Attempts /\ mode \in Kinds
  BY DEF PrinterInv, TypeOK, LiveInv
<1>2. ASSUME UNCHANGED <<link, current, call, row, timer, gaveUp>> PROVE LiveInv'
  BY <1>2 DEF LiveInv, Unborn, Attempts, Awaiting, CurrentLives
<1>3. ASSUME NEW c \in Calls, NEW t, call[c] = Idle, row' # "none",
             StartAdapter(c, mode, t)
      PROVE  LiveInv'
  BY <1>1, <1>3, StartLives DEF LiveInv, Unborn
<1>4. ASSUME NEW c \in Calls, Request(c) PROVE LiveInv'
  <2>1. CASE Register(c)
    BY <1>3, <2>1 DEF Register
  <2>2. ASSUME NEW k \in Kinds, Patch(c, k) PROVE LiveInv'
    <3>1. call[c] = Idle /\ StopAdapter(c, "start", k) /\ row # "none"
      BY <2>2 DEF Patch
    <3> QED
      BY <1>1, <3>1, StopLives
  <2>3. CASE Reconnect(c)
    <3>1. call[c] = Idle /\ StopAdapter(c, "ask", mode) /\ row # "none"
      BY <2>3 DEF Reconnect
    <3> QED
      BY <1>1, <3>1, StopLives
  <2>4. CASE Disconnect(c)
    <3>1. call[c] = Idle /\ StopAdapter(c, "return", mode)
      BY <2>4 DEF Disconnect
    <3> QED
      BY <1>1, <3>1, StopLives
  <2>5. CASE Delete(c)
    <3>1. call[c] = Idle /\ StopAdapter(c, "delete", mode)
      BY <2>5 DEF Delete
    <3> QED
      BY <1>1, <3>1, StopLives
  <2> QED
    BY <1>4, <2>1, <2>2, <2>3, <2>4, <2>5 DEF Request
<1>5. ASSUME NEW c \in Calls, RetryFires(c) PROVE LiveInv'
  <2>1. CASE row = "present"
    BY <1>3, <1>5, <2>1 DEF RetryFires
  <2>2. CASE row # "present"
    <3>1. UNCHANGED <<link, row, current, call>>
      BY <1>5, <2>2 DEF RetryFires
    <3> QED
      BY <2>2, <3>1 DEF LiveInv, Unborn, Attempts, Awaiting, CurrentLives
  <2> QED
    BY <2>1, <2>2
<1>6. ASSUME NEW c \in Calls, Rotate(c) PROVE LiveInv'
  BY <1>3, <1>6 DEF Rotate
<1>7. ASSUME NEW c \in Calls, ReplyTimesOut(c) PROVE LiveInv'
  BY <1>2, <1>7 DEF ReplyTimesOut
<1>8. CASE Ages \/ UNCHANGED vars
  BY <1>2, <1>8 DEF Ages, vars, managerVars
<1>9. ASSUME NEW a \in Adapters,
             \/ Opens(a) \/ Fails(a) \/ MintFails(a) \/ TimesOut(a)
             \/ Drops(a) \/ Heals(a) \/ Closed(a) \/ Reports(a)
      PROVE  LiveInv'
  BY <1>1, <1>9, EventLives
<1>10. ASSUME NEW a \in Adapters, Ended(a) PROVE LiveInv'
  BY <1>1, <1>10, EndedLives
<1> QED
  BY <1>4, <1>5, <1>6, <1>7, <1>8, <1>9, <1>10 DEF Next, Network
----------------------------------------------------------------------------

\* The inductive invariant of the printer manager: the maps, the adapters and
\* the calls in progress agree, however requests, timers and the network are
\* interleaved.
THEOREM PrinterInvariant == Spec => []PrinterInv
  BY InitInv, NextInv, PTL DEF Spec

\* Every variable keeps its type.
THEOREM PrinterTypes == Spec => []TypeOK
<1>1. PrinterInv => TypeOK
  BY DEF PrinterInv
<1> QED
  BY <1>1, PrinterInvariant, PTL

\* An adapter told to disconnect never reconnects by itself: disconnect()
\* cancels reconnectTimer and nothing sets it again.
THEOREM ToldNeverHealsAlways == Spec => []ToldNeverHeals
<1>1. PrinterInv => ToldNeverHeals
  BY DEF PrinterInv, Core, LinkInv, ToldNeverHeals
<1> QED
  BY <1>1, PrinterInvariant, PTL

\* With web socket adapters every adapter but the current one was disconnected.
THEOREM OrphansAreToldAlways == Spec => []OrphansAreTold
<1>1. PrinterInv => OrphansAreTold
  BY DEF PrinterInv, WebPart, OrphansAreTold
<1> QED
  BY <1>1, PrinterInvariant, PTL

\* With web socket adapters a deleted printer has no adapter, ever again.
THEOREM DeletedStaysGoneAlways == Spec => []DeletedStaysGone
<1>1. PrinterInv => DeletedStaysGone
  BY DEF PrinterInv
<1> QED
  BY <1>1, PrinterInvariant, PTL

\* A call that awaits connect() has a hard timeout of its own pending.
THEOREM ConnectReturnsAlways == Spec => []ConnectReturns
<1>1. PrinterInv => ConnectReturns
  BY DEF PrinterInv, Core
<1> QED
  BY <1>1, PrinterInvariant, PTL

\* A reconnect that waits for an answer has its own attempt in flight.
THEOREM AnswerComesAlways == Spec => []AnswerComes
<1>1. PrinterInv => AnswerComes
  BY DEF PrinterInv, Core
<1> QED
  BY <1>1, PrinterInvariant, PTL

\* The adapter in the map, if it can do nothing by itself, is retried by the
\* manager unless the manager gave up.  LiveInv says so of a printer with calls
\* in progress too.
THEOREM NoForgottenPrinterAlways == Spec => []NoForgottenPrinter
<1>1. LiveInv => NoForgottenPrinter
  BY DEF LiveInv, CurrentLives, NoForgottenPrinter
<1>2. Spec => []LiveInv
  BY InitLives, NextLives, PrinterInvariant, PTL DEF Spec
<1> QED
  BY <1>1, <1>2, PTL
=============================================================================
