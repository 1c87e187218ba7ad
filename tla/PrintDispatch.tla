--------------------------- MODULE PrintDispatch ---------------------------
(***************************************************************************)
(* Sending gcode to a printer: POST /api/printers/:id/send, stage-file and *)
(* send-file, beside POST /api/jobs/:id/pauses and the removal of a job,   *)
(* which work in the same directories.                                     *)
(*                                                                         *)
(* An action runs from one await to the next.  Preparing the flags and, but *)
(* for a Bambu printer, reading the file to upload are synchronous and     *)
(* belong to the step in which rewriting ends or the request arrives.      *)
(***************************************************************************)
EXTENDS GcodeFiles

CONSTANTS
    Requests,      \* pool of requests in progress
    Klippers,      \* Moonraker printers: the gcode itself is adapted
    Bambus,        \* Bambu printers: FTP, mapping passed with the start
    Bambuddies,    \* Bambu printers behind Bambuddy: an archive per upload
    NoPrinter,     \* of a request that saves pauses
    NoMapping,     \* no mapping, or one that changes nothing
    MaxEvents,     \* bound on the restarts and staged uploads together
    MaxSteps       \* bound on how often a file is derived in a job's directory

Printers == Klippers \cup Bambus \cup Bambuddies

ASSUME DispatchAssumption ==
    /\ Outputs \cap Stages = {}
    /\ NoPrinter \notin Printers
    /\ Klippers \cap (Bambus \cup Bambuddies) = {}
    /\ Bambus \cap Bambuddies = {}
    /\ NoMapping \notin Mappings
    /\ Garbled \notin [of : Places, plate : 0..1, done : Seq(Mappings \cup Step)]
    /\ MaxEvents \in Nat
    /\ MaxSteps \in Nat

VARIABLES
    req,          \* the requests in progress
    disturbed,    \* requests another one got in the way of (history)
    litter,       \* files left by restarts and late streams (history)
    crashes       \* number of restarts

history == <<disturbed, litter>>
vars == <<there, archive, file, req, history, crashes>>

\* "rewriting": a read stream and a write stream at work, "failed": the reply
\* was an error but the write stream has yet to be opened, "connecting": FTP
\* login, "uploading", "starting".
At == {"idle", "rewriting", "failed", "connecting", "uploading", "starting"}

\* step: what the rewriting does; in, out: which of its streams are open;
\* path: the file uploaded or rewritten; temps: tempPaths; text: what was read
\* of path, then what the printer holds under the name given to it.
Request ==
    [at : At, place : Places, printer : Printers \cup {NoPrinter},
     mapping : Mappings \cup {NoMapping}, flags : BOOLEAN,
     step : {"mapped", "paused"}, in : BOOLEAN, out : BOOLEAN,
     path : Name, temps : SUBSET Name, text : Text]

Idle == [at |-> "idle"]

Init ==
    /\ there = [p \in Places |-> IF p \in Outputs THEN "present" ELSE "none"]
    /\ archive = {}
    /\ file = [p \in Places |->
                 IF p \in Outputs
                 THEN Written(NoFiles, Original,
                              [of |-> p, plate |-> 1, done |-> <<>>])
                 ELSE NoFiles]
    /\ req = [r \in Requests |-> Idle]
    /\ disturbed = {}
    /\ litter = {}
    /\ crashes = 0

Active == {r \in Requests : req[r] # Idle}

\* A request that has a file with mapped tool changes, or will have it.
Maps(q) == q.printer \in Klippers /\ q.mapping # NoMapping

\* Under this name the printer stores the file.
RemoteName(q) == IF q.place \in Stages THEN <<"staged">> ELSE q.path

----------------------------------------------------------------------------
(* The end of a request *)

\* The finally blocks: tempPaths T are unlinked, a staging directory is removed.
\* F: the files of the place.
Tidies(pl, F, T) ==
    IF pl \in Stages
    THEN /\ file' = [file EXCEPT ![pl] = NoFiles]
         /\ there' = [there EXCEPT ![pl] = "removed"]
    ELSE /\ file' = [file EXCEPT ![pl] = Without(F, T)]
         /\ UNCHANGED there

\* And the reply.
Ends(r, pl, F, T) ==
    /\ Tidies(pl, F, T)
    /\ req' = [req EXCEPT ![r] = Idle]

----------------------------------------------------------------------------
(* From the file to send to the first await of the upload *)

\* manager.uploadFile of path n; without an adapter, or without the file, it
\* throws.  A request that only saved pauses is done.
Upload(r, q, F, n, T) ==
    \/ Ends(r, q.place, F, T)
    \/ /\ n \in DOMAIN F
       /\ file' = [file EXCEPT ![q.place] = F]
       /\ req' = [req EXCEPT ![r] =
                    [q EXCEPT !.at = "uploading", !.path = n, !.temps = T,
                              !.text = Content(F[n])]]
       /\ q.printer \notin Bambus
       /\ UNCHANGED there
    \/ /\ q.printer \in Bambus
       /\ file' = [file EXCEPT ![q.place] = F]
       /\ req' = [req EXCEPT ![r] =
                    [q EXCEPT !.at = "connecting", !.path = n, !.temps = T]]
       /\ UNCHANGED there

\* Mutant: the file with the flags is not entered in tempPaths.
PrepareForgets(r, q, F, n, T) ==
    IF q.printer \in Klippers /\ q.flags
    THEN LET m == Append(n, "flags") IN
         IF n \in DOMAIN F
         THEN Upload(r, q, Written(F, m, Applied(Content(F[n]), "flags")), m, T)
         ELSE Ends(r, q.place, F, {})
    ELSE Upload(r, q, F, n, T)

\* prepareKlipperGcode, then the upload.  It throws where no finally block
\* unlinks the files of a job.
Prepare(r, q, F, n, T) ==
    IF q.printer \in Klippers /\ q.flags
    THEN LET m == Append(n, "flags") IN
         IF n \in DOMAIN F
         THEN Upload(r, q, Written(F, m, Applied(Content(F[n]), "flags")), m,
                     T \cup {m})
         ELSE Ends(r, q.place, F, {})
    ELSE Upload(r, q, F, n, T)

\* rewriteGcodeToolMapping and injectPauses up to their promise.
Rewrite(r, q, F, n, step) ==
    /\ file' = [file EXCEPT ![q.place] = F]
    /\ req' = [req EXCEPT ![r] =
                 [q EXCEPT !.at = "rewriting", !.path = n, !.step = step]]
    /\ UNCHANGED there

----------------------------------------------------------------------------
(* Requests *)

\* The file /send and /pauses take, and the one send-file takes.
Source(q) ==
    IF q.place \in Outputs THEN FindGcode(file[q.place])
    ELSE IF q.place \in archive /\ q.printer \in Klippers THEN <<"extracted">>
    ELSE Original

\* Rewritings in progress that a new one for the same place meets.
Met(q) == {s \in Active : Maps(req[s]) /\ req[s].place = q.place}

\* q has something in its way if a mapped file is in the directory it looks
\* into, or if it rewrites while another request does.
Hindered(q) ==
    \/ q.place \in Outputs /\ \E n \in DOMAIN file[q.place] : Dots(n) > 0
    \/ Maps(q) /\ Met(q) # {}

\* Length of the name of the file that will be uploaded.
Steps(q) == Len(Source(q)) + (IF Maps(q) THEN 1 ELSE 0) + (IF q.flags THEN 1 ELSE 0)

Begin(r, q) ==
    /\ req[r] = Idle
    /\ there[q.place] = "present"
    /\ Source(q) \in DOMAIN file[q.place]
    /\ q.place \in Outputs => Steps(q) <= MaxSteps
    /\ IF Maps(q)
       THEN Rewrite(r, q, file[q.place], Source(q), "mapped")
       ELSE Prepare(r, q, file[q.place], Source(q), {})
    /\ disturbed' =
         (IF Maps(q) THEN disturbed \cup {s \in Met(q) : req[s].at = "rewriting"}
          ELSE disturbed)
         \cup (IF Hindered(q) THEN {r} ELSE {})
    /\ UNCHANGED <<archive, litter, crashes>>

New(pl, p, m, flags) ==
    [at |-> "idle", place |-> pl, printer |-> p, mapping |-> m, flags |-> flags,
     step |-> "mapped", in |-> FALSE, out |-> FALSE, path |-> Original,
     temps |-> {}, text |-> Garbled]

\* A mapping and options for a Bambu printer go with the start, untouched.
Adapts(p, m, flags) == p \in Klippers \/ (m = NoMapping /\ ~flags)

\* POST /api/printers/:id/send for a completed job.
Send(r, pl, p, m, flags) ==
    /\ pl \in Outputs
    /\ Adapts(p, m, flags)
    /\ Begin(r, New(pl, p, m, flags))

\* POST /api/printers/:id/send-file.  For a Klipper printer body.plate is
\* ignored, for a Bambu printer it goes with the start.
SendFile(r, pl, p, m, flags) ==
    /\ pl \in Stages
    /\ Adapts(p, m, flags)
    /\ Begin(r, New(pl, p, m, flags))

\* Bound.
MoreEvents ==
    crashes + Cardinality({pl \in Stages : there[pl] # "none"}) < MaxEvents

\* POST /api/printers/:id/stage-file, up to its reply: nobody knows the
\* directory before.
StageFile(pl, is3mf) ==
    /\ pl \in Stages
    /\ there[pl] = "none"
    /\ MoreEvents
    /\ there' = [there EXCEPT ![pl] = "present"]
    /\ LET plain == [of |-> pl, plate |-> 1, done |-> <<>>]
           F == Written(NoFiles, Original, [plain EXCEPT !.plate = 0])
       IN IF is3mf
          THEN /\ archive' = archive \cup {pl}
               /\ file' = [file EXCEPT ![pl] = Written(F, <<"extracted">>, plain)]
          ELSE /\ file' = [file EXCEPT ![pl] = Written(NoFiles, Original, plain)]
               /\ UNCHANGED archive
    /\ UNCHANGED <<req, history, crashes>>

\* POST /api/jobs/:id/pauses: the old variant with pauses is removed, and made
\* anew if there are any.
SavePauses(r, pl) ==
    LET q == New(pl, NoPrinter, NoMapping, FALSE)
        F == Without(file[pl], {Append(Source(q), "paused")}) IN
    /\ pl \in Outputs
    /\ req[r] = Idle
    /\ there[pl] = "present"
    /\ Source(q) \in DOMAIN file[pl]
    /\ Len(Source(q)) < MaxSteps
    /\ \/ Rewrite(r, q, F, Source(q), "paused")
       \/ /\ file' = [file EXCEPT ![pl] = F]
          /\ UNCHANGED <<there, req>>
    /\ UNCHANGED <<archive, history, crashes>>

\* DELETE /api/jobs/:id, or the cleanup, removes the directory.
RemoveOutput(pl) ==
    /\ pl \in Outputs
    /\ there[pl] = "present"
    /\ there' = [there EXCEPT ![pl] = "removed"]
    /\ file' = [file EXCEPT ![pl] = NoFiles]
    /\ UNCHANGED <<archive, req, history, crashes>>

----------------------------------------------------------------------------
(* The streams of a rewriting *)

Target(q) == Append(q.path, q.step)

\* The source is open; what it holds is read to the end.
InputOpens(r) ==
    LET q == req[r] IN
    /\ q.at = "rewriting"
    /\ ~q.in
    /\ q.path \in DOMAIN file[q.place]
    /\ req' = [req EXCEPT ![r].in = TRUE,
                          ![r].text = Content(file[q.place][q.path])]
    /\ UNCHANGED <<there, archive, file, history, crashes>>

\* The source has been removed: the target is unlinked, whoever made it, and
\* the promise rejected.  The write stream may still be waiting to be opened.
InputFails(r) ==
    LET q == req[r] IN
    /\ q.at = "rewriting"
    /\ ~q.in
    /\ q.path \notin DOMAIN file[q.place]
    /\ Tidies(q.place, file[q.place], {Target(q)})
    /\ req' = [req EXCEPT ![r] = IF q.out THEN Idle ELSE [q EXCEPT !.at = "failed"]]
    /\ disturbed' = IF q.out THEN disturbed \ {r} ELSE disturbed
    /\ UNCHANGED <<archive, litter, crashes>>

\* The target is created, or emptied.
OutputOpens(r) ==
    LET q == req[r] IN
    /\ q.at = "rewriting"
    /\ ~q.out
    /\ there[q.place] = "present"
    /\ file' = [file EXCEPT ![q.place] = Truncated(@, Target(q), r)]
    /\ req' = [req EXCEPT ![r].out = TRUE]
    /\ UNCHANGED <<there, archive, history, crashes>>

\* The directory is gone.
OutputFails(r) ==
    LET q == req[r] IN
    /\ q.at = "rewriting"
    /\ ~q.out
    /\ there[q.place] = "removed"
    /\ Ends(r, q.place, file[q.place], {})
    /\ disturbed' = disturbed \ {r}
    /\ UNCHANGED <<archive, litter, crashes>>

\* The write stream of a request that has failed is opened after all.
LateOutput(r) ==
    LET q == req[r]
        F == file[q.place]
        n == Target(q) IN
    /\ q.at = "failed"
    /\ IF there[q.place] = "present"
       THEN /\ file' = [file EXCEPT ![q.place] =
                          Finished(Truncated(F, n, r), n, r, Garbled)]
            /\ litter' = litter \cup {<<q.place, n>>}
       ELSE UNCHANGED <<file, litter>>
    /\ req' = [req EXCEPT ![r] = Idle]
    /\ disturbed' = disturbed \ {r}
    /\ UNCHANGED <<there, archive, crashes>>

\* All is written; the handler goes on.
RewriteEnds(r) ==
    LET q == req[r]
        n == Target(q)
        t == Applied(q.text, IF q.step = "mapped" THEN q.mapping ELSE q.step)
        F == Finished(file[q.place], n, r, t)
    IN
    /\ q.at = "rewriting"
    /\ q.in
    /\ q.out
    /\ IF q.step = "mapped" THEN Prepare(r, q, F, n, {n})
       ELSE Ends(r, q.place, F, {})
    /\ disturbed' = IF req'[r] = Idle THEN disturbed \ {r} ELSE disturbed
    /\ UNCHANGED <<archive, litter, crashes>>

----------------------------------------------------------------------------
(* Upload and start *)

\* Another request's upload under the same name to the same printer.
Rivals(r) ==
    {s \in Active \ {r} :
        /\ req[s].at = "starting"
        /\ req[s].printer = req[r].printer
        /\ req[s].printer \notin Bambuddies
        /\ RemoteName(req[s]) = RemoteName(req[r])}

\* The printer now holds t under the name of r's file.
Stored(r, t, q) ==
    req' = [s \in Requests |->
              IF s = r THEN q
              ELSE IF s \in Rivals(r) THEN [req[s] EXCEPT !.text = t]
              ELSE req[s]]

\* FTP login succeeded: the file is opened and the printer's copy truncated.
FtpBegins(r) ==
    LET q == req[r] IN
    /\ q.at = "connecting"
    /\ q.path \in DOMAIN file[q.place]
    /\ Stored(r, Garbled, [q EXCEPT !.at = "uploading",
                                    !.text = Content(file[q.place][q.path])])
    /\ disturbed' = disturbed \cup Rivals(r)
    /\ UNCHANGED <<there, archive, file, litter, crashes>>

\* The upload is acknowledged, the print is to be started (startPrint).
UploadEnds(r) ==
    LET q == req[r] IN
    /\ q.at = "uploading"
    /\ Stored(r, q.text, [q EXCEPT !.at = "starting"])
    /\ disturbed' = disturbed \cup Rivals(r)
    /\ UNCHANGED <<there, archive, file, litter, crashes>>

\* The upload is acknowledged and that was all.
UploadOnlyEnds(r) ==
    LET q == req[r] IN
    /\ q.at = "uploading"
    /\ Tidies(q.place, file[q.place], q.temps)
    /\ Stored(r, q.text, Idle)
    /\ disturbed' = (disturbed \cup Rivals(r)) \ {r}
    /\ UNCHANGED <<archive, litter, crashes>>

\* The upload or the start fails, or the start is acknowledged; in each case
\* the handler ends.
SendEnds(r) ==
    LET q == req[r] IN
    /\ q.at \in {"connecting", "uploading", "starting"}
    /\ Ends(r, q.place, file[q.place], q.temps)
    /\ disturbed' = disturbed \ {r}
    /\ UNCHANGED <<archive, litter, crashes>>

Temporary(n) == n # Original /\ n[Len(n)] \in {"mapped", "flags"}

\* The server stops and starts again.
Crash ==
    /\ MoreEvents
    /\ crashes' = crashes + 1
    /\ req' = [r \in Requests |-> Idle]
    /\ disturbed' = {}
    /\ litter' = litter \cup
         UNION {{p} \X {n \in DOMAIN file[p] : Temporary(n)} : p \in Outputs}
    /\ file' = [p \in Places |-> Abandoned(file[p])]
    /\ UNCHANGED <<there, archive>>

----------------------------------------------------------------------------
Asks(r) ==
    \E pl \in Places, p \in Printers, m \in Mappings \cup {NoMapping},
       flags \in BOOLEAN :
        \/ Send(r, pl, p, m, flags)
        \/ SendFile(r, pl, p, m, flags)

Streams(r) ==
    \/ InputOpens(r)
    \/ InputFails(r)
    \/ OutputOpens(r)
    \/ OutputFails(r)
    \/ LateOutput(r)
    \/ RewriteEnds(r)

Transfers(r) ==
    \/ FtpBegins(r)
    \/ UploadEnds(r)
    \/ UploadOnlyEnds(r)
    \/ SendEnds(r)

Next ==
    \/ \E r \in Requests :
        \/ Asks(r)
        \/ \E pl \in Outputs : SavePauses(r, pl)
        \/ Streams(r)
        \/ Transfers(r)
    \/ \E pl \in Stages, is3mf \in BOOLEAN : StageFile(pl, is3mf)
    \/ \E pl \in Outputs : RemoveOutput(pl)
    \/ Crash

Spec == Init /\ [][Next]_vars

----------------------------------------------------------------------------
(* Properties *)

\* What the printer is to get for q (printers.ts:632-638, 753-756).
Wanted(q) ==
    [of |-> q.place,
     plate |-> IF q.place \in archive /\ q.printer \notin Klippers THEN 0 ELSE 1,
     done |-> (IF Maps(q) THEN <<q.mapping>> ELSE <<>>) \o
              (IF q.printer \in Klippers /\ q.flags THEN <<"flags">> ELSE <<>>)]

\* However requests overlap, a printer gets the gcode of the requested job or
\* upload with the requested mapping and flags, and holds it when the print is
\* started, except where the code is known to mix things up: a mapped file of
\* another request, or of one that a restart cut off, was in the directory;
\* two mapped requests for one directory overlapped; or the printer was sent
\* another file of that name.
AsRequested ==
    \A r \in Requests \ disturbed :
        req[r].at \in {"uploading", "starting"} => req[r].text = Wanted(req[r])

Owns(q, n) ==
    \/ q.at = "rewriting" /\ q.step = "mapped" /\ n = Target(q)
    \/ q.at \in {"connecting", "uploading", "starting"} /\ n \in q.temps

\* A temporary file in a job's directory is one that a request in progress will
\* unlink (tempPaths, printers.ts:662-704), whatever fails and whoever unlinks
\* the file of another; restarts and streams opened after their request has
\* failed are the only ways to leave one.
TempHasOwner ==
    \A pl \in Outputs : \A n \in DOMAIN file[pl] :
        Temporary(n) =>
            \/ \E r \in Active : req[r].place = pl /\ Owns(req[r], n)
            \/ <<pl, n>> \in litter

=============================================================================
