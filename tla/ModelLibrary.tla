---------------------------- MODULE ModelLibrary ----------------------------
(* The models of the server: rows of the database beside directories on disk.  *)
(* Uploads and imports from MakerWorld (routes/models.ts, makerworld.ts) await *)
(* the network and the unpacking of the archive, so that they interleave with  *)
(* each other, with deletions, and with crashes of the server.                 *)
EXTENDS Naturals, FiniteSets

CONSTANTS Archives,   \* [format, plates, good, settings]: good plates can be read
          Designs,    \* MakerWorld profile -> the archive it holds
          Faults,     \* which of "crash", "database"
          MaxModels,  \* bound: model ids
          MaxImports, \* bound: imports asked for
          MaxFaults   \* bound: crashes and failed statements

ASSUME LibraryAssumption == \A d \in DOMAIN Designs : Designs[d] \in Archives

VARIABLES rows,     \* models by id, with their plates: a function on the ids in use
          disk,     \* <<id, 0>>: the original, <<id, p>>: plate p with its parts
          requests, \* uploads and imports under way
          token,    \* a Bambu token is stored
          pending,  \* needsCode, kept in localStorage: "no" | "totp" | "email"
          nextId, imports, faults,
          broken    \* ids hit by a crash or a failed statement

libraryVars == <<rows, disk, requests, token, pending, nextId, imports, faults, broken>>
login == <<token, pending>>
bounds == <<imports, faults>>

NoUrl == "no url"
Files(a) == IF a.format = "3mf" THEN 0..a.plates ELSE {0}
Without(f, i) == [j \in DOMAIN f \ {i} |-> f[j]]
With(i, row) == [j \in DOMAIN rows \union {i} |-> IF j = i THEN row ELSE rows[j]]
Emptied(i) == {e \in disk : e[1] # i}

LibraryInit ==
    /\ rows = <<>> /\ disk = {} /\ requests = {}
    /\ token = FALSE /\ pending = "no"
    /\ nextId = 1 /\ imports = 0 /\ faults = 0
    /\ broken = {}

\* The row of a model as insertModel and insertPlate leave it.
Row(r) == [file |-> r.file, plates |-> IF r.file.format = "3mf" THEN 1..r.file.plates ELSE {},
           source |-> "none", url |-> NoUrl, settings |-> FALSE,
           design |-> r.url, alone |-> FALSE, done |-> FALSE]

Request(i, url, a, stage, alone) ==
    [id |-> i, url |-> url, file |-> a, stage |-> stage, plate |-> 1, alone |-> alone]

Becomes(r, s) == requests' = (requests \ {r}) \union {s}
Ends(r) == requests' = requests \ {r}
NewId == nextId <= MaxModels /\ nextId' = nextId + 1
Fault(kind) == kind \in Faults /\ faults < MaxFaults /\ faults' = faults + 1

-----------------------------------------------------------------------------
(* Upload                                                                      *)

\* STL and STEP are stored in one go; an STL that cannot be read leaves nothing,
\* an insert that fails leaves the file.
UploadMesh(a) ==
    /\ a.format # "3mf" /\ NewId
    /\ \/ /\ a.format = "step" \/ a.good = 1..a.plates
          /\ disk' = disk \union {<<nextId, 0>>}
          /\ rows' = With(nextId, [Row(Request(nextId, NoUrl, a, "", TRUE)) EXCEPT !.done = TRUE])
          /\ UNCHANGED <<faults, broken>>
       \/ /\ a.format = "stl" /\ a.good # 1..a.plates
          /\ UNCHANGED <<disk, rows, faults, broken>>
       \/ /\ Fault("database")
          /\ disk' = disk \union {<<nextId, 0>>} /\ broken' = broken \union {nextId}
          /\ UNCHANGED rows
    /\ UNCHANGED <<requests, login, imports>>

Upload3MF(a) ==
    /\ a.format = "3mf" /\ NewId
    /\ requests' = requests \union {Request(nextId, NoUrl, a, "reading", TRUE)}
    /\ UNCHANGED <<rows, disk, login, bounds, broken>>

-----------------------------------------------------------------------------
(* register3MFModel: a directory that fills up plate by plate, then the rows   *)

Reading(r) == r.stage = "reading" /\ r.plate \in r.file.good
Stored(r) == disk \union {<<r.id, p>> : p \in {0, r.plate}}

\* parse3MF is back with a plate.
ReadPlate(r) ==
    /\ Reading(r) /\ r.plate < r.file.plates
    /\ disk' = Stored(r)
    /\ Becomes(r, [r EXCEPT !.plate = @ + 1])
    /\ UNCHANGED <<rows, login, nextId, bounds, broken>>

\* The last plate: the rows follow without a pause.
ReadLastPlate(r) ==
    /\ Reading(r) /\ r.plate = r.file.plates
    /\ disk' = Stored(r)
    /\ rows' = With(r.id, Row(r))
    /\ Becomes(r, [r EXCEPT !.stage = "settings"])
    /\ UNCHANGED <<login, nextId, bounds, broken>>

\* Mutant: the failed import keeps its directory.
UnreadableKept(r) ==
    /\ r.stage = "reading" /\ r.plate \notin r.file.good
    /\ Ends(r)
    /\ UNCHANGED <<rows, disk, login, nextId, bounds, broken>>

\* A plate that cannot be read or has too many faces: the directory goes.
Unreadable(r) ==
    /\ r.stage = "reading" /\ r.plate \notin r.file.good
    /\ disk' = Emptied(r.id)
    /\ Ends(r)
    /\ UNCHANGED <<rows, login, nextId, bounds, broken>>

\* An INSERT throws: the directory goes, the rows inserted before it stay.
InsertFails(r) ==
    /\ Reading(r) /\ r.plate = r.file.plates
    /\ Fault("database")
    /\ \/ UNCHANGED rows
       \/ \E k \in 0..r.file.plates : rows' = With(r.id, [Row(r) EXCEPT !.plates = 1..k])
    /\ disk' = Emptied(r.id) /\ broken' = broken \union {r.id}
    /\ Ends(r)
    /\ UNCHANGED <<login, nextId, imports>>

\* extractProjectSettings is back: UPDATEs, which do nothing to a row that is gone.
Settings(r, row) ==
    IF r.file.settings
    THEN [row EXCEPT !.settings = TRUE, !.source = IF @ = "none" THEN "3mf-bundle" ELSE @]
    ELSE row

Update(r, row(_)) ==
    IF r.id \in DOMAIN rows THEN rows' = [rows EXCEPT ![r.id] = row(@)] ELSE UNCHANGED rows

Registered(r) ==
    /\ r.stage = "settings" /\ r.url = NoUrl
    /\ Update(r, LAMBDA row : [Settings(r, row) EXCEPT !.done = TRUE])
    /\ Ends(r)
    /\ UNCHANGED <<disk, login, nextId, bounds, broken>>

-----------------------------------------------------------------------------
(* MakerWorld                                                                  *)

\* findModelBySourceUrl.
Found(url) == {i \in DOMAIN rows : rows[i].url = url}

\* Without a token, or with a model of that profile, the answer is immediate.
\* The id, random in the code, is taken here so that no two requests are the same.
StartImport(url) ==
    /\ token /\ Found(url) = {} /\ NewId
    /\ imports < MaxImports /\ imports' = imports + 1
    /\ LET rivals == {r \in requests : r.url = url}
       IN requests' = (requests \ rivals) \union {[r EXCEPT !.alone = FALSE] : r \in rivals}
                      \union {Request(nextId, url, Designs[url], "fetching", rivals = {})}
    /\ UNCHANGED <<rows, disk, login, faults, broken>>

\* getSignedDownloadUrl and download3mf: nothing is kept until both are through.
Fetched(r) ==
    /\ r.stage = "fetching"
    /\ Becomes(r, [r EXCEPT !.stage = "reading"])
    /\ UNCHANGED <<rows, disk, login, nextId, bounds, broken>>
FetchFails(r) ==
    /\ r.stage = "fetching"
    /\ Ends(r)
    /\ UNCHANGED <<rows, disk, login, nextId, bounds, broken>>

\* Mutant: where the model comes from is kept if an upload has said it already.
ImportRegisteredLate(r) ==
    /\ r.stage = "settings" /\ r.url # NoUrl
    /\ Update(r, LAMBDA row : [Settings(r, row) EXCEPT !.url = IF r.file.settings THEN @ ELSE r.url,
                                                       !.alone = r.alone])
    /\ Becomes(r, [r EXCEPT !.stage = "again"])
    /\ UNCHANGED <<disk, login, nextId, bounds, broken>>

\* The model is registered and now gets its origin; the settings are read again.
ImportRegistered(r) ==
    /\ r.stage = "settings" /\ r.url # NoUrl
    /\ Update(r, LAMBDA row : [Settings(r, row) EXCEPT !.source = "makerworld", !.url = r.url,
                                                       !.alone = r.alone])
    /\ Becomes(r, [r EXCEPT !.stage = "again"])
    /\ UNCHANGED <<disk, login, nextId, bounds, broken>>
Imported(r) ==
    /\ r.stage = "again"
    /\ Update(r, LAMBDA row : [row EXCEPT !.settings = @ \/ r.file.settings, !.done = TRUE,
                                          !.alone = @ /\ r.alone])
    /\ Ends(r)
    /\ UNCHANGED <<disk, login, nextId, bounds, broken>>

\* bambuLogin: a password may have to be followed by a code; while one is awaited
\* only the code is sent.
Login(answer) ==
    /\ token' = (token \/ answer = "token")
    /\ pending' = CASE answer = "token" -> "no" [] answer = "refused" -> pending [] OTHER -> answer
    /\ UNCHANGED <<rows, disk, requests, nextId, bounds, broken>>

-----------------------------------------------------------------------------
(* Deletion and crashes                                                        *)

DeleteModel(i) ==
    /\ i \in DOMAIN rows
    /\ disk' = Emptied(i) /\ rows' = Without(rows, i)
    /\ UNCHANGED <<requests, login, nextId, bounds, broken>>

\* The server dies between the directory and the row.
DieDeleting(i) ==
    /\ i \in DOMAIN rows
    /\ Fault("crash")
    /\ disk' = Emptied(i) /\ requests' = {}
    /\ broken' = broken \union {i} \union {r.id : r \in requests}
    /\ UNCHANGED <<rows, login, nextId, imports>>

\* Anywhere else; the archive may be half unpacked, the rows half inserted.
Die ==
    /\ requests # {}
    /\ Fault("crash")
    /\ requests' = {} /\ broken' = broken \union {r.id : r \in requests}
    /\ \/ UNCHANGED <<rows, disk>>
       \/ \E r \in requests, k \in 0..2 :
            /\ Reading(r) /\ r.plate = r.file.plates
            /\ disk' = Stored(r)
            /\ k <= r.file.plates /\ rows' = With(r.id, [Row(r) EXCEPT !.plates = 1..k])
    /\ UNCHANGED <<login, nextId, imports>>

LibraryNext ==
    \/ \E a \in Archives : UploadMesh(a) \/ Upload3MF(a)
    \/ \E url \in DOMAIN Designs : StartImport(url)
    \/ \E answer \in {"token", "totp", "email", "refused"} : Login(answer)
    \/ \E r \in requests :
            \/ ReadPlate(r) \/ ReadLastPlate(r) \/ Unreadable(r) \/ InsertFails(r) \/ Registered(r)
            \/ Fetched(r) \/ FetchFails(r) \/ ImportRegistered(r) \/ Imported(r)
    \/ \E i \in 1..MaxModels : DeleteModel(i) \/ DieDeleting(i)
    \/ Die

-----------------------------------------------------------------------------
(* Properties                                                                  *)

\* Whatever requests and deletions cross each other: a model that is listed has
\* all its files, and files belong to a listed model or to a request under way.
\* Only ids that a crash or a failed statement has hit are excepted; nothing in
\* the code ever repairs those.
DiskMatchesRows ==
    \A i \in (1..MaxModels) \ broken :
        /\ i \in DOMAIN rows => {<<i, p>> : p \in Files(rows[i].file)} \subseteq disk
        /\ i \in {e[1] : e \in disk} => i \in DOMAIN rows \union {r.id : r \in requests}

\* A MakerWorld profile is in the library once, unless two imports of it were
\* under way at the same time or one was broken off ("Dedup: if we've already
\* imported this exact profile, return existing model").
ImportedOnce ==
    \A i, j \in DOMAIN rows :
        (i # j /\ rows[i].design = rows[j].design /\ rows[i].design # NoUrl /\ rows[i].done /\ rows[j].done)
            => ~rows[i].alone /\ ~rows[j].alone
=============================================================================
