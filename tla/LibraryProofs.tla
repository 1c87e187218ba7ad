---------------------------- MODULE LibraryProofs ---------------------------
(***************************************************************************)
(* The three parts of Library, for any archives, designs, profiles, seeds  *)
(* and bundles, and any number of ids, crashes and failed statements.      *)
(*                                                                         *)
(* Profiles: what the user stored is in the old table until the copy, and  *)
(* in the new one from then on; requests are answered only after it.       *)
(* Models: a directory belongs to its request until the row is written,    *)
(* and to the row from then on.  Picker: what the clearing effect last ran *)
(* for is listed, and any answer that changes it makes a render due.       *)
(***************************************************************************)
EXTENDS Library, Integers, TLAPS

\* Profile k is where the user left it, or went with the old table.
KeptOrLost(k) ==
    \/ k \in DOMAIN table /\ table[k] = mine[k]
    \/ lost /\ mine[k] = "legacy"

StoreInv ==
    /\ schema \in {"old", "renamed", "created", "copied", "new"}
    /\ boot \in {"seeding", "up"} => schema = "new"
    /\ zips # {} => boot = "up"
    /\ schema \in {"old", "renamed", "created"} => old = Old /\ mine = Old
    /\ schema = "copied" => table = mine
    /\ boot = "off" /\ schema \in {"renamed", "created"} => lost
    /\ schema = "new" => \A k \in DOMAIN mine : KeptOrLost(k)

\* The old profiles all have the same content.
LEMMA OldIsLegacy == \A k \in DOMAIN Old : Old[k] = "legacy"
BY DEF Old

LEMMA InitKeeps == Init => StoreInv
BY DEF Init, StoreInit, StoreInv, KeptOrLost

\* A statement of a start, or a crash at it.
LEMMA StartKeeps ==
    ASSUME StoreInv,
           Boot \/ Rename \/ Create \/ Copy \/ DropOld \/ Listen \/ Stop
    PROVE  StoreInv'
<1>1. CASE Boot
  <2>1. CASE schema = "old"
    BY <1>1, <2>1 DEF Boot, StoreInv
  <2>2. CASE schema \in {"renamed", "created"}
    BY <1>1, <2>2, OldIsLegacy DEF Boot, StoreInv, KeptOrLost
  <2>3. CASE schema \in {"copied", "new"}
    BY <1>1, <2>3 DEF Boot, StoreInv, KeptOrLost
  <2> QED
    BY <2>1, <2>2, <2>3 DEF StoreInv
<1>2. CASE Rename
  BY <1>2 DEF Rename, Migrate, StoreInv
<1>3. CASE Create
  BY <1>3 DEF Create, Migrate, StoreInv
<1>4. CASE Copy
  BY <1>4 DEF Copy, Migrate, StoreInv
<1>5. CASE DropOld
  BY <1>5 DEF DropOld, Migrate, StoreInv, KeptOrLost
<1>6. CASE Listen
  BY <1>6 DEF Listen, StoreInv, KeptOrLost
<1>7. CASE Stop
  BY <1>7 DEF Stop, StoreInv, KeptOrLost
<1> QED
  BY <1>1, <1>2, <1>3, <1>4, <1>5, <1>6, <1>7

\* Seeding writes only what is not there.
LEMMA SeedKeeps ==
    ASSUME StoreInv, NEW k, Seed(k)
    PROVE  StoreInv'
<1>1. /\ DOMAIN table' = DOMAIN table \union {k}
      /\ \A j \in DOMAIN table \ {k} : table'[j] = table[j]
      /\ k \notin DOMAIN table
  BY DEF Seed, Put
<1>2. \A j \in DOMAIN mine : KeptOrLost(j)'
  BY <1>1 DEF Seed, StoreInv, KeptOrLost
<1> QED
  BY <1>2 DEF Seed, StoreInv

\* A profile that is stored goes into both, whatever was there.
LEMMA StoreKeeps ==
    ASSUME StoreInv, NEW k, NEW c, Store(k, c), boot = "up"
    PROVE  StoreInv'
<1>1. \A j \in DOMAIN mine' : KeptOrLost(j)'
  BY DEF Store, Put, StoreInv, KeptOrLost
<1> QED
  BY <1>1 DEF Store, StoreInv

LEMMA DeleteKeeps ==
    ASSUME StoreInv, NEW k, DeleteProfile(k)
    PROVE  StoreInv'
<1>1. \A j \in DOMAIN mine' : KeptOrLost(j)'
  BY DEF DeleteProfile, Drop, StoreInv, KeptOrLost
<1> QED
  BY <1>1 DEF DeleteProfile, StoreInv

LEMMA ImportLocalKeeps ==
    ASSUME StoreInv, ImportLocal
    PROVE  StoreInv'
<1>1. \A j \in DOMAIN mine' : KeptOrLost(j)'
  BY DEF ImportLocal, StoreInv, KeptOrLost
<1> QED
  BY <1>1 DEF ImportLocal, StoreInv

LEMMA StepKeeps ==
    ASSUME StoreInv, [Next]_vars
    PROVE  StoreInv'
<1>1. CASE UNCHANGED storeVars
  BY <1>1 DEF storeVars, StoreInv, KeptOrLost
<1>2. CASE StoreNext
  <2>1. CASE Boot \/ Rename \/ Create \/ Copy \/ DropOld \/ Listen \/ Stop
    BY <2>1, StartKeeps
  <2>2. ASSUME NEW k \in Keys, Seed(k)
        PROVE  StoreInv'
    BY <2>2, SeedKeeps
  <2>3. ASSUME NEW k \in Keys, Save(k) \/ ImportJson(k) \/ Synthesize(k)
        PROVE  StoreInv'
    BY <2>3, StoreKeeps DEF Save, ImportJson, Synthesize
  <2>4. ASSUME NEW k \in Keys, DeleteProfile(k)
        PROVE  StoreInv'
    BY <2>4, DeleteKeeps
  <2>5. ASSUME NEW b \in Bundles, StartZip(b)
        PROVE  StoreInv'
    BY <2>5 DEF StartZip, StoreInv, KeptOrLost
  <2>6. ASSUME NEW b \in zips, ZipEntry(b)
        PROVE  StoreInv'
    BY <2>6, StoreKeeps DEF ZipEntry, StoreInv
  <2>7. CASE ImportLocal
    BY <2>7, ImportLocalKeeps
  <2> QED
    BY <1>2, <2>1, <2>2, <2>3, <2>4, <2>5, <2>6, <2>7 DEF StoreNext
<1> QED
  BY <1>1, <1>2 DEF Next, vars

\* Where the profiles of the user are, at every statement of every start.
THEOREM StoreInvariant == Spec => []StoreInv
BY InitKeeps, StepKeeps, PTL DEF Spec

\* What the user stored is there when the server answers requests, however often and
\* wherever its starts were cut short (db/migrations.ts, db/seed-profiles.ts).
THEOREM ProfilesKeptAlways == Spec => []ProfilesKept
<1>1. StoreInv => ProfilesKept
  BY DEF StoreInv, ProfilesKept, KeptOrLost
<1> QED
  BY <1>1, StoreInvariant, PTL
----------------------------------------------------------------------------
(* Models: rows, directories and requests under way *)

Urls == DOMAIN Designs \union {NoUrl}
Early == {"fetching", "reading"}

RequestType ==
    [id : Nat, url : Urls, file : Archives, stage : Early \union {"settings", "again"},
     plate : Nat, alone : BOOLEAN]

ModelType ==
    [file : Archives, plates : SUBSET Int, source : {"none", "3mf-bundle", "makerworld"},
     url : Urls, settings : BOOLEAN, design : Urls, alone : BOOLEAN, done : BOOLEAN]

\* Ids are taken once, and a request is known by the one it took.
IdsTaken ==
    /\ nextId \in Nat
    /\ \A i \in DOMAIN rows : i \in Nat /\ i < nextId /\ rows[i] \in ModelType
    /\ \A r \in requests : r \in RequestType /\ r.id < nextId
    /\ \A r, s \in requests : r.id = s.id => r = s
    /\ \A e \in disk : e \in Nat \X Nat /\ e[1] < nextId

HasFiles ==
    \A i \in DOMAIN rows \ broken : \A p \in Files(rows[i].file) : <<i, p>> \in disk

\* A directory fills up from its first plate on, before there is a row.
Filling ==
    \A r \in requests : r.stage \in Early =>
        /\ r.id \notin DOMAIN rows
        /\ r.stage = "fetching" => r.plate = 1
        /\ r.plate > 1 /\ r.id \notin broken =>
              \A p \in 0..(r.plate - 1) : <<r.id, p>> \in disk

NoLitter ==
    \A e \in disk : e[1] \notin broken =>
        \/ e[1] \in DOMAIN rows
        \/ \E r \in requests : r.id = e[1] /\ r.stage = "reading"

\* A row is finished by its own request alone.
OwnRows ==
    \A r \in requests : r.stage \notin Early /\ r.id \in DOMAIN rows =>
        /\ ~rows[r.id].done
        /\ rows[r.id].design = r.url
        /\ r.stage = "again" => rows[r.id].url = r.url

\* An import that found no model of its profile and had no rival is the only one.
Rivals ==
    /\ \A r, s \in requests : r # s /\ r.url = s.url /\ r.url # NoUrl => ~r.alone
    /\ \A r \in requests, i \in DOMAIN rows :
          rows[i].done /\ rows[i].design = r.url /\ r.url # NoUrl
              => ~r.alone /\ ~rows[i].alone
    /\ \A i \in DOMAIN rows :
          rows[i].done /\ rows[i].design # NoUrl => rows[i].url = rows[i].design

ModelsInv == IdsTaken /\ HasFiles /\ Filling /\ NoLitter /\ OwnRows /\ Rivals /\ ImportedOnce

LEMMA InitModels == LibraryInit => ModelsInv
BY DEF LibraryInit, ModelsInv, IdsTaken, HasFiles, Filling, NoLitter, OwnRows, Rivals,
       ImportedOnce

\* A request that takes the next id: S are the requests it finds, those for the
\* same profile told that they are not alone.
LEMMA RequestComes ==
    ASSUME ModelsInv, NEW r \in RequestType, NEW S,
           r.id = nextId, r.stage \in Early, r.plate = 1,
           \A q \in S :
               /\ q \in RequestType
               /\ q.url = r.url /\ r.url # NoUrl => ~q.alone
               /\ \E p \in requests :
                     /\ q.id = p.id /\ q.stage = p.stage /\ q.plate = p.plate
                     /\ q.url = p.url /\ (q.alone => p.alone),
           \A p \in requests : \E q \in S : q.id = p.id /\ q.stage = p.stage,
           \A p, q \in S : p.id = q.id => p = q,
           r.alone /\ r.url # NoUrl => \A p \in S : p.url # r.url,
           r.url # NoUrl => \A i \in DOMAIN rows : rows[i].url # r.url,
           requests' = S \union {r}, nextId' = nextId + 1,
           UNCHANGED <<rows, disk, broken>>
    PROVE  ModelsInv'
<1>1. IdsTaken'
  <2>1. \A q \in S : q.id \in Nat /\ q.id < nextId
    BY DEF ModelsInv, IdsTaken, RequestType
  <2>2. \A p, q \in requests' : p.id = q.id => p = q
    BY <2>1 DEF ModelsInv, IdsTaken
  <2>3. nextId' \in Nat /\ nextId < nextId'
    BY DEF ModelsInv, IdsTaken
  <2>4. \A q \in requests' : q \in RequestType /\ q.id < nextId'
    BY <2>1, <2>3 DEF ModelsInv, IdsTaken
  <2>5. \A i \in Nat : i < nextId => i < nextId'
    BY <2>3 DEF ModelsInv, IdsTaken
  <2> QED
    BY <2>2, <2>3, <2>4, <2>5 DEF ModelsInv, IdsTaken
<1>2. HasFiles'
  BY DEF ModelsInv, HasFiles
<1>3. Filling'
  BY DEF ModelsInv, Filling, IdsTaken
<1>4. NoLitter'
  BY DEF ModelsInv, NoLitter
<1>5. OwnRows'
  BY DEF ModelsInv, OwnRows
<1>6. Rivals' /\ ImportedOnce'
  BY DEF ModelsInv, Rivals, ImportedOnce, IdsTaken
<1> QED
  BY <1>1, <1>2, <1>3, <1>4, <1>5, <1>6 DEF ModelsInv

\* A request that goes on, or ends, while the rows stay as they are.
LEMMA RequestMoves ==
    ASSUME ModelsInv, NEW r \in requests, NEW s \in RequestType,
           requests' = requests \ {r} \/ requests' = (requests \ {r}) \union {s},
           s.id = r.id, s.url = r.url, s.alone = r.alone,
           s.stage \in Early => r.stage \in Early,
           r.id \in DOMAIN rows => s.stage # "again",
           \/ r.stage # "reading" /\ s.plate = r.plate /\ disk' = disk
              /\ s.stage # "fetching"
           \/ r.stage = "reading" /\ requests' = requests \ {r} /\ disk' = Emptied(r.id)
           \/ r.stage = "reading" /\ s.stage = "reading" /\ s.plate = r.plate + 1
              /\ requests' = (requests \ {r}) \union {s} /\ disk' = Stored(r),
           UNCHANGED <<rows, nextId, broken>>
    PROVE  ModelsInv'
<1>1. IdsTaken'
  BY DEF ModelsInv, IdsTaken, Emptied, Stored, RequestType
<1>2. HasFiles'
  BY DEF ModelsInv, HasFiles, Filling, Emptied, Stored, Early
<1>3. Filling'
  BY DEF ModelsInv, Filling, IdsTaken, Emptied, Stored, RequestType, Early
<1>4. NoLitter'
  BY DEF ModelsInv, NoLitter, IdsTaken, Emptied, Stored, Early
<1>5. OwnRows'
  BY DEF ModelsInv, OwnRows, IdsTaken, Filling, Early
<1>6. Rivals' /\ ImportedOnce'
  BY DEF ModelsInv, Rivals, ImportedOnce
<1> QED
  BY <1>1, <1>2, <1>3, <1>4, <1>5, <1>6 DEF ModelsInv

\* A registered request changes its row to v: it ends, or it goes on as s.
LEMMA RowMoves ==
    ASSUME ModelsInv, NEW r \in requests, NEW s \in RequestType, NEW v \in ModelType,
           r.stage \notin Early, r.id \in DOMAIN rows,
           v.file = rows[r.id].file, v.design = r.url,
           s.id = r.id, s.url = r.url, s.alone = r.alone, s.stage = "again",
           \/ /\ requests' = requests \ {r}
              /\ r.url # NoUrl => v.url = r.url /\ (v.alone => r.alone)
           \/ /\ requests' = (requests \ {r}) \union {s}
              /\ v.url = r.url /\ ~v.done,
           rows' = [rows EXCEPT ![r.id] = v],
           UNCHANGED <<disk, nextId, broken>>
    PROVE  ModelsInv'
<1>0. /\ DOMAIN rows' = DOMAIN rows
      /\ \A i \in DOMAIN rows : rows'[i] = IF i = r.id THEN v ELSE rows[i]
  OBVIOUS
<1>1. IdsTaken'
  BY <1>0 DEF ModelsInv, IdsTaken
<1>2. HasFiles'
  BY <1>0 DEF ModelsInv, HasFiles
<1>3. Filling'
  BY <1>0 DEF ModelsInv, Filling, Early
<1>4. NoLitter'
  BY <1>0 DEF ModelsInv, NoLitter, Early
<1>5. OwnRows'
  BY <1>0 DEF ModelsInv, OwnRows, IdsTaken, Filling
<1>6. Rivals'
  BY <1>0 DEF ModelsInv, Rivals, OwnRows, IdsTaken
<1>7. ImportedOnce'
  BY <1>0 DEF ModelsInv, Rivals, OwnRows, ImportedOnce
<1> QED
  BY <1>1, <1>2, <1>3, <1>4, <1>5, <1>6, <1>7 DEF ModelsInv

\* The row that register3MFModel inserts.
LEMMA RowTyped ==
    ASSUME NEW r \in RequestType
    PROVE  /\ Row(r) \in ModelType
           /\ Row(r).file = r.file
           /\ Row(r).design = r.url
           /\ Row(r).url = NoUrl
           /\ Row(r).done = FALSE
           /\ \A k : /\ [Row(r) EXCEPT !.plates = 1..k] \in ModelType
                     /\ [Row(r) EXCEPT !.plates = 1..k].done = FALSE
<1> DEFINE ps == IF r.file.format = "3mf" THEN 1..r.file.plates ELSE {}
<1>1. \A k : 1..k \in SUBSET Int
  OBVIOUS
<1>2. ps \in SUBSET Int
  BY <1>1
<1>3. Row(r) = [file |-> r.file, plates |-> ps, source |-> "none", url |-> NoUrl,
                settings |-> FALSE, design |-> r.url, alone |-> FALSE, done |-> FALSE]
  BY DEF Row
<1> HIDE DEF ps
<1>4. Row(r) \in ModelType
  BY <1>2, <1>3 DEF RequestType, ModelType, Urls
<1> DEFINE v == Row(r)
<1>5. v \in ModelType /\ v.done = FALSE
  BY <1>3, <1>4
<1> HIDE DEF v
<1>6. \A k : /\ [v EXCEPT !.plates = 1..k] \in ModelType
             /\ [v EXCEPT !.plates = 1..k].done = FALSE
  BY <1>1, <1>5 DEF ModelType
<1>7. \A k : /\ [Row(r) EXCEPT !.plates = 1..k] \in ModelType
             /\ [Row(r) EXCEPT !.plates = 1..k].done = FALSE
  BY <1>6 DEF v
<1>8. Row(r).file = r.file /\ Row(r).design = r.url /\ Row(r).url = NoUrl /\ Row(r).done = FALSE
  BY <1>3
<1> QED
  BY <1>4, <1>7, <1>8, Zenon

\* The last plate completes the files of the row.
LEMMA LastPlate ==
    ASSUME ModelsInv, NEW r \in requests, ReadLastPlate(r)
    PROVE  ModelsInv'
<1> DEFINE s == [r EXCEPT !.stage = "settings"]
<1>1. /\ r \in RequestType
      /\ Row(r) \in ModelType
      /\ Row(r).file = r.file /\ Row(r).design = r.url /\ Row(r).done = FALSE
  BY RowTyped DEF ModelsInv, IdsTaken
<1>2. /\ s \in RequestType /\ s.id = r.id /\ s.url = r.url /\ s.alone = r.alone
      /\ s.stage = "settings"
  BY <1>1 DEF RequestType
<1>3. /\ requests' = (requests \ {r}) \union {s}
      /\ disk' = Stored(r)
      /\ r.stage = "reading" /\ r.plate = r.file.plates
      /\ UNCHANGED <<nextId, broken>>
  BY DEF ReadLastPlate, Reading, Becomes
<1>4. /\ DOMAIN rows' = DOMAIN rows \union {r.id}
      /\ \A i \in DOMAIN rows' : rows'[i] = IF i = r.id THEN Row(r) ELSE rows[i]
      /\ r.id \notin DOMAIN rows
  BY DEF ReadLastPlate, With, Reading, ModelsInv, Filling, Early
<1> HIDE DEF s
<1>5. IdsTaken'
  BY <1>1, <1>2, <1>3, <1>4 DEF ModelsInv, IdsTaken, Stored, RequestType
<1>6. HasFiles'
  <2>1. ASSUME r.id \notin broken, NEW p \in Files(r.file)
        PROVE  <<r.id, p>> \in disk'
    BY <1>1, <1>3, <2>1 DEF ModelsInv, Filling, Early, Files, Stored, RequestType
  <2> QED
    BY <1>1, <1>3, <1>4, <2>1 DEF ModelsInv, HasFiles, Stored
<1>7. Filling'
  BY <1>2, <1>3, <1>4 DEF ModelsInv, Filling, IdsTaken, Early, Stored
<1>8. NoLitter'
  BY <1>3, <1>4 DEF ModelsInv, NoLitter, Stored
<1>9. OwnRows'
  BY <1>1, <1>2, <1>3, <1>4 DEF ModelsInv, OwnRows, IdsTaken
<1>10. Rivals' /\ ImportedOnce'
  BY <1>1, <1>2, <1>3, <1>4 DEF ModelsInv, Rivals, ImportedOnce
<1> QED
  BY <1>5, <1>6, <1>7, <1>8, <1>9, <1>10 DEF ModelsInv

\* A failed statement leaves a row without its directory, or a row too few: the
\* id is broken.
LEMMA InsertFailsStep ==
    ASSUME ModelsInv, NEW r \in requests, InsertFails(r)
    PROVE  ModelsInv'
<1>1. r \in RequestType
  BY DEF ModelsInv, IdsTaken
<1>2. /\ requests' = requests \ {r}
      /\ disk' = Emptied(r.id)
      /\ broken' = broken \union {r.id}
      /\ r.stage = "reading" /\ r.id \notin DOMAIN rows
      /\ UNCHANGED nextId
  BY DEF InsertFails, Reading, Ends, ModelsInv, Filling, Early
<1>3. PICK v \in ModelType :
        /\ v.done = FALSE
        /\ rows' = rows \/ rows' = With(r.id, v)
  BY <1>1, RowTyped DEF InsertFails
<1>4. /\ DOMAIN rows \subseteq DOMAIN rows' /\ DOMAIN rows' \subseteq DOMAIN rows \union {r.id}
      /\ \A i \in DOMAIN rows' : rows'[i] = IF i = r.id THEN v ELSE rows[i]
  BY <1>2, <1>3 DEF With
<1>5. IdsTaken'
  BY <1>1, <1>2, <1>4 DEF ModelsInv, IdsTaken, Emptied, RequestType
<1>6. HasFiles'
  BY <1>2, <1>4 DEF ModelsInv, HasFiles, Emptied
<1>7. Filling'
  BY <1>2, <1>4 DEF ModelsInv, Filling, IdsTaken, Emptied
<1>8. NoLitter'
  BY <1>2, <1>4 DEF ModelsInv, NoLitter, Emptied
<1>9. OwnRows'
  BY <1>2, <1>4 DEF ModelsInv, OwnRows, IdsTaken
<1>10. Rivals' /\ ImportedOnce'
  BY <1>2, <1>3, <1>4 DEF ModelsInv, Rivals, ImportedOnce
<1> QED
  BY <1>5, <1>6, <1>7, <1>8, <1>9, <1>10 DEF ModelsInv

LEMMA UploadMeshStep ==
    ASSUME ModelsInv, NEW a \in Archives, UploadMesh(a)
    PROVE  ModelsInv'
<1> DEFINE q == Request(nextId, NoUrl, a, "", TRUE)
           v == [Row(q) EXCEPT !.done = TRUE]
<1>1. /\ v \in ModelType /\ v.file = a /\ v.design = NoUrl
      /\ Files(a) = {0}
  BY DEF UploadMesh, Files, Row, Request, ModelType, Urls
<1>2. /\ nextId' = nextId + 1 /\ requests' = requests
      /\ disk' \subseteq disk \union {<<nextId, 0>>} /\ disk \subseteq disk'
      /\ broken \subseteq broken'
      /\ \/ rows' = With(nextId, v) /\ disk' = disk \union {<<nextId, 0>>}
         \/ rows' = rows /\ (disk' = disk \/ nextId \in broken')
  BY DEF UploadMesh, NewId
<1> HIDE DEF v
<1>3. /\ nextId \in Nat /\ nextId' \in Nat /\ nextId < nextId'
      /\ \A i \in Nat : i < nextId => i < nextId' /\ i # nextId
      /\ nextId \notin DOMAIN rows
  BY <1>2 DEF ModelsInv, IdsTaken
<1>4. /\ DOMAIN rows \subseteq DOMAIN rows' /\ DOMAIN rows' \subseteq DOMAIN rows \union {nextId}
      /\ \A i \in DOMAIN rows' : rows'[i] = IF i = nextId THEN v ELSE rows[i]
      /\ nextId \in DOMAIN rows' => disk' = disk \union {<<nextId, 0>>}
      /\ disk' = disk \/ nextId \in broken' \/ nextId \in DOMAIN rows'
  BY <1>2, <1>3 DEF With
<1>5. IdsTaken'
  BY <1>1, <1>2, <1>3, <1>4 DEF ModelsInv, IdsTaken, RequestType
<1>6. HasFiles'
  BY <1>1, <1>2, <1>4 DEF ModelsInv, HasFiles
<1>7. Filling'
  BY <1>2, <1>3, <1>4 DEF ModelsInv, Filling, IdsTaken
<1>8. NoLitter'
  BY <1>2, <1>4 DEF ModelsInv, NoLitter
<1>9. OwnRows'
  BY <1>2, <1>3, <1>4 DEF ModelsInv, OwnRows, IdsTaken
<1>10. Rivals' /\ ImportedOnce'
  BY <1>1, <1>2, <1>4 DEF ModelsInv, Rivals, ImportedOnce
<1> QED
  BY <1>5, <1>6, <1>7, <1>8, <1>9, <1>10 DEF ModelsInv

\* A deletion takes the directory and the row, whatever is under way for it.
LEMMA DeleteStep ==
    ASSUME ModelsInv, NEW i, DeleteModel(i)
    PROVE  ModelsInv'
<1>1. /\ DOMAIN rows' = DOMAIN rows \ {i}
      /\ \A j \in DOMAIN rows' : rows'[j] = rows[j]
      /\ disk' = Emptied(i)
      /\ UNCHANGED <<requests, nextId, broken>>
      /\ i \in DOMAIN rows
  BY DEF DeleteModel, Without
<1>2. IdsTaken'
  BY <1>1 DEF ModelsInv, IdsTaken, Emptied
<1>3. HasFiles'
  BY <1>1 DEF ModelsInv, HasFiles, Emptied
<1>4. Filling'
  BY <1>1 DEF ModelsInv, Filling, Emptied
<1>5. NoLitter'
  BY <1>1 DEF ModelsInv, NoLitter, Emptied
<1>6. OwnRows' /\ Rivals' /\ ImportedOnce'
  BY <1>1 DEF ModelsInv, OwnRows, Rivals, ImportedOnce
<1> QED
  BY <1>2, <1>3, <1>4, <1>5, <1>6 DEF ModelsInv

\* A crash ends every request; what it leaves behind is broken.
LEMMA CrashStep ==
    ASSUME ModelsInv, Die \/ \E i \in 1..MaxModels : DieDeleting(i)
    PROVE  ModelsInv'
<1>1. /\ requests' = {} /\ nextId' = nextId
      /\ broken \subseteq broken' /\ \A r \in requests : r.id \in broken'
  BY DEF Die, DieDeleting
<1>2. CASE rows' = rows /\ disk' = disk
  <2>1. NoLitter'
    BY <1>1, <1>2 DEF ModelsInv, NoLitter
  <2> QED
    BY <1>1, <1>2, <2>1 DEF ModelsInv, IdsTaken, HasFiles, Filling, OwnRows, Rivals,
                            ImportedOnce
<1>3. ASSUME NEW i \in 1..MaxModels, DieDeleting(i)
      PROVE  ModelsInv'
  <2>1. rows' = rows /\ disk' = Emptied(i) /\ i \in broken'
    BY <1>3 DEF DieDeleting
  <2>2. HasFiles'
    BY <1>1, <2>1 DEF ModelsInv, HasFiles, Emptied
  <2>3. NoLitter'
    BY <1>1, <2>1 DEF ModelsInv, NoLitter, Emptied
  <2>4. IdsTaken'
    BY <1>1, <2>1 DEF ModelsInv, IdsTaken, Emptied
  <2> QED
    BY <1>1, <2>1, <2>2, <2>3, <2>4 DEF ModelsInv, Filling, OwnRows, Rivals, ImportedOnce
<1>4. ASSUME NEW r \in requests, NEW k, r.stage = "reading", disk' = Stored(r),
             rows' = With(r.id, [Row(r) EXCEPT !.plates = 1..k])
      PROVE  ModelsInv'
  <2>1. r \in RequestType /\ r.id \in broken' /\ r.id < nextId
    BY <1>1 DEF ModelsInv, IdsTaken
  <2>2. PICK v \in ModelType : v.done = FALSE /\ rows' = With(r.id, v)
    BY <1>4, <2>1, RowTyped
  <2>3. /\ DOMAIN rows' = DOMAIN rows \union {r.id}
        /\ \A i \in DOMAIN rows' : rows'[i] = IF i = r.id THEN v ELSE rows[i]
    BY <2>2 DEF With
  <2>4. IdsTaken'
    BY <1>1, <1>4, <2>1, <2>3 DEF ModelsInv, IdsTaken, Stored, RequestType
  <2>5. HasFiles'
    BY <1>1, <1>4, <2>1, <2>3 DEF ModelsInv, HasFiles, Stored
  <2>6. NoLitter'
    BY <1>1, <1>4, <2>3 DEF ModelsInv, NoLitter, Stored
  <2>7. Filling' /\ OwnRows'
    BY <1>1 DEF Filling, OwnRows
  <2>8. Rivals' /\ ImportedOnce'
    BY <1>1, <2>2, <2>3 DEF ModelsInv, Rivals, ImportedOnce
  <2> QED
    BY <2>4, <2>5, <2>6, <2>7, <2>8 DEF ModelsInv
<1> QED
  BY <1>2, <1>3, <1>4 DEF Die, Reading

\* Every step of the models, with the lemma that answers for it.
LEMMA ModelsStep ==
    ASSUME ModelsInv, LibraryNext
    PROVE  ModelsInv'
<1>1. ASSUME NEW a \in Archives, UploadMesh(a)
      PROVE  ModelsInv'
  BY <1>1, UploadMeshStep
<1>2. ASSUME NEW a \in Archives, Upload3MF(a)
      PROVE  ModelsInv'
  <2> DEFINE q == Request(nextId, NoUrl, a, "reading", TRUE)
  <2>1. /\ q \in RequestType /\ q.id = nextId /\ q.stage \in Early /\ q.plate = 1
        /\ q.url = NoUrl
    BY DEF Request, RequestType, Urls, Early, ModelsInv, IdsTaken
  <2>2. requests' = requests \union {q} /\ nextId' = nextId + 1 /\ UNCHANGED <<rows, disk, broken>>
    BY <1>2 DEF Upload3MF, NewId
  <2> HIDE DEF q
  <2> QED
    BY <2>1, <2>2, RequestComes DEF ModelsInv, IdsTaken
<1>3. ASSUME NEW url \in DOMAIN Designs, StartImport(url)
      PROVE  ModelsInv'
  <2> DEFINE rivals == {r \in requests : r.url = url}
             S == (requests \ rivals) \union {[r EXCEPT !.alone = FALSE] : r \in rivals}
             q == Request(nextId, url, Designs[url], "fetching", rivals = {})
  <2>1. /\ q \in RequestType /\ q.id = nextId /\ q.stage \in Early /\ q.plate = 1
        /\ q.url = url /\ (q.alone => rivals = {})
    BY LibraryAssumption DEF Request, RequestType, Urls, Early, ModelsInv, IdsTaken
  <2>2. /\ requests' = S \union {q} /\ nextId' = nextId + 1 /\ UNCHANGED <<rows, disk, broken>>
        /\ \A i \in DOMAIN rows : rows[i].url # url
    BY <1>3 DEF StartImport, NewId, Found
  <2>3. \A r \in requests :
          /\ [r EXCEPT !.alone = FALSE] \in RequestType
          /\ [r EXCEPT !.alone = FALSE].id = r.id
          /\ [r EXCEPT !.alone = FALSE].stage = r.stage
          /\ [r EXCEPT !.alone = FALSE].plate = r.plate
          /\ [r EXCEPT !.alone = FALSE].url = r.url
          /\ [r EXCEPT !.alone = FALSE].alone = FALSE
    BY DEF ModelsInv, IdsTaken, RequestType
  <2> DEFINE told(r) == IF r.url = url THEN [r EXCEPT !.alone = FALSE] ELSE r
  <2>4. \A p \in S : \E r \in requests : p = told(r)
    OBVIOUS
  <2>5. \A r \in requests :
          /\ told(r) \in S /\ told(r) \in RequestType
          /\ told(r).id = r.id /\ told(r).stage = r.stage /\ told(r).plate = r.plate
          /\ told(r).url = r.url /\ (told(r).alone => r.alone)
          /\ told(r).url = url => ~told(r).alone
    BY <2>3 DEF ModelsInv, IdsTaken
  <2> HIDE DEF q, S, told
  <2>6. \A p, s \in S : p.id = s.id => p = s
    <3> SUFFICES ASSUME NEW p \in S, NEW s \in S, p.id = s.id PROVE p = s
      OBVIOUS
    <3>1. PICK x \in requests : p = told(x)
      BY <2>4
    <3>2. PICK y \in requests : s = told(y)
      BY <2>4
    <3>3. x = y
      BY <2>5, <3>1, <3>2 DEF ModelsInv, IdsTaken
    <3> QED
      BY <3>1, <3>2, <3>3
  <2>8. \A p \in S :
          /\ p \in RequestType
          /\ p.url = url => ~p.alone
          /\ \E r \in requests :
                /\ p.id = r.id /\ p.stage = r.stage /\ p.plate = r.plate
                /\ p.url = r.url /\ (p.alone => r.alone)
    BY <2>4, <2>5
  <2>9. \A r \in requests : \E p \in S : p.id = r.id /\ p.stage = r.stage
    BY <2>5
  <2>7. q.alone => \A p \in S : p.url # url
    <3>1. q.alone => \A r \in requests : r.url # url
      BY <2>1
    <3> QED
      BY <2>4, <2>5, <3>1
  <2> HIDE DEF rivals
  <2>10. /\ q.alone /\ q.url # NoUrl => \A p \in S : p.url # q.url
         /\ q.url # NoUrl => \A i \in DOMAIN rows : rows[i].url # q.url
         /\ \A p \in S :
              /\ p \in RequestType
              /\ p.url = q.url /\ q.url # NoUrl => ~p.alone
              /\ \E r \in requests :
                    /\ p.id = r.id /\ p.stage = r.stage /\ p.plate = r.plate
                    /\ p.url = r.url /\ (p.alone => r.alone)
    BY <2>1, <2>2, <2>7, <2>8
  <2> QED
    BY <2>1, <2>2, <2>6, <2>9, <2>10, RequestComes
<1>4. ASSUME NEW r \in requests, ReadPlate(r) \/ Unreadable(r) \/ Fetched(r) \/ FetchFails(r)
      PROVE  ModelsInv'
  <2>1. r \in RequestType
    BY DEF ModelsInv, IdsTaken
  <2>2. CASE ReadPlate(r)
    <3> DEFINE s == [r EXCEPT !.plate = @ + 1]
    <3>1. /\ s \in RequestType /\ s.id = r.id /\ s.url = r.url /\ s.alone = r.alone
          /\ s.stage = r.stage /\ s.plate = r.plate + 1
      BY <2>1 DEF RequestType
    <3>2. /\ requests' = (requests \ {r}) \union {s} /\ disk' = Stored(r) /\ r.stage = "reading"
          /\ UNCHANGED <<rows, nextId, broken>>
      BY <2>2 DEF ReadPlate, Reading, Becomes
    <3> HIDE DEF s
    <3> QED
      BY <3>1, <3>2, RequestMoves DEF Early
  <2>3. CASE Unreadable(r)
    <3>1. /\ requests' = requests \ {r} /\ disk' = Emptied(r.id) /\ r.stage = "reading"
          /\ UNCHANGED <<rows, nextId, broken>>
      BY <2>3 DEF Unreadable, Ends
    <3> QED
      BY <2>1, <3>1, RequestMoves DEF Early
  <2>4. CASE Fetched(r)
    <3> DEFINE s == [r EXCEPT !.stage = "reading"]
    <3>1. /\ s \in RequestType /\ s.id = r.id /\ s.url = r.url /\ s.alone = r.alone
          /\ s.stage = "reading" /\ s.plate = r.plate
      BY <2>1 DEF RequestType, Early
    <3>2. /\ requests' = (requests \ {r}) \union {s} /\ r.stage = "fetching"
          /\ UNCHANGED <<rows, disk, nextId, broken>>
      BY <2>4 DEF Fetched, Becomes, bounds
    <3> HIDE DEF s
    <3> QED
      BY <3>1, <3>2, RequestMoves DEF Early
  <2>5. CASE FetchFails(r)
    <3> DEFINE s == [r EXCEPT !.stage = "reading"]
    <3>1. /\ s \in RequestType /\ s.id = r.id /\ s.url = r.url /\ s.alone = r.alone
          /\ s.stage = "reading" /\ s.plate = r.plate
      BY <2>1 DEF RequestType, Early
    <3>2. /\ requests' = requests \ {r} /\ r.stage = "fetching"
          /\ UNCHANGED <<rows, disk, nextId, broken>>
      BY <2>5 DEF FetchFails, Ends
    <3> HIDE DEF s
    <3> QED
      BY <3>1, <3>2, RequestMoves DEF Early
  <2> QED
    BY <1>4, <2>2, <2>3, <2>4, <2>5
<1>5. ASSUME NEW r \in requests, Registered(r) \/ ImportRegistered(r) \/ Imported(r)
      PROVE  ModelsInv'
  <2> DEFINE s == [r EXCEPT !.stage = "again"]
             row == rows[r.id]
  <2>1. /\ r \in RequestType /\ r.stage \notin Early
        /\ s \in RequestType /\ s.id = r.id /\ s.url = r.url /\ s.alone = r.alone
        /\ s.stage = "again" /\ s.plate = r.plate
        /\ UNCHANGED <<disk, nextId, broken>>
        /\ requests' = requests \ {r} \/ requests' = (requests \ {r}) \union {s}
    BY <1>5 DEF ModelsInv, IdsTaken, RequestType, Early, Registered, ImportRegistered, Imported,
                Ends, Becomes
  <2>2. CASE r.id \notin DOMAIN rows
    <3>1. rows' = rows
      BY <1>5, <2>2 DEF Registered, ImportRegistered, Imported, Update
    <3> HIDE DEF s
    <3> QED
      BY <2>1, <2>2, <3>1, RequestMoves DEF Early
  <2>3. CASE r.id \in DOMAIN rows
    <3>1. /\ row \in ModelType /\ row.design = r.url /\ row.done = FALSE
          /\ r.stage = "again" => row.url = r.url
      BY <2>1, <2>3 DEF ModelsInv, IdsTaken, OwnRows, ModelType
    <3> DEFINE u == Settings(r, row)
    <3>2. /\ u \in ModelType /\ u.file = row.file /\ u.design = r.url /\ u.done = FALSE
          /\ u.alone = row.alone
      BY <3>1 DEF Settings, ModelType
    <3>3. CASE Registered(r)
      <4> DEFINE v == [u EXCEPT !.done = TRUE]
      <4>1. rows' = [rows EXCEPT ![r.id] = v] /\ requests' = requests \ {r} /\ r.url = NoUrl
        BY <2>3, <3>3 DEF Registered, Update, Ends
      <4> HIDE DEF u
      <4>2. v \in ModelType /\ v.file = row.file /\ v.design = r.url
        BY <3>2 DEF ModelType
      <4> HIDE DEF v, s
      <4> QED
        BY <2>1, <2>3, <4>1, <4>2, RowMoves
    <3>4. CASE ImportRegistered(r)
      <4> DEFINE v == [u EXCEPT !.source = "makerworld", !.url = r.url, !.alone = r.alone]
      <4>1. rows' = [rows EXCEPT ![r.id] = v] /\ requests' = (requests \ {r}) \union {s}
        BY <2>3, <3>4 DEF ImportRegistered, Update, Becomes
      <4> HIDE DEF u
      <4>2. v \in ModelType /\ v.file = row.file /\ v.design = r.url /\ v.url = r.url /\ ~v.done
        BY <2>1, <3>2 DEF ModelType, RequestType
      <4> HIDE DEF v, s
      <4> QED
        BY <2>1, <2>3, <4>1, <4>2, RowMoves
    <3>5. CASE Imported(r)
      <4> DEFINE v == [row EXCEPT !.settings = @ \/ r.file.settings, !.done = TRUE,
                                  !.alone = @ /\ r.alone]
      <4>1. rows' = [rows EXCEPT ![r.id] = v] /\ requests' = requests \ {r}
            /\ r.stage = "again"
        BY <2>3, <3>5 DEF Imported, Update, Ends
      <4>2. v \in ModelType /\ v.file = row.file /\ v.design = r.url /\ v.url = r.url
            /\ (v.alone => r.alone)
        BY <2>1, <3>1, <4>1 DEF ModelType, RequestType
      <4> HIDE DEF v, s
      <4> QED
        BY <2>1, <2>3, <4>1, <4>2, RowMoves
    <3> QED
      BY <1>5, <3>3, <3>4, <3>5
  <2> QED
    BY <2>2, <2>3
<1>6. ASSUME NEW r \in requests, ReadLastPlate(r) \/ InsertFails(r)
      PROVE  ModelsInv'
  BY <1>6, LastPlate, InsertFailsStep
<1>7. ASSUME NEW i \in 1..MaxModels, DeleteModel(i)
      PROVE  ModelsInv'
  BY <1>7, DeleteStep
<1>8. ASSUME NEW answer, Login(answer)
      PROVE  ModelsInv'
  BY <1>8 DEF Login, ModelsInv, IdsTaken, HasFiles, Filling, NoLitter, OwnRows, Rivals,
              ImportedOnce
<1> QED
  BY <1>1, <1>2, <1>3, <1>4, <1>5, <1>6, <1>7, <1>8, CrashStep DEF LibraryNext

LEMMA ModelsNext == ModelsInv /\ [Next]_vars => ModelsInv'
<1>1. ASSUME ModelsInv, UNCHANGED libraryVars
      PROVE  ModelsInv'
  BY <1>1 DEF libraryVars, ModelsInv, IdsTaken, HasFiles, Filling, NoLitter, OwnRows, Rivals,
              ImportedOnce
<1> QED
  BY <1>1, ModelsStep DEF Next, vars

\* Rows, directories and requests fit together, whatever crosses what.
THEOREM ModelsInvariant == Spec => []ModelsInv
<1>1. Init => ModelsInv
  BY InitModels DEF Init
<1> QED
  BY <1>1, ModelsNext, PTL DEF Spec

\* A listed model has its files, and files have a row or a request under way, but
\* for ids that a crash or a failed statement has hit (register3MFModel, DELETE).
THEOREM DiskMatchesRowsAlways == Spec => []DiskMatchesRows
<1>1. ModelsInv => DiskMatchesRows
  BY DEF ModelsInv, HasFiles, NoLitter, IdsTaken, DiskMatchesRows
<1> QED
  BY <1>1, ModelsInvariant, PTL

\* A MakerWorld profile is imported once, unless two imports of it overlapped or one
\* was broken off (findModelBySourceUrl).
THEOREM ImportedOnceAlways == Spec => []ImportedOnce
<1>1. ModelsInv => ImportedOnce
  BY DEF ModelsInv
<1> QED
  BY <1>1, ModelsInvariant, PTL
----------------------------------------------------------------------------
(* The picker: what the effects have seen, and what they made of it *)

Known(p) == p \in Profiles \/ \E e \in Engines : p \in Made(e)

Listed == {selected.machine, selected.process, slot} \ {None} \subseteq Names(list)

\* Lists hold profiles the server has had, and selections the three types.
PickerTypes ==
    /\ engine \in Engines /\ applying \in Engines \union {None}
    /\ \A p \in list \union stored : Known(p)
    /\ \A l \in lists : "answer" \in DOMAIN l /\ \A p \in l.answer : Known(p)
    /\ DOMAIN selected = DOMAIN Nothing
    /\ \A d \in deletes : DOMAIN d.was = DOMAIN Nothing

\* At rest the clearing effect has run for what is shown, and what it has run for
\* is listed; a panel that is closed shows nothing and awaits no list.
PickerInv ==
    /\ PickerTypes
    /\ open /\ ~dirty => seen.clear = Deps.clear
    /\ seen.clear = Deps.clear /\ list # {} => Listed
    /\ ~open => list = {} /\ lists = {}

LEMMA InitPicker == PickerInit => PickerInv
BY DEF PickerInit, PickerInv, PickerTypes, Known, Nothing

\* No effect sets what is selected already.
LEMMA KnownNamed ==
    ASSUME NEW p, Known(p)
    PROVE  p.name # None
BY PickerAssumption DEF Known, Made

LEMMA MachineChanges ==
    ASSUME PickerTypes, NEW s \in PickMachine
    PROVE  s.machine # selected.machine
<1>1. PICK q \in list :
        /\ q.type = "machine" /\ q.family \in Wanted
        /\ s = [selected EXCEPT !.machine = q.name]
        /\ IF target = None THEN selected.machine = None
           ELSE Family(selected.machine) \intersect {target} = {}
  BY DEF PickMachine, Typed
<1>2. s.machine = q.name /\ q.name # None
  BY <1>1, KnownNamed DEF PickerTypes, Nothing
<1>3. ASSUME target # None, q.name = selected.machine
      PROVE  FALSE
  <2>1. q.family = target
    BY <1>1, <1>3 DEF Wanted
  <2>2. target \notin Family(q.name)
    BY <1>1, <1>3
  <2>3. CASE q \in Profiles
    BY <2>1, <2>2, <2>3 DEF Family
  <2>4. ASSUME NEW e \in Engines, q \in Made(e)
        PROVE  FALSE
    <3>1. \E r \in Made(engine) : r.name = q.name /\ r.family = q.family
      <4>1. PICK t \in {"machine", "process", "filament"} :
              q = [engine |-> e, type |-> t, name |-> Embedded[t], family |-> Embedded.family]
        BY <2>4 DEF Made
      <4> DEFINE r == [engine |-> engine, type |-> t, name |-> Embedded[t],
                       family |-> Embedded.family]
      <4>2. r \in Made(engine)
        BY DEF Made
      <4>3. r.name = q.name /\ r.family = q.family
        BY <4>1
      <4> QED
        BY <4>2, <4>3
    <3> QED
      BY <2>1, <2>2, <3>1 DEF Family
  <2> QED
    BY <2>3, <2>4 DEF PickerTypes, Known
<1> QED
  BY <1>1, <1>2, <1>3

LEMMA ProcessChanges ==
    ASSUME PickerTypes, NEW s \in PickProcess
    PROVE  s.process # selected.process /\ s.machine = selected.machine
<1>1. PICK q \in list : s = [selected EXCEPT !.process = q.name] /\ selected.process = None
  BY DEF PickProcess, Fitting, Typed
<1> QED
  BY <1>1, KnownNamed DEF PickerTypes, Nothing

LEMMA ClearingChanges ==
    ASSUME PickerTypes, NEW s \in ClearStale
    PROVE  s.machine # selected.machine \/ s.process # selected.process
BY DEF ClearStale, PickerTypes, Nothing, Stale, Kept

\* The effects of a render leave what is listed, or another render is due.
LEMMA RenderStep ==
    ASSUME PickerInv, Render
    PROVE  PickerInv'
<1> DEFINE last == IF PickProcess # {} THEN PickProcess
                   ELSE IF PickMachine # {} THEN PickMachine ELSE ClearStale
<1>1. /\ open /\ open' = open /\ list' = list /\ lists' = lists
      /\ selected' \in (IF last = {} THEN {selected} ELSE last)
      /\ slot' = SlotKept /\ seen' = Deps
      /\ dirty' = (selected' # selected \/ slot' # slot)
      /\ UNCHANGED <<engine, stored, applying, deletes>>
  BY DEF Render, server
<1>2. last # {} => \/ selected'.machine # selected.machine
                   \/ selected'.process # selected.process
  BY <1>1, MachineChanges, ProcessChanges, ClearingChanges DEF PickerInv
<1>3. DOMAIN selected' = DOMAIN selected
  BY <1>1 DEF PickMachine, PickProcess, ClearStale
<1>4. PickerTypes'
  BY <1>1, <1>3 DEF PickerInv, PickerTypes, Known, Made
<1>5. (open /\ ~dirty => seen.clear = Deps.clear)'
  BY <1>1 DEF Deps, Typed
<1>6. (seen.clear = Deps.clear /\ list # {} => Listed)'
  <2> SUFFICES ASSUME seen'.clear = Deps.clear', list # {}
               PROVE  Listed'
    BY <1>1
  <2>1. selected'.machine = selected.machine /\ selected'.process = selected.process
    BY <1>1 DEF Deps
  <2>2. last = {} /\ selected' = selected
    BY <1>1, <1>2, <2>1
  <2>3. CASE seen.clear = Deps.clear
    BY <1>1, <2>2, <2>3 DEF PickerInv, Listed, SlotKept, Filaments, Narrowed, Typed, Names
  <2>4. CASE seen.clear # Deps.clear
    <3>1. ~Stale(selected.machine) /\ ~Stale(selected.process)
      BY <2>2, <2>4 DEF ClearStale
    <3>2. slot' # None => slot' \in Names(list)
      BY <1>1, <2>4 DEF SlotKept, Kept, Stale
    <3> QED
      BY <1>1, <2>1, <3>1, <3>2 DEF Listed, Stale, Names
  <2> QED
    BY <2>3, <2>4
<1> QED
  BY <1>1, <1>4, <1>5, <1>6 DEF PickerInv

\* The user, and what does not touch what the effects have seen.
LEMMA UserStep ==
    ASSUME PickerInv,
           \/ Toggle \/ Apply
           \/ \E e \in Engines : SwitchEngine(e)
           \/ \E t \in Printers \union {None} : SwitchTarget(t)
           \/ \E type \in {"machine", "process"} :
                DeletePicked(type) \/ \E name \in Names(list) \union {None} : Pick(type, name)
           \/ \E name \in Names(list) \union {None} : PickSlot(name)
           \/ \E p \in Profiles : Import(p)
    PROVE  PickerInv'
<1> USE DEF PickerInv
<1>1. CASE Toggle
  <2>1. PickerTypes'
    BY <1>1 DEF Toggle, PickerTypes, Known, Made, Asked
  <2> QED
    BY <1>1, <2>1 DEF Toggle
<1>2. CASE Apply
  BY <1>2 DEF Apply, PickerTypes, Known, Made, Deps, Typed, Listed, Names
<1>3. ASSUME NEW e \in Engines, SwitchEngine(e)
      PROVE  PickerInv'
  <2>1. PickerTypes'
    BY <1>3 DEF SwitchEngine, PickerTypes, Known, Made, Asked
  <2> QED
    BY <1>3, <2>1 DEF SwitchEngine, Renders, Deps, Typed, Listed, Names
<1>4. ASSUME NEW t, SwitchTarget(t)
      PROVE  PickerInv'
  BY <1>4 DEF SwitchTarget, server, Renders, PickerTypes, Known, Made, Deps, Listed, Names
<1>5. ASSUME NEW type \in {"machine", "process"}, DeletePicked(type)
      PROVE  PickerInv'
  <2>1. PickerTypes'
    BY <1>5 DEF DeletePicked, PickerTypes, Known, Made
  <2> QED
    BY <1>5, <2>1 DEF DeletePicked, Deps, Typed, Listed, Names
<1>6. ASSUME NEW type \in {"machine", "process"}, NEW name, Pick(type, name)
      PROVE  PickerInv'
  <2>1. /\ selected' = [selected EXCEPT ![type] = name] /\ open /\ ~dirty /\ dirty'
        /\ UNCHANGED <<engine, target, open, list, slot, seen, stored, lists, deletes, applying>>
    BY <1>6 DEF Pick, User, Renders, server
  <2>2. PickerTypes'
    BY <2>1 DEF PickerTypes, Known, Made
  <2>3. (seen.clear = Deps.clear)' => selected'.machine = selected.machine
                                      /\ selected'.process = selected.process
    BY <2>1 DEF Deps
  <2> QED
    BY <2>1, <2>2, <2>3 DEF Deps, Listed, Names
<1>7. ASSUME NEW name, PickSlot(name)
      PROVE  PickerInv'
  <2>1. /\ slot' = name /\ open /\ dirty' /\ (name = None \/ name \in Names(Offered("filament")))
        /\ UNCHANGED <<engine, target, open, list, selected, seen, stored, lists, deletes, applying>>
    BY <1>7 DEF PickSlot, User, Renders, server
  <2>2. Names(Offered("filament")) \subseteq Names(list)
    BY DEF Offered, Narrowed, Typed, Names
  <2> QED
    BY <2>1, <2>2 DEF PickerTypes, Known, Made, Deps, Listed, Names
<1>8. ASSUME NEW p \in Profiles, Import(p)
      PROVE  PickerInv'
  <2>1. PickerTypes'
    BY <1>8 DEF Import, PickerTypes, Known, Made, Asked
  <2> QED
    BY <1>8, <2>1 DEF Import, Deps, Typed, Listed, Names
<1> QED
  BY <1>1, <1>2, <1>3, <1>4, <1>5, <1>6, <1>7, <1>8

\* An answer that changes what is shown or selected is seen to at the next render.
LEMMA AnswerStep ==
    ASSUME PickerInv,
           \/ ApplyArrives
           \/ \E l \in lists : ListRead(l) \/ ListArrives(l)
           \/ \E d \in deletes : DeleteArrives(d)
    PROVE  PickerInv'
<1> USE DEF PickerInv
<1>1. CASE ApplyArrives
  <2>1. /\ ~dirty /\ applying # None /\ dirty' = open
        /\ stored' = stored \union {p \in Made(applying) : p.name \notin Names(OfEngine(applying))}
        /\ selected' = [t \in DOMAIN Nothing |-> Embedded[t]] /\ applying' = None
        /\ UNCHANGED <<engine, target, open, list, slot, seen, lists, deletes>>
    BY <1>1 DEF ApplyArrives, Renders
  <2>2. PickerTypes'
    BY <2>1 DEF PickerTypes, Known, Made
  <2>3. open /\ (seen.clear = Deps.clear)' => selected'.machine = selected.machine
                                              /\ selected'.process = selected.process
    BY <2>1 DEF Deps
  <2> QED
    BY <2>1, <2>2, <2>3 DEF Deps, Listed, Names
<1>2. ASSUME NEW l \in lists, ListRead(l)
      PROVE  PickerInv'
  <2> DEFINE m == [l EXCEPT !.read = TRUE, !.answer = OfEngine(l.engine)]
  <2>1. /\ lists' = (lists \ {l}) \union {m}
        /\ UNCHANGED <<engine, target, stored, open, list, selected, slot, seen, dirty, deletes,
                       applying>>
    BY <1>2 DEF ListRead
  <2>2. m.answer = OfEngine(l.engine) /\ "answer" \in DOMAIN m
    BY DEF PickerTypes
  <2> HIDE DEF m
  <2>3. PickerTypes'
    BY <2>1, <2>2 DEF PickerTypes, Known, Made, OfEngine
  <2> QED
    BY <2>1, <2>3 DEF Deps, Typed, Listed, Names
<1>3. ASSUME NEW l \in lists, ListArrives(l)
      PROVE  PickerInv'
  <2>1. /\ ~dirty /\ dirty' /\ open
        /\ list' = l.answer \/ list' = {}
        /\ lists' = lists \ {l}
        /\ UNCHANGED <<engine, target, stored, open, selected, slot, seen, deletes, applying>>
    BY <1>3 DEF ListArrives
  <2>2. PickerTypes'
    BY <2>1 DEF PickerTypes, Known, Made
  <2>3. (seen.clear = Deps.clear)' => list' = list
    BY <2>1 DEF Deps
  <2> QED
    BY <2>1, <2>2, <2>3 DEF Deps, Listed, Names
<1>4. ASSUME NEW d \in deletes, DeleteArrives(d)
      PROVE  PickerInv'
  <2>1. /\ ~dirty /\ dirty' = open /\ list' \subseteq list
        /\ selected' = [d.was EXCEPT ![d.type] = None]
        /\ deletes' = deletes \ {d}
        /\ UNCHANGED <<engine, target, stored, open, slot, seen, lists, applying>>
    BY <1>4 DEF DeleteArrives, Renders
  <2>2. PickerTypes'
    BY <2>1 DEF PickerTypes, Known, Made
  <2>3. open /\ (seen.clear = Deps.clear)' => /\ list' = list
                                              /\ selected'.machine = selected.machine
                                              /\ selected'.process = selected.process
    BY <2>1 DEF Deps
  <2> QED
    BY <2>1, <2>2, <2>3 DEF Deps, Listed, Names
<1> QED
  BY <1>1, <1>2, <1>3, <1>4

LEMMA PickerStep == PickerInv /\ [Next]_vars => PickerInv'
<1>1. ASSUME PickerInv, UNCHANGED pickerVars
      PROVE  PickerInv'
  BY <1>1 DEF pickerVars, PickerInv, PickerTypes, Known, Made, Deps, Typed, Listed, Names
<1>2. ASSUME PickerInv, PickerNext
      PROVE  PickerInv'
  BY <1>2, RenderStep, UserStep, AnswerStep DEF PickerNext
<1> QED
  BY <1>1, <1>2 DEF Next, vars

\* When the effects have come to rest, the selection is one the panel lists, however
\* they overwrite each other and whatever answers come between (SettingsPanel).
THEOREM SelectionListedAlways == Spec => []SelectionListed
<1>1. Init => PickerInv
  BY InitPicker DEF Init
<1>2. PickerInv => SelectionListed
  BY DEF PickerInv, Listed, SelectionListed
<1> QED
  BY <1>1, <1>2, PickerStep, PTL DEF Spec
=============================================================================
