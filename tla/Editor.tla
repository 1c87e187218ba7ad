-------------------------------- MODULE Editor ------------------------------
(* The scene of the web client (App.tsx): plates, models, selection, undo      *)
(* history, the copy in localStorage, and uploads whose answers arrive while   *)
(* the user goes on editing. React renders after each action; a handler keeps  *)
(* the values of the render it was made in, which matters where the code       *)
(* memoises it or awaits an answer.                                            *)
(*                                                                             *)
(* A model of the scene is a record                                            *)
(*   uid      instance         id     model on the server                      *)
(*   kind     "model" | "part" | "negative" | "support"                        *)
(*   links    ids of parents   plate  plate it stands on                       *)
(*   count    plates of its file      back  which of them it is, 0 if unset    *)
(*   pose     stands for rotation, offset, scale and mirror                    *)
(*   visible  shown and sliced                                                 *)
EXTENDS Integers, Sequences, FiniteSets, SequencesExt

CONSTANTS Files,        \* name -> [plates, children]: what an upload contains
          HistoryLimit, \* undo steps kept, 50 in the code
          MaxFresh,     \* bound: ids handed out
          MaxSteps      \* bound: actions of the user

ASSUME EditorAssumption ==
    /\ HistoryLimit \in Nat \ {0} /\ MaxFresh \in Nat /\ MaxSteps \in Nat
    /\ \A f \in DOMAIN Files :
         Files[f].plates \in Nat \ {0} /\ Files[f].children \in Seq({"part", "negative"})

VARIABLES plates,    \* plate ids, in the order of the tabs
          active,    \* activePlateId
          models,    \* projectModels
          selected,  \* selectedIndices
          undo, redo,
          saved,     \* localStorage
          pending,   \* uploads under way, with what their handlers captured
          uploading, \* isUploading
          uploadScope, \* what the memoised handleUpload sees
          cutLen,    \* projectModels.length as handleCutComplete sees it
          fresh,     \* next id
          steps,
          sliced     \* optional: body of the last slice request

scene == <<plates, active, models, selected>>
history == <<undo, redo>>
uploads == <<pending, uploading>>
vars == <<scene, history, saved, uploads, uploadScope, cutLen, fresh, steps, sliced>>

-----------------------------------------------------------------------------

Plate(id) == <<"plate", id>>
\* The models at these indices, in their order.
Sub(at) ==
    [k \in 1..Cardinality(at) |-> models[CHOOSE i \in at : Cardinality({j \in at : j <= i}) = k]]
OnPlate(p) == {i \in DOMAIN models : models[i].plate = p}
ActiveIndex == IF selected = {} THEN 0 ELSE Min(selected)
\* activeModel: the first selected one, if it stands on the active plate.
ActiveModel == IF ActiveIndex \in DOMAIN models /\ models[ActiveIndex].plate = active
               THEN <<models[ActiveIndex]>> ELSE <<>>

New(uid, id, plate) ==
    [uid |-> uid, id |-> id, kind |-> "model", links |-> {}, plate |-> plate,
     count |-> 1, back |-> 0, pose |-> 0, visible |-> TRUE]

\* The entry a link points at in the object list: the last model with that id, if it
\* is a parent on the same plate (a part has the id of its parent, so a link to a
\* model with parts points at one of them and shows no parent).
ParentInList(m) ==
    {SelectLastInSubSeq(models, 1, Len(models), LAMBDA p : p.id = l) : l \in m.links} \ {0}

\* Mutant: a parent on any plate will do.
ParentsAnywhere(m) == {i \in ParentInList(m) : models[i].kind = "model"}

Parents(m) == {i \in ParentInList(m) : models[i].kind = "model" /\ models[i].plate = m.plate}

\* buildHierarchy: the rows of plate p, roots and what hangs from them.
Rows(p) ==
    LET roots == {i \in DOMAIN models : models[i].plate = p /\
                    (models[i].kind = "model" \/ Parents(models[i]) = {})}
    IN roots \union {i \in DOMAIN models \ roots :
            models[i].plate = p /\ \E j \in Parents(models[i]), r \in roots : models[j].id = models[r].id}

\* Mutant: the limit is checked before the new step is pushed.
PushUndoLoose ==
    /\ undo' = Append(IF Len(undo) > HistoryLimit THEN Tail(undo) ELSE undo, models)
    /\ redo' = <<>>

PushUndo ==
    /\ undo' = LET u == Append(undo, models) IN IF Len(u) > HistoryLimit THEN Tail(u) ELSE u
    /\ redo' = <<>>

\* updateModels: the tracked setter.
Update(new) == PushUndo /\ models' = new

\* Every action of the user costs a step; ids come from a clock or at random.
User == steps < MaxSteps /\ steps' = steps + 1
Fresh(n) == fresh + n <= MaxFresh /\ fresh' = fresh + n
Still == UNCHANGED <<saved, uploads, sliced>>

Init ==
    /\ plates = <<Plate(0)>> /\ active = Plate(0)
    /\ models = <<>> /\ selected = {}
    /\ undo = <<>> /\ redo = <<>>
    /\ saved = <<>>
    /\ pending = {} /\ uploading = FALSE
    /\ uploadScope = [plate |-> Plate(0), len |-> 0]
    /\ cutLen = 0
    /\ fresh = 1 /\ steps = 0
    /\ sliced = <<>>

-----------------------------------------------------------------------------
(* Plates                                                                      *)

AddPlate ==
    /\ User /\ Fresh(1)
    /\ plates' = Append(plates, Plate(fresh)) /\ active' = Plate(fresh) /\ selected' = {}
    /\ UNCHANGED <<models, history>> /\ Still

SelectPlate(k) ==
    /\ User
    /\ active' = plates[k] /\ selected' = {}
    /\ UNCHANGED <<plates, models, history, fresh>> /\ Still

\* The copies keep their uids and get ids the server has never seen; a link goes
\* to the last copy of its target.
DuplicatePlate(k) ==
    LET src == Sub(OnPlate(plates[k]))
        new(l) == SelectInSeq(Reverse(src), LAMBDA m : m.id = l)
        copied(l) == IF new(l) = 0 THEN l ELSE <<fresh, Len(src) + 1 - new(l)>>
    IN /\ User /\ Fresh(1)
       /\ plates' = InsertAt(plates, k + 1, Plate(fresh))
       /\ active' = Plate(fresh) /\ selected' = {}
       /\ Update(models \o [i \in DOMAIN src |->
                    [src[i] EXCEPT !.id = <<fresh, i>>, !.plate = Plate(fresh),
                        !.links = {copied(l) : l \in @}]])
       /\ Still

DeletePlate(k) ==
    LET rest == RemoveAt(plates, k)
        fallback == IF k > 1 THEN k - 1 ELSE 1
    IN /\ User
       /\ Len(plates) > 1
       /\ plates' = rest
       /\ Update(Sub(DOMAIN models \ OnPlate(plates[k])))
       /\ IF active = plates[k]
          THEN active' = rest[fallback] /\ selected' = {}
          ELSE UNCHANGED <<active, selected>>
       /\ UNCHANGED fresh /\ Still

ReorderPlates(k, l) ==
    /\ User
    /\ k # l
    /\ plates' = InsertAt(RemoveAt(plates, k), l, plates[k])
    /\ UNCHANGED <<active, models, selected, history, fresh>> /\ Still

\* Not tracked: the history still holds the models that go.
ClearAll ==
    /\ User /\ Fresh(1)
    /\ plates' = <<Plate(fresh)>> /\ active' = Plate(fresh)
    /\ models' = <<>> /\ selected' = {}
    /\ UNCHANGED history /\ Still

-----------------------------------------------------------------------------
(* History                                                                     *)

Undo ==
    /\ User
    /\ undo # <<>>
    /\ redo' = Append(redo, models)
    /\ models' = Last(undo) /\ undo' = Front(undo)
    /\ selected' = {}
    /\ UNCHANGED <<plates, active, fresh>> /\ Still

Redo ==
    /\ User
    /\ redo # <<>>
    /\ undo' = Append(undo, models)
    /\ models' = Last(redo) /\ redo' = Front(redo)
    /\ selected' = {}
    /\ UNCHANGED <<plates, active, fresh>> /\ Still

-----------------------------------------------------------------------------
(* Selection and edits of models                                               *)

Picked(i, additive) ==
    IF ~additive THEN {i} ELSE IF i \in selected THEN selected \ {i} ELSE selected \union {i}

\* The object list shows the active plate.
SelectInList(i, additive) ==
    /\ User
    /\ models[i].plate = active
    /\ selected' = Picked(i, additive)
    /\ UNCHANGED <<plates, active, models, history, fresh>> /\ Still

\* The view shows every plate, and models of plates that are gone; a click goes
\* to the plate of the mesh.
SelectInView(i, additive) ==
    /\ User
    /\ models[i].visible /\ (i # ActiveIndex \/ selected = {})
    /\ \E j \in DOMAIN models \ {i} : models[j].visible
    /\ selected' = Picked(i, additive) /\ active' = models[i].plate
    /\ UNCHANGED <<plates, models, history, fresh>> /\ Still

SelectNone ==
    /\ User
    /\ selected' = {}
    /\ UNCHANGED <<plates, active, models, history, fresh>> /\ Still

\* Rotation, position, orientation of the active model, or a patch of all the
\* selected ones (gizmo, transform panel, reset).
Transform(indices) ==
    /\ User
    /\ indices # {}
    /\ Update([i \in DOMAIN models |->
                IF i \in indices THEN [models[i] EXCEPT !.pose = 1 - @] ELSE models[i]])
    /\ UNCHANGED <<plates, active, selected, fresh>> /\ Still

ToggleVisible(i) ==
    /\ User
    /\ models[i].plate = active
    /\ Update([models EXCEPT ![i].visible = ~@])
    /\ UNCHANGED <<plates, active, selected, fresh>> /\ Still

\* A parent takes the models along whose id is that of a linked child.
RemovedWith(i) ==
    LET children == IF models[i].kind = "model"
                    THEN {m.id : m \in {c \in ToSet(models) : models[i].id \in c.links}}
                    ELSE {}
    IN {j \in DOMAIN models : j = i \/ models[j].id \in children}

\* Mutant: the children stay.
RemoveModelAlone(i) ==
    /\ User
    /\ models[i].plate = active
    /\ Update(RemoveAt(models, i))
    /\ selected' = {IF j > i THEN j - 1 ELSE j : j \in selected \ {i}}
    /\ UNCHANGED <<plates, active, fresh>> /\ Still

\* Mutant: the indices after the removed one are not shifted.
RemoveModelUnshifted(i) ==
    /\ User
    /\ models[i].plate = active
    /\ Update(Sub(DOMAIN models \ RemovedWith(i)))
    /\ selected' = selected \ {i}
    /\ UNCHANGED <<plates, active, fresh>> /\ Still

\* The selection closes up by one, however many went.
RemoveModel(i) ==
    /\ User
    /\ models[i].plate = active
    /\ Update(Sub(DOMAIN models \ RemovedWith(i)))
    /\ selected' = {IF j > i THEN j - 1 ELSE j : j \in selected \ {i}}
    /\ UNCHANGED <<plates, active, fresh>> /\ Still

Append1(m) == Update(Append(models, m))

\* A copy of model i; handleDuplicate and the copy to another plate select it.
Duplicate(i, plate, select) ==
    /\ User /\ Fresh(1)
    /\ Append1([models[i] EXCEPT !.uid = fresh, !.plate = plate])
    /\ selected' = IF select THEN {Len(models) + 1} ELSE selected
    /\ UNCHANGED <<plates, active>> /\ Still

MoveToPlate(i, plate) ==
    /\ User
    /\ Update([models EXCEPT ![i].plate = plate, ![i].pose = 0])
    /\ selected' = {i}
    /\ UNCHANGED <<plates, active, fresh>> /\ Still

-----------------------------------------------------------------------------
(* Uploads: a handler captures, the server stores, the answer is applied       *)

Upload(kind, f, plate) ==
    [kind |-> kind, file |-> f, links |-> {}, index |-> 0, plate |-> plate, len |-> Len(models),
     id |-> fresh]

\* handleUpload sees the plate of the render in which the number of models last
\* changed, handleUploadMany the present one. While one is under way the uploader is
\* disabled, not the drop zone of an empty scene.
StartUpload(f, memoised) ==
    /\ User
    /\ ~uploading \/ models = <<>>
    /\ uploading' = TRUE
    /\ pending' = pending \union
            {Upload("upload", f, IF memoised THEN uploadScope.plate ELSE active)}
    /\ Fresh(1)
    /\ UNCHANGED <<scene, history, saved, sliced>>

\* The MakerWorld import has the model on the server and asks for its description,
\* whatever else is under way.
StartImport(f) ==
    /\ User
    /\ pending' = pending \union {Upload("import", f, active)}
    /\ Fresh(1)
    /\ UNCHANGED <<scene, history, uploading, saved, sliced>>

\* A volume or a support pillar for a parent, on the plate of the first model with
\* the parent's id.
StartVolume(i, kind) ==
    LET parent == models[SelectInSeq(models, LAMBDA m : m.id = models[i].id)]
    IN /\ User
       /\ uploading' = TRUE
       /\ pending' = pending \union {[kind |-> kind, file |-> "simple", links |-> {parent.id}, index |-> 0,
               plate |-> parent.plate, len |-> Len(models), id |-> fresh]}
       /\ Fresh(1)
       /\ UNCHANGED <<scene, history, saved, sliced>>

\* The two halves of the active model replace it.
StartCut ==
    /\ User
    /\ ActiveModel # <<>>
    /\ uploading' = TRUE
    /\ pending' = pending \union {[kind |-> "cut", file |-> "simple", links |-> {}, index |-> ActiveIndex,
            plate |-> active, len |-> cutLen, id |-> fresh]}
    /\ Fresh(2)
    /\ UNCHANGED <<scene, history, saved, sliced>>

\* The answer of an upload, removed from the pending ones.
Answered(u) ==
    /\ pending' = pending \ {u}
    /\ uploading' = (u.kind = "import" /\ uploading)
    /\ UNCHANGED <<saved, steps, sliced>>

\* Mutant: the answer is added to the models of the render that sent it.
ArriveOnOldScene(u) ==
    /\ u.kind = "upload" /\ Files[u.file].plates = 1
    /\ Fresh(1)
    /\ Update(Append(SubSeq(models, 1, IF u.len < Len(models) THEN u.len ELSE Len(models)),
                     New(fresh, <<u.id>>, u.plate)))
    /\ selected' = {u.len + 1}
    /\ UNCHANGED <<plates, active>>
    /\ Answered(u)

\* addModelToProject, one plate: the model and its embedded children.
Arrive(u) ==
    LET children == Files[u.file].children
    IN /\ u.kind \in {"upload", "import"} /\ Files[u.file].plates = 1
       /\ Fresh(1 + Len(children))
       /\ Update(models \o <<New(fresh, <<u.id>>, u.plate)>> \o
                 [c \in DOMAIN children |->
                    [New(fresh + c, <<u.id>>, u.plate) EXCEPT !.kind = children[c], !.links = {<<u.id>>}]])
       /\ selected' = {u.len + 1}
       /\ UNCHANGED <<plates, active>>
       /\ Answered(u)

\* addModelToProject, several plates: a plate of the editor for each.
ArrivePlates(u) ==
    LET n == Files[u.file].plates
    IN /\ u.kind \in {"upload", "import"} /\ n > 1
       /\ Fresh(n)
       /\ plates' = plates \o [k \in 1..n |-> Plate(fresh + k - 1)]
       /\ Update(models \o [k \in 1..n |->
                    [New(fresh + k - 1, <<u.id>>, Plate(fresh + k - 1)) EXCEPT !.count = n, !.back = k]])
       /\ active' = Plate(fresh) /\ selected' = {u.len + 1}
       /\ Answered(u)

ArriveVolume(u) ==
    /\ u.kind \in {"negative", "support"}
    /\ Fresh(1)
    /\ Append1([New(fresh, <<u.id>>, u.plate) EXCEPT !.kind = u.kind, !.links = u.links])
    /\ UNCHANGED <<plates, active, selected>>
    /\ Answered(u)

\* The index is the one of the render that sent the halves.
ArriveCut(u) ==
    /\ u.kind = "cut"
    /\ Fresh(2)
    /\ Update((IF u.index \in DOMAIN models THEN RemoveAt(models, u.index) ELSE models)
              \o <<New(fresh, <<u.id>>, u.plate), New(fresh + 1, <<u.id + 1>>, u.plate)>>)
    /\ selected' = {u.len}
    /\ UNCHANGED <<plates, active>>
    /\ Answered(u)

UploadFails(u) ==
    /\ Answered(u)
    /\ UNCHANGED <<scene, history, fresh>>

-----------------------------------------------------------------------------
(* Storage and slicing                                                         *)

\* Half a second after the last change.
Save ==
    /\ saved' = <<[plates |-> plates, active |-> active, models |-> models, selected |-> selected]>>
    /\ saved' # saved
    /\ UNCHANGED <<scene, history, uploads, fresh, steps, sliced>>

\* Mutant: the plate of the file is not among the fields that are kept.
ReloadUntagged ==
    /\ User
    /\ saved # <<>>
    /\ plates' = saved[1].plates /\ active' = saved[1].active
    /\ models' = [i \in DOMAIN saved[1].models |-> [saved[1].models[i] EXCEPT !.back = 0]]
    /\ selected' = saved[1].selected
    /\ undo' = <<>> /\ redo' = <<>> /\ pending' = {} /\ uploading' = FALSE
    /\ UNCHANGED <<saved, fresh, sliced>>

\* The page is loaded again; answers of the old page are lost, its uploads not.
Reload ==
    /\ User
    /\ saved # <<>>
    /\ plates' = saved[1].plates /\ active' = saved[1].active
    /\ models' = saved[1].models
    /\ selected' = IF saved[1].models = <<>> THEN {} ELSE saved[1].selected
    /\ undo' = <<>> /\ redo' = <<>>
    /\ pending' = {} /\ uploading' = FALSE
    /\ UNCHANGED <<saved, fresh, sliced>>

\* buildSliceBody for the visible models of one plate: the active one, or each that
\* has visible models (handleSliceAll sends one request per plate). The plate may be
\* gone from the tabs; it counts as the first then.
SlicePlate(p) ==
    LET visible == Sub({i \in OnPlate(p) : models[i].visible})
        first == visible[1]
        place == IF p \in ToSet(plates) THEN CHOOSE k \in DOMAIN plates : plates[k] = p ELSE 1
    IN /\ User
       /\ visible # <<>>
       /\ sliced' = <<[models |-> visible,
                       plateIndex |-> IF first.back # 0 THEN first.back
                                      ELSE IF \E m \in ToSet(visible) : m.count > 1 THEN place ELSE 0]>>
       /\ UNCHANGED <<scene, history, saved, uploads, fresh>>

Act ==
    \/ AddPlate \/ ClearAll \/ Undo \/ Redo \/ SelectNone \/ StartCut \/ Save \/ Reload
    \/ \E k \in DOMAIN plates :
            \/ SelectPlate(k) \/ DuplicatePlate(k) \/ DeletePlate(k)
            \/ \E l \in DOMAIN plates : ReorderPlates(k, l)
    \/ \E p \in {m.plate : m \in ToSet(models)} : SlicePlate(p)
    \/ Transform({ActiveIndex} \cap DOMAIN models) \/ Transform(selected \cap DOMAIN models)
    \/ \E i \in DOMAIN models :
            \/ \E additive \in BOOLEAN : SelectInList(i, additive) \/ SelectInView(i, additive)
            \/ ToggleVisible(i) \/ RemoveModel(i)
            \/ \E s \in BOOLEAN : Duplicate(i, models[i].plate, s)
            \/ \E k \in DOMAIN plates \ {j \in DOMAIN plates : plates[j] = models[i].plate} :
                    MoveToPlate(i, plates[k]) \/ Duplicate(i, plates[k], TRUE)
            \/ \E kind \in {"negative", "support"} : StartVolume(i, kind)
    \/ \E f \in DOMAIN Files : StartImport(f) \/ \E b \in BOOLEAN : StartUpload(f, b)
    \/ \E u \in pending :
            Arrive(u) \/ ArrivePlates(u) \/ ArriveVolume(u) \/ ArriveCut(u) \/ UploadFails(u)

\* The memoised handlers are made anew when what they depend on has changed, and
\* with the page.
Scopes ==
    /\ uploadScope' = IF Reload \/ Len(models') # Len(models)
                      THEN [plate |-> active', len |-> Len(models')] ELSE uploadScope
    /\ cutLen' = IF Reload \/ <<ActiveModel, ActiveIndex, active>>' # <<ActiveModel, ActiveIndex, active>>
                 THEN Len(models') ELSE cutLen

Next == Act /\ Scopes

Spec == Init /\ [][Next]_vars

-----------------------------------------------------------------------------
(* Properties                                                                  *)

Instance(m) == <<m.uid, m.id>>
\* The step is an edit, not a step through the history nor a new page.
Edited == redo = <<>> /\ redo' = <<>> /\ undo' # <<>> /\ Last(undo') = models /\ pending' = pending
Instances(ms) == {Instance(m) : m \in ToSet(ms)}

\* The object list has a row for every model of a plate, whatever has become of its
\* parent, so that each can be selected and removed.
AllListed ==
    \A i \in DOMAIN models : i \in Rows(models[i].plate)

\* The two stacks together never hold more steps than the limit (redo has none of
\* its own): memory stays bounded however undo and redo are mixed.
HistoryBounded == Len(undo) + Len(redo) <= HistoryLimit

\* An answer that arrives late adds its models and leaves everything the user did
\* in the meantime as it is.
LateAnswersKeepWork ==
    [][\A u \in pending : (u \notin pending' /\ steps' = steps /\ u.kind # "cut") =>
            /\ Len(models') >= Len(models)
            /\ \A i \in DOMAIN models : models'[i] = models[i]]_vars

\* Removing the only copy of a parent leaves nothing behind that is linked to it.
NoOrphanLeft ==
    [][(Edited /\ plates' = plates) =>
            \A m \in ToSet(models') : \A l \in m.links :
                (\E p \in ToSet(models) : p.id = l /\ p.kind = "model") =>
                    \E p \in ToSet(models') : p.id = l]_vars

\* When one model alone goes, the rest of the selection stays on its models.
SelectionFollows ==
    [][(Edited /\ plates' = plates /\ Len(models') = Len(models) - 1 /\ selected \subseteq DOMAIN models) =>
            /\ selected' \subseteq DOMAIN models'
            /\ {Instance(models'[j]) : j \in selected'}
                = {Instance(models[j]) : j \in selected} \intersect Instances(models')]_vars

\* A plate with one model of a multi-plate file is sliced as that file's plate,
\* wherever its tab is now and after any number of reloads (comment on the saved
\* fields: "reload forgets which backend plate a pm maps to").
SlicesOwnPlate ==
    \A r \in ToSet(sliced) :
        (Len(r.models) = 1 /\ r.models[1].count > 1) =>
            r.plateIndex = r.models[1].back /\ r.plateIndex \in 1..r.models[1].count
=============================================================================
