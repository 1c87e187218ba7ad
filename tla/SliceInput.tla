----------------------------- MODULE SliceInput -----------------------------
(* From an uploaded 3MF to the project file the slicer gets: the rows          *)
(* register3MFModel stores, the entries the web client sends (App.tsx), the    *)
(* buildSliceInput3MF (routes/slice.ts; its settings half is ProjectSettings)  *)
(* and services/threemf-builder.ts.                                            *)
(*                                                                             *)
(* Angles are quarter turns. The project file is an archive record like the    *)
(* uploaded one, and counts lengths in halves of the upload's unit, so that    *)
(* the middle of a box is exact.                                               *)
EXTENDS ModelArchive, ProjectSettings

CONSTANTS Archives,     \* the files that may be uploaded
          Requests,     \* <<edit, settings request>>: what a user may ask for
          Volume,       \* build volume, <<x, y, z>> (3MF axes)
          MaxFaces

ASSUME MaxFacesAssumption == MaxFaces \in Nat
ASSUME ArchivesAssumption == \A a \in Archives : IsArchive(a)
ASSUME VolumeAssumption == IsPoint(Volume)

\* A plate by its number; a turn, a move and a scale along each axis.
IsEdit(e) == e.plate \in Nat \ {0} /\ IsPoint(e.rotation) /\ IsPoint(e.offset) /\ IsPoint(e.scale)

ASSUME RequestsAssumption ==
    \A r \in Requests :
        IsEdit(r[1]) /\ IsMulti(r[2]) /\ IsList(r[2].slots) /\ IsSettings(r[2].process)

VARIABLES upload,   \* the uploaded archive
          stored,   \* its row (optional): what Register3MFModel kept
          phase,    \* "new" | "stored" | "refused" | "sent" | "built"
          request,  \* the body of POST /api/slice
          project   \* the archive build3MF wrote

vars == <<upload, stored, phase, request, project>>

Zero == <<0, 0, 0>>
Plus(p, q) == [k \in 1..3 |-> p[k] + q[k]]
Twice(at) == [i \in DOMAIN at |-> [k \in 1..3 |-> 2 * at[i][k]]]
Shift(at, o) == [i \in DOMAIN at |-> Plus(at[i], o)]
Coordinates(at, k) == {at[i][k] : i \in DOMAIN at}
Low(at, k) == CHOOSE v \in Coordinates(at, k) : \A w \in Coordinates(at, k) : v <= w
High(at, k) == CHOOSE v \in Coordinates(at, k) : \A w \in Coordinates(at, k) : v >= w

-----------------------------------------------------------------------------
(* The web client's entries for one model                                      *)

Entry(kind, id) == [modelId |-> id, kind |-> kind, linkedTo |-> <<>>, visible |-> TRUE,
                    rotation |-> Zero, offset |-> Zero, scale |-> <<1, 1, 1>>,
                    part |-> <<>>, negative |-> <<>>]

\* One child per embedded cutter of plate 1, placed next to its centred parent.
NegativeChildren(id, row) ==
    LET mid(at, k) == (Low(at, k) + High(at, k)) \div 2
        parent == row.plates[1].at
    IN [i \in DOMAIN row.negatives[1] |->
            LET at == row.negatives[1][i]
            IN [Entry("negative", id) EXCEPT
                    !.linkedTo = <<id>>, !.negative = <<1, i>>,
                    !.offset = <<mid(at, 1) - mid(parent, 1), Low(at, 2) - Low(parent, 2),
                                 mid(at, 3) - mid(parent, 3)>>]]

\* One child per printable part of plate 1, without a transform of its own.
PrintableChildren(id, row) ==
    [i \in DOMAIN row.parts[1] |->
        [Entry("part", id) EXCEPT !.linkedTo = <<id>>, !.part = <<1, i>>]]

\* The plates of one upload become plates of the editor; children exist only on
\* the first. An edit rotates, moves or scales the parent and hides children.
SliceBody(id, row, edit, settings) ==
    LET parent == [Entry("model", id) EXCEPT !.rotation = edit.rotation,
                        !.offset = edit.offset, !.scale = edit.scale]
        children == IF edit.plate = 1
                    THEN NegativeChildren(id, row) \o PrintableChildren(id, row)
                    ELSE <<>>
    IN [models |-> <<parent>> \o
            [i \in DOMAIN children |->
                [children[i] EXCEPT !.visible = i \notin edit.hidden]],
        plateIndex |-> IF row.plateCount > 1 THEN edit.plate ELSE 0,
        settings |-> settings]

-----------------------------------------------------------------------------
(* buildSliceInput3MF: entries to meshes                                       *)

PlateOf(body) == IF body.plateIndex > 0 THEN body.plateIndex ELSE 1

\* The plate's row if there is one, else the model's.
MeshOf(db, id, plate) ==
    IF plate \in DOMAIN db[id].plates THEN db[id].plates[plate]
    ELSE [at |-> db[id].at, colours |-> db[id].colours]

\* Mutant: a cutter is looked up as if it were the model itself.
ChildMeshNoCutters(db, e, plate) ==
    IF e.part # <<>> THEN db[e.modelId].parts[e.part[1]][e.part[2]]
    ELSE [at |-> MeshOf(db, e.modelId, plate).at, colours |-> <<>>]

\* What an inline child refers to; only a part carries colours of its own.
ChildMesh(db, e, plate) ==
    CASE e.part # <<>> -> db[e.modelId].parts[e.part[1]][e.part[2]]
      [] e.negative # <<>> ->
            [at |-> db[e.modelId].negatives[e.negative[1]][e.negative[2]], colours |-> <<>>]
      [] OTHER -> [at |-> MeshOf(db, e.modelId, plate).at, colours |-> <<>>]

\* The visible entries: models first, then what is linked to them.
Visible(body) ==
    Only(body.models, {i \in DOMAIN body.models : body.models[i].visible})
Parents(body) ==
    LET visible == Visible(body)
    IN Only(visible, {i \in DOMAIN visible : visible[i].kind = "model"})
Inline(body) ==
    LET visible == Visible(body)
    IN Only(visible, {i \in DOMAIN visible : visible[i].kind # "model"})

\* modelIdToIndex: of several copies of a model, the last.
ModelIdToIndex(parents) == Assoc([i \in DOMAIN parents |-> <<parents[i].modelId, i>>])

\* The first of the ids that is known, or 0.
Linked(index, ids) ==
    LET known == {k \in DOMAIN ids : ids[k] \in DOMAIN index}
    IN IF known = {} THEN 0 ELSE index[ids[CHOOSE k \in known : \A l \in known : k <= l]]

MeshEntry(e, mesh, index) ==
    [kind |-> e.kind, at |-> mesh.at, colours |-> mesh.colours, rotation |-> e.rotation,
     offset |-> e.offset, scale |-> e.scale, linkedTo |-> Linked(index, e.linkedTo)]

\* The plate's cutters, once for each model none of whose children is inline.
Cutters(db, parents, inline, plate, i) ==
    LET id == parents[i].modelId
        hasInline == UNION {ToSet(inline[j].linkedTo) : j \in DOMAIN inline}
        negs == Lookup(db[id].negatives, plate, <<>>)
    IN IF id \in hasInline \/ \E j \in 1..(i - 1) : parents[j].modelId = id THEN <<>>
       ELSE [n \in DOMAIN negs |->
                [kind |-> "negative", at |-> negs[n], colours |-> <<>>, rotation |-> Zero,
                 offset |-> Zero, scale |-> <<1, 1, 1>>, linkedTo |-> i]]

BuildModels(db, body) ==
    LET plate == PlateOf(body)
        parents == Parents(body)
        inline == Inline(body)
        index == ModelIdToIndex(parents)
    IN [i \in DOMAIN parents |->
            MeshEntry(parents[i], MeshOf(db, parents[i].modelId, plate), index)]
       \o [i \in DOMAIN inline |-> MeshEntry(inline[i], ChildMesh(db, inline[i], plate), index)]
       \o Flatten([i \in DOMAIN parents |-> Cutters(db, parents, inline, plate, i)])

-----------------------------------------------------------------------------
(* threemf-builder: meshes to objects                                          *)

Cos(q) == CASE q % 4 = 0 -> 1 [] q % 4 = 2 -> -1 [] OTHER -> 0
Sin(q) == CASE q % 4 = 1 -> 1 [] q % 4 = 3 -> -1 [] OTHER -> 0

\* Euler XYZ, one axis after the other.
Rotated(p, r) ==
    LET y1 == p[2] * Cos(r[1]) - p[3] * Sin(r[1])
        z1 == p[2] * Sin(r[1]) + p[3] * Cos(r[1])
        x2 == p[1] * Cos(r[2]) + z1 * Sin(r[2])
        z2 == z1 * Cos(r[2]) - p[1] * Sin(r[2])
    IN <<x2 * Cos(r[3]) - y1 * Sin(r[3]), x2 * Sin(r[3]) + y1 * Cos(r[3]), z2>>

\* Rotation, then signed scale, then Y-up to Z-up, vertex by vertex.
Turned(m) ==
    LET mesh == DeduplicateVertices(m.at)
    IN [i \in DOMAIN mesh.indices |->
            LET p == Rotated(mesh.vertices[mesh.indices[i]], m.rotation)
            IN <<p[1] * m.scale[1], -(p[3] * m.scale[3]), p[2] * m.scale[2]>>]

\* Mutant: the viewer's depth axis is not turned round.
PlateOffsetUnflipped(at, offset) ==
    <<Volume[1] - Low(at, 1) - High(at, 1) + 2 * offset[1],
      Volume[2] - Low(at, 2) - High(at, 2) + 2 * offset[3],
      2 * (offset[2] - Low(at, 3))>>

\* Centred on the plate, resting on it, then moved by the user's offset; in halves.
PlateOffset(at, offset) ==
    <<Volume[1] - Low(at, 1) - High(at, 1) + 2 * offset[1],
      Volume[2] - Low(at, 2) - High(at, 2) - 2 * offset[3],
      2 * (offset[2] - Low(at, 3))>>

\* The first filament of a colour wins.
ColorToExtruder(filaments, c) ==
    LET same == {i \in DOMAIN filaments : filaments[i] = c}
    IN IF same = {} THEN 1 ELSE CHOOSE i \in same : \A j \in same : i <= j

\* Hex strings "4", "8", "0C", "1C", ... as numbers.
ExtruderToPaintColor(n) == IF n <= 2 THEN 4 * n ELSE (n - 3) * 16 + 12

\* A colour buffer shorter than the mesh leaves the rest unpainted.
PaintColors(colours, count, filaments) ==
    [f \in 1..count |->
        IF f \notin DOMAIN colours \/ colours[f] = Unpainted THEN Absent
        ELSE ExtruderToPaintColor(ColorToExtruder(filaments, colours[f]))]

PartSubtype(kind) == CASE kind = "negative" -> "negative_part"
                       [] kind = "modifier" -> "modifier"
                       [] kind = "support" -> "support_model"
                       [] OTHER -> "normal_part"

\* Every model takes an id, in order. A parent that has parts only reserves it, a
\* child is shifted by what its parent was if it is there, everything else is put
\* on the plate.
Objects(models, filaments) ==
    LET withParts == {models[i].linkedTo : i \in {j \in DOMAIN models : models[j].kind = "part"}}
        reserved == {i \in DOMAIN models : models[i].kind = "model" /\ i \in withParts}
        parents == {i \in DOMAIN models : models[i].kind = "model"} \ reserved
        at == [i \in DOMAIN models |-> Turned(models[i])]
        offsets == [i \in parents |-> PlateOffset(at[i], models[i].offset)]
        Object(i) ==
            LET m == models[i]
                placed == Shift(Twice(at[i]),
                                Lookup(offsets, IF m.kind = "model" THEN i ELSE m.linkedTo, Zero))
                paint == PaintColors(IF m.kind \in {"model", "part"} THEN m.colours ELSE <<>>,
                                     Len(at[i]), filaments)
            IN [id |-> i, kind |-> m.kind,
                faces |-> [f \in DOMAIN placed |->
                            [at |-> placed[f], paint |-> paint[f], p1 |-> Absent]]]
    IN Only([i \in DOMAIN models |-> Object(i)], DOMAIN models \ reserved)

\* The id of the wrapper: the next free one.
TopId(models) == Len(models) + 1

\* One wrapper that refers to all objects, one plate that holds it, the settings.
Wrapped(objs, top, settings) ==
    [objects |->
        [i \in DOMAIN objs |-> [id |-> objs[i].id, faces |-> objs[i].faces,
                                group |-> <<>>, comps |-> <<>>]]
        \o <<[id |-> top, faces |-> <<>>, group |-> <<>>,
              comps |-> [i \in DOMAIN objs |->
                            [path |-> "", target |-> objs[i].id, transform |-> <<>>]]]>>,
     files |-> [p \in {} |-> <<>>],
     items |-> <<<<top, <<[a |-> <<1, 0, 0>>, b |-> <<0, 1, 0>>, c |-> <<0, 0, 1>>, t |-> Zero]>>>>>>,
     config |-> <<[objects |-> <<[id |-> top, extruder |-> 1, name |-> "model",
                     parts |-> [i \in DOMAIN objs |->
                         [id |-> objs[i].id, subtype |-> PartSubtype(objs[i].kind),
                          extruder |-> IF objs[i].kind \in {"model", "part"} THEN 1 ELSE 0]]]>>,
                   plates |-> <<[num |-> 1, ids |-> {top}]>>]>>,
     project |-> <<[colours |-> settings["filament_colour"].v, mixed |-> <<>>]>>,
     settings |-> settings]

Build3MF(models, settings) ==
    Wrapped(Objects(models, settings["filament_colour"].v), TopId(models), settings)

-----------------------------------------------------------------------------

Init ==
    /\ upload \in Archives
    /\ stored = <<>>
    /\ phase = "new"
    /\ request = <<>>
    /\ project = <<>>

\* POST /api/models with a 3MF: every plate is parsed or nothing is kept.
Upload ==
    /\ phase = "new"
    /\ stored' = Register3MFModel(upload, MaxFaces)
    /\ phase' = IF stored' = <<>> THEN "refused" ELSE "stored"
    /\ UNCHANGED <<upload, request, project>>

\* The user edits one plate and asks for a slice of it.
Send(edit, settings) ==
    /\ phase = "stored"
    /\ edit.plate <= stored[1].plateCount
    /\ request' = <<SliceBody(1, stored[1], edit, settings)>>
    /\ phase' = "sent"
    /\ UNCHANGED <<upload, stored, project>>

\* buildSliceInput3MF and build3MF, in the job or for preview-3mf.
Build ==
    /\ phase = "sent"
    /\ project' = <<Build3MF(BuildModels(stored, request[1]),
                            BuildProjectSettings(request[1].settings))>>
    /\ phase' = "built"
    /\ UNCHANGED <<upload, stored, request>>

Next == \/ Upload
        \/ \E r \in Requests : Send(r[1], r[2])
        \/ Build

Spec == Init /\ [][Next]_vars
-----------------------------------------------------------------------------
(* Properties. The project file is compared with what the uploaded file says.  *)

Built == phase = "built"
Body == request[1]
Slots == Body.settings.slots
Settings == project[1].settings
Source == Parse3MF(upload, PlateOf(Body))
ZUp(at) == [i \in DOMAIN at |-> <<at[i][1], -at[i][3], at[i][2]>>]

ProjectFaces(subtype) ==
    LET parts == project[1].config[1].objects[1].parts
    IN Flatten([i \in DOMAIN parts |->
            IF parts[i].subtype = subtype THEN project[1].objects[i].faces ELSE <<>>])
Points(faces) == [i \in DOMAIN faces |-> faces[i].at]
AllVisible == \A i \in DOMAIN Body.models : Body.models[i].visible
Unturned == Body.models[1].rotation = Zero /\ Body.models[1].scale = <<1, 1, 1>>

\* Faces and cutters are where they were, but for one move of them all.
MovedAlike(printed, cut, source, cutters) ==
    LET move == [k \in 1..3 |-> printed[1][k] - 2 * source[1][k]]
    IN printed = Shift(Twice(source), move) /\ cut = Shift(Twice(cutters), move)

\* An upload that is sliced as it came reaches the slicer whole: each printable
\* face once, each cutter face once, and both moved by the same vector, so every
\* hole stays where it was (wrapped assemblies, cutters of any plate, offsets).
AssemblyIntact ==
    (Built /\ Unturned /\ AllVisible) =>
        MovedAlike(Points(ProjectFaces("normal_part")), Points(ProjectFaces("negative_part")),
                   ZUp(Source.at),
                   Flatten([i \in DOMAIN Source.negatives |-> ZUp(Source.negatives[i])]))

(* What the upload's paint says, read off the archive and not with the parser. *)

\* The filament a TriangleSelector code stands for: the upper half of the last hex
\* digit; if that is 3, the digits before it count on from 3.
Decoded(code) ==
    LET state == (code % 16) \div 4
    IN IF state = 3 THEN code \div 16 + 3 ELSE state

\* A mesh with multiples of 4 only is painted in these codes, any other mesh in
\* filament numbers (comment of extractPaintColors).
InCodes(faces) ==
    \A f \in DOMAIN faces : faces[f].paint # Absent => faces[f].paint % 4 = 0
PaintedWith(faces, f) ==
    CASE faces[f].paint = Absent -> Absent
      [] faces[f].paint # Absent /\ InCodes(faces) -> Decoded(faces[f].paint)
      [] OTHER -> faces[f].paint

\* Codes of one digit, that is up to filament 3, and numbers of one byte.
InRange(faces, f) == faces[f].paint < IF InCodes(faces) THEN 16 ELSE 256

\* The meshes a component names in another file, and whether they only cut or
\* modify others.
NamedMeshes(archive, obj, comp) ==
    LET ext == Lookup(archive.files, comp.path, <<>>)
        named == {i \in DOMAIN ext :
                    comp.target # Absent =>
                        /\ ext[i].id = comp.target
                        /\ \A j \in 1..(i - 1) : ext[j].id # comp.target}
        subtypes == ModelSettings(archive.config).partSubtypes
        cut == /\ comp.target # Absent
               /\ Lookup(subtypes, <<obj.id, comp.target>>, "") \in NotPrintable
    IN Only([i \in DOMAIN ext |-> [faces |-> ext[i].faces, cut |-> cut]],
            {i \in named : ext[i].faces # <<>>})

\* The meshes of one object: its own, or those of its components.
MeshesOf(archive, obj) ==
    IF obj.faces # <<>> THEN <<[faces |-> obj.faces, cut |-> FALSE]>>
    ELSE Flatten([c \in DOMAIN obj.comps |-> NamedMeshes(archive, obj, obj.comps[c])])

\* The printable meshes of a plate, in the order of the file.
PlateMeshes(archive, plate) ==
    LET ids == Lookup(ModelSettings(archive.config).plates, plate, {})
        objects == Only(archive.objects, {i \in DOMAIN archive.objects :
                                            ids = {} \/ archive.objects[i].id \in ids})
        all == Flatten([i \in DOMAIN objects |-> MeshesOf(archive, objects[i])])
    IN Only(all, {i \in DOMAIN all : ~all[i].cut})

\* Face by face, the colour of the filament it was painted with, Absent if it was
\* not painted or the file has no such colour, or only those in range count.
StrokesOf(faces, filaments, all) ==
    [f \in DOMAIN faces |-> IF all \/ InRange(faces, f)
                            THEN Lookup(filaments, PaintedWith(faces, f), Absent)
                            ELSE Absent]
Strokes(archive, plate, all) ==
    LET filaments == ListedColours(archive.project)
        meshes == PlateMeshes(archive, plate)
    IN Flatten([m \in DOMAIN meshes |-> StrokesOf(meshes[m].faces, filaments, all)])

\* Face by face: bare ones stay bare, the others get the first filament of their
\* colour, or the first of all if no filament has it.
PaintedAs(faces, colours, filaments) ==
    \A f \in DOMAIN faces :
        IF f \notin DOMAIN colours \/ colours[f] = Unpainted
        THEN faces[f].paint = Absent
        ELSE LET e == Decoded(faces[f].paint)
             IN IF colours[f] \in ToSet(filaments)
                THEN filaments[e] = colours[f] /\ colours[f] \notin {filaments[j] : j \in 1..(e - 1)}
                ELSE e = 1

\* The colours of the uploaded faces, from the parts when they are sliced by part.
ColoursOf(source) ==
    IF \E i \in DOMAIN Body.models : Body.models[i].kind = "part"
    THEN Flatten([p \in DOMAIN source.parts |-> source.parts[p].colours])
    ELSE source.colours

\* The colours the printed faces should have: what they were painted with, and
\* where there is no stroke what the parser gave them (object, part and group).
Intended(faces, strokes) ==
    [f \in DOMAIN faces |->
        IF Lookup(strokes, f, Absent) # Absent THEN strokes[f]
        ELSE Lookup(ColoursOf(Source), f, Unpainted)]

\* From the codes of the upload to the codes of the project file, through parser,
\* rows, request, merge and encoder: a face painted with a filament whose colour is
\* in the slots is printed with the first slot of that colour, one whose colour no
\* slot has with the first slot, a bare one stays bare. Codes the parser misreads
\* (PaintDecoded) do not count as paint.
PaintKept ==
    (Built /\ AllVisible) =>
        LET faces == ProjectFaces("normal_part")
        IN PaintedAs(faces, Intended(faces, Strokes(upload, PlateOf(Body), FALSE)),
                     Settings["filament_colour"].v)

\* docs/slicer-color.md:140-142 and 181-183: what extractPaintColors decodes is the
\* bitstream, "1C" is filament 4. Then every stroke is kept, not only short codes.
PaintDecoded ==
    (Built /\ AllVisible) =>
        LET faces == ProjectFaces("normal_part")
        IN PaintedAs(faces, Intended(faces, Strokes(upload, PlateOf(Body), TRUE)),
                     Settings["filament_colour"].v)

\* However the user turned, scaled and moved a model, it is centred on the plate
\* and its lowest point is as far above it as the user lifted it.
RestsOnPlate ==
    (Built /\ \A i \in DOMAIN Body.models : Body.models[i].kind = "part" => ~Body.models[i].visible) =>
        LET at == Points(ProjectFaces("normal_part"))
            moved == Body.models[1].offset
        IN /\ Low(at, 3) = 2 * moved[2]
           /\ Low(at, 1) + High(at, 1) = 2 * (Volume[1] + 2 * moved[1])
           /\ Low(at, 2) + High(at, 2) = 2 * (Volume[2] - 2 * moved[3])

\* The slicer is told the material of the profile the user picked for a slot,
\* whatever type the slot still carries and whatever the uploaded file, the
\* profiles or the process settings say.
SlotMaterial ==
    Built => \A i \in DOMAIN Slots :
        DeriveMaterial(Slots[i].profile) # None =>
            Settings["filament_type"].v[i] = DeriveMaterial(Slots[i].profile)

\* The profiles laid over the template.
Chosen == {ProfileSettings(kind, Body.settings.profiles[kind]) : kind \in {"machine", "filament", "process"}}

\* What makes the slicers crash or refuse never reaches them: no list they index by
\* filament slot or extruder becomes shorter than the template's, unless the
\* request or a profile gives something else for it (comment in the merge: it
\* crashes when it reads past the end), no compatibility lists, no empty sentinels,
\* no filament index of zero unless it was given as the sentinel, and the tool
\* change code they insist on.
SlicerAccepts ==
    Built =>
        /\ \A k \in DOMAIN Template \ (DOMAIN Body.settings.process \union CompatibilityKeys) :
                (/\ Template[k].list
                 /\ \A p \in Chosen : k \in DOMAIN p => p[k].list
                 /\ k \notin TempKeys \union {"filament_colour", "filament_type",
                                              "filament_settings_id", "default_filament_profile"}
                 /\ ~Body.settings.multi) => Len(Settings[k].v) >= Len(Template[k].v)
        /\ DOMAIN Settings \cap CompatibilityKeys = {}
        /\ \A k \in DOMAIN Settings \ {"filament_colour"} : "-1" \notin ToSet(Settings[k].v)
        /\ \A k \in FilamentIndexKeys : Settings[k] = Scalar("0") =>
                \E s \in Chosen \union {Template, Body.settings.process} :
                    k \in DOMAIN s /\ s[k] = Scalar("-1")
        /\ Settings["layer_change_gcode"] = Scalar("G92")
        /\ Settings["single_extruder_multi_material"] = Scalar("1") =>
                Settings["change_filament_gcode"] = Scalar("G92")
=============================================================================
