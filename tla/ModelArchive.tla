---------------------------- MODULE ModelArchive ----------------------------
(* What a 3MF upload turns into: services/threemf-parser.ts, the STL side of   *)
(* services/model-parser.ts and register3MFModel in routes/models.ts.          *)
(*                                                                             *)
(* A face stands for its three vertices and is one point <<x, y, z>>; a colour *)
(* is one channel (0..255; the code treats R, G and B alike) and Unpainted is  *)
(* a face whose alpha is 0. An optional value is a sequence of length 0 or 1.  *)
(* An archive is a record:                                                     *)
(*   objects  <object> elements in file order, [id, faces, group, comps]       *)
(*   files    external .model files, path -> sequence of objects               *)
(*   items    <build><item> elements, <<id, optional transform>>               *)
(*   config   optional model_settings, [objects, plates]                       *)
(*   project  optional project_settings, [colours, mixed]                      *)
EXTENDS Integers, Sequences, FiniteSets, SequencesExt

Absent == -1
Unpainted == -1
White == 255

Lookup(f, k, default) == IF k \in DOMAIN f THEN f[k] ELSE default

\* A Map filled from a list of <<key, value>>: a later entry replaces an earlier.
Assoc(pairs) ==
    LET last(k) == CHOOSE i \in DOMAIN pairs :
                        /\ pairs[i][1] = k
                        /\ \A j \in DOMAIN pairs : pairs[j][1] = k => j <= i
    IN [k \in {p[1] : p \in ToSet(pairs)} |-> pairs[last(k)][2]]

\* The sequences of f, one after the other.
Flatten(f) ==
    LET upTo[n \in Nat] == IF n = 0 THEN <<>> ELSE upTo[n - 1] \o f[n]
    IN upTo[Len(f)]

\* Array.filter: the elements at the places of S, in order.
Only(s, S) == Flatten([i \in DOMAIN s |-> IF i \in S THEN <<s[i]>> ELSE <<>>])

-----------------------------------------------------------------------------
(* What a file that can be read consists of: lists of elements, and numbers in *)
(* vertices and matrices.                                                      *)

IsList(s) == Len(s) \in Nat /\ s = [i \in 1..Len(s) |-> s[i]]
IsPoint(p) == p[1] \in Int /\ p[2] \in Int /\ p[3] \in Int
IsTransform(t) ==
    t # <<>> => IsPoint(t[1].a) /\ IsPoint(t[1].b) /\ IsPoint(t[1].c) /\ IsPoint(t[1].t)
IsObject(o) ==
    /\ IsList(o.faces)
    /\ \A i \in DOMAIN o.faces :
            IsPoint(o.faces[i].at) /\ o.faces[i].paint \in Nat \union {Absent}
    /\ IsList(o.comps) /\ \A i \in DOMAIN o.comps : IsTransform(o.comps[i].transform)
IsArchive(a) ==
    /\ IsList(a.objects) /\ \A i \in DOMAIN a.objects : IsObject(a.objects[i])
    /\ \A p \in DOMAIN a.files :
            IsList(a.files[p]) /\ \A i \in DOMAIN a.files[p] : IsObject(a.files[p][i])
    /\ IsList(a.items) /\ \A i \in DOMAIN a.items : IsTransform(a.items[i][2])
    /\ a.config # <<>> => IsList(a.config[1].plates)
    /\ a.project # <<>> => IsList(a.project[1].colours)

-----------------------------------------------------------------------------
(* Metadata/model_settings.config and Metadata/project_settings.config         *)

ModelSettings(config) ==
    LET objs == IF config = <<>> THEN <<>> ELSE config[1].objects
        plates == IF config = <<>> THEN <<>> ELSE config[1].plates
        parts == Flatten([i \in DOMAIN objs |->
                    [j \in DOMAIN objs[i].parts |->
                        [objs[i].parts[j] EXCEPT !.id = <<objs[i].id, @>>]]])
    IN [objectExtruders |->
            Assoc(SelectSeq([i \in DOMAIN objs |-> <<objs[i].id, objs[i].extruder>>],
                            LAMBDA p : p[2] # Absent)),
        partExtruders |->
            Assoc(SelectSeq([i \in DOMAIN parts |-> <<parts[i].id, parts[i].extruder>>],
                            LAMBDA p : p[2] # Absent)),
        partSubtypes |->
            Assoc([i \in DOMAIN parts |-> <<parts[i].id, parts[i].subtype>>]),
        plates |-> Assoc([i \in DOMAIN plates |-> <<plates[i].num, plates[i].ids>>]),
        objectNames |-> Assoc([i \in DOMAIN objs |-> <<objs[i].id, objs[i].name>>])]

\* The colours that could be parsed, in order.
KnownColours(colours) == SelectSeq(colours, LAMBDA c : c # Absent)

\* The virtual extruders of mixed filaments. The two components are looked up among
\* the known colours; of several filaments of one number the first counts.
MixedColours(colours, mixed) ==
    LET base == KnownColours(colours)
        mixable == {i \in DOMAIN mixed : {mixed[i].f1, mixed[i].f2} \subseteq DOMAIN base}
        Mix(d) == (base[d.f1] * (100 - d.pct) + base[d.f2] * d.pct + 50) \div 100
        First(u) == CHOOSE i \in mixable :
                        /\ mixed[i].u = u
                        /\ \A j \in mixable : mixed[j].u = u => i <= j
    IN [u \in {mixed[i].u : i \in mixable} |-> Mix(mixed[First(u)])]

\* The colours of the file's filaments, Absent where one cannot be parsed.
ListedColours(project) == IF project = <<>> THEN <<>> ELSE project[1].colours

\* Extruder number -> colour; a filament of its own goes before a mixed one.
FilamentColours(project) ==
    LET colours == ListedColours(project)
        own == {e \in DOMAIN colours : colours[e] # Absent}
        mixed == MixedColours(colours, IF colours = <<>> THEN <<>> ELSE project[1].mixed)
    IN [e \in own \union DOMAIN mixed |-> IF e \in own THEN colours[e] ELSE mixed[e]]

CountPlates(archive) ==
    LET n == Cardinality(DOMAIN ModelSettings(archive.config).plates)
    IN IF n > 0 THEN n ELSE 1

-----------------------------------------------------------------------------
(* Meshes                                                                      *)

\* Columns a, b, c and translation t of a 4x3 matrix, applied to every vertex.
ApplyTransform(transform, at) ==
    IF transform = <<>> THEN at
    ELSE LET m == transform[1]
         IN [i \in DOMAIN at |-> [k \in 1..3 |->
                at[i][1] * m.a[k] + at[i][2] * m.b[k] + at[i][3] * m.c[k] + m.t[k]]]

\* Mutant: every code is taken for the number of a filament.
ExtractPaintColorsDirect(faces) ==
    LET marked == {i \in DOMAIN faces : faces[i].paint # Absent}
        number == [i \in DOMAIN faces |-> IF i \in marked THEN faces[i].paint % 256 ELSE 0]
    IN IF \E i \in marked : faces[i].paint > 0 THEN number ELSE <<>>

\* paint_color attributes: divided by 4 only if every one of them is a multiple
\* of 4; stored in a byte; a face without one stays 0.
ExtractPaintColors(faces) ==
    LET marked == {i \in DOMAIN faces : faces[i].paint # Absent}
        divisor == IF \A i \in marked : faces[i].paint % 4 = 0 THEN 4 ELSE 1
        number == [i \in DOMAIN faces |->
                    IF i \in marked THEN (faces[i].paint \div divisor) % 256 ELSE 0]
    IN IF \E i \in marked : faces[i].paint > 0 THEN number ELSE <<>>

\* The object's first colour group, indexed by a face's p1.
ColoursFromResources(obj) ==
    LET inGroup(f) == (f.p1 + 1) \in DOMAIN obj.group
    IN IF obj.group = <<>> \/ \A i \in DOMAIN obj.faces : ~inGroup(obj.faces[i]) THEN <<>>
       ELSE [i \in DOMAIN obj.faces |->
                IF inGroup(obj.faces[i]) THEN obj.group[obj.faces[i].p1 + 1] ELSE White]

\* At most one entry; an object without a mesh gives none.
ParseMesh(obj) ==
    IF obj.faces = <<>> THEN <<>>
    ELSE LET paint == ExtractPaintColors(obj.faces)
         IN <<[at |-> [i \in DOMAIN obj.faces |-> obj.faces[i].at],
               colours |-> IF paint # <<>> THEN paint ELSE ColoursFromResources(obj),
               byExtruder |-> paint # <<>>,
               extruder |-> Absent,
               negative |-> FALSE]>>

NotPrintable == {"negative_part", "modifier", "support_model"}

\* The meshes one component refers to. Without a path it refers to nothing.
ComponentEntries(archive, s, obj, comp) ==
    IF comp.path \notin DOMAIN archive.files THEN <<>>
    ELSE LET ext == archive.files[comp.path]
             key == <<obj.id, comp.target>>
             \* With a target, the first object of that id; else every object.
             first == {i \in DOMAIN ext : /\ ext[i].id = comp.target
                                          /\ \A j \in 1..(i - 1) : ext[j].id # comp.target}
             chosen == IF comp.target = Absent THEN DOMAIN ext ELSE first
             Entry(e) ==
                [e EXCEPT
                    !.at = ApplyTransform(comp.transform, @),
                    !.extruder =
                        IF comp.target = Absent
                        THEN Lookup(s.objectExtruders, obj.id, Absent)
                        ELSE Lookup(s.partExtruders, key,
                                    Lookup(s.objectExtruders, obj.id, Absent)),
                    !.negative = /\ comp.target # Absent
                                 /\ Lookup(s.partSubtypes, key, "") \in NotPrintable]
             parsed == Flatten([i \in DOMAIN ext |->
                            IF i \in chosen THEN ParseMesh(ext[i]) ELSE <<>>])
         IN [i \in DOMAIN parsed |-> Entry(parsed[i])]

\* Every mesh of one object, placed by the <item> that builds it.
ObjectEntries(archive, s, placed, obj) ==
    LET inline == [i \in DOMAIN ParseMesh(obj) |->
                    [ParseMesh(obj)[i] EXCEPT
                        !.extruder = Lookup(s.objectExtruders, obj.id, Absent)]]
        entries == IF obj.faces # <<>> THEN inline
                   ELSE Flatten([c \in DOMAIN obj.comps |->
                            ComponentEntries(archive, s, obj, obj.comps[c])])
    IN [i \in DOMAIN entries |->
            [entries[i] EXCEPT !.at = ApplyTransform(Lookup(placed, obj.id, <<>>), @)]]

\* -90 degrees about X: 3MF is Z-up, the viewer and the STL files are Y-up.
ToYUp(at) == [i \in DOMAIN at |-> <<at[i][1], at[i][3], -at[i][2]>>]

\* The colours of one entry, and whether anything but the default gave them.
EntryHasColour(e, filaments) == e.colours # <<>> \/ e.extruder \in DOMAIN filaments
EntryColours(e, filaments) ==
    IF e.colours # <<>>
    THEN IF e.byExtruder /\ DOMAIN filaments # {}
         THEN [i \in DOMAIN e.colours |->
                Lookup(filaments, e.colours[i], Lookup(filaments, e.extruder, White))]
         ELSE [i \in DOMAIN e.colours |->
                IF e.byExtruder /\ e.colours[i] = 0 THEN Unpainted ELSE e.colours[i]]
    ELSE [i \in DOMAIN e.at |-> Lookup(filaments, e.extruder, White)]

\* The merged mesh of a plate's entries, its cutters and its printable parts.
MergeEntries(printable, negative, filaments) ==
    LET parts == [i \in DOMAIN printable |->
                    [at |-> ToYUp(printable[i].at),
                     colours |-> EntryColours(printable[i], filaments)]]
    IN [ok |-> printable # <<>>,
        at |-> Flatten([i \in DOMAIN parts |-> parts[i].at]),
        colours |-> IF \E i \in DOMAIN printable : EntryHasColour(printable[i], filaments)
                    THEN Flatten([i \in DOMAIN parts |-> parts[i].colours])
                    ELSE <<>>,
        negatives |-> [i \in DOMAIN negative |-> ToYUp(negative[i].at)],
        parts |-> IF Len(parts) > 1 THEN parts ELSE <<>>]

\* parse3MF: a plate that names no objects has all of them.
Parse3MF(archive, plate) ==
    LET s == ModelSettings(archive.config)
        items == archive.items
        placed == Assoc(Only(items, {i \in DOMAIN items : items[i][2] # <<>>}))
        onPlate == Lookup(s.plates, plate, {})
        objects == Only(archive.objects,
                        {i \in DOMAIN archive.objects :
                            onPlate = {} \/ archive.objects[i].id \in onPlate})
        all == Flatten([i \in DOMAIN objects |->
                    ObjectEntries(archive, s, placed, objects[i])])
        negative == {i \in DOMAIN all : all[i].negative}
    IN MergeEntries(Only(all, DOMAIN all \ negative), Only(all, negative),
                    FilamentColours(archive.project))

-----------------------------------------------------------------------------
(* Registration: one row and one STL per plate, cutter and part, or nothing.   *)

\* All plates, or nothing if one of them has no mesh or too many faces.
Rows(parsed, maxFaces) ==
    IF \A p \in DOMAIN parsed : parsed[p].ok /\ Len(parsed[p].at) <= maxFaces
    THEN <<[plateCount |-> Len(parsed),
            at |-> parsed[1].at,
            colours |-> <<>>,
            plates |-> [p \in DOMAIN parsed |-> [at |-> parsed[p].at, colours |-> parsed[p].colours]],
            negatives |-> [p \in DOMAIN parsed |-> parsed[p].negatives],
            parts |-> [p \in DOMAIN parsed |-> parsed[p].parts]]>>
    ELSE <<>>

Register3MFModel(archive, maxFaces) ==
    Rows([p \in 1..CountPlates(archive) |-> Parse3MF(archive, p)], maxFaces)

\* deduplicateVertices: the distinct points in order of first use, and for every
\* face the place of its point.
DeduplicateVertices(at) ==
    LET vertices == Only(at, {i \in DOMAIN at : \A j \in 1..(i - 1) : at[j] # at[i]})
    IN [vertices |-> vertices,
        indices |-> [i \in DOMAIN at |-> CHOOSE k \in DOMAIN vertices : vertices[k] = at[i]]]
=============================================================================
