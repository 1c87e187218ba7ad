------------------------------ MODULE Painting ------------------------------
(* Paint on the faces of models: the meshes in the viewer (STLViewer.tsx,      *)
(* FacePainter.tsx), the colours the scene keeps of them (App.tsx), the rows   *)
(* on the server (models.ts) and the requests between them. One face stands    *)
(* for all: its colour is the number of the stroke that painted it, 0 if none  *)
(* did. Parts are left out: they have colours of their own, which no request   *)
(* saves.                                                                      *)
EXTENDS Integers, FiniteSets, Sequences

CONSTANTS Scene,        \* instances: [id, kind, plate, visible], kind "model" or "negative"
          MaxStrokes,   \* bound: strokes
          MaxSwitches,  \* bound: plates and previews shown
          MaxSaves,     \* bound: times a button saved colours
          MaxResends    \* bound: saves that apiFetch repeats

ASSUME PaintingAssumption == DOMAIN Scene \subseteq Nat

VARIABLES front,    \* activePlateId
          viewing,  \* the viewer is mounted; a gcode preview takes its place
          live,     \* instances with a mesh in the viewer
          paint,    \* colour of each mesh in meshRefs, NoColours if there is none
          colours,  \* faceColors of each instance
          blobs,    \* face_colors of each model on the server
          reads,    \* getModelColors under way
          saves,    \* what each press of a button has to send
          strokes, switches, resends

paintVars == <<front, viewing, live, paint, colours, blobs, reads, saves,
               strokes, switches, resends>>

NoColours == -1
Instances == DOMAIN Scene
Of(id) == {i \in Instances : Scene[i].id = id}
\* A row and the geometry its faces are counted on.
Blob(i, c) == [of |-> Scene[i].kind, paint |-> c]

\* Colours are asked for models that have none, once for an id.
Fetching(known) ==
    {[id |-> Scene[i].id, read |-> FALSE, answer |-> NoColours] :
        i \in {j \in Instances : known[j] = NoColours /\ Scene[j].kind = "model"}}

\* Painted in an earlier visit.
PaintInit ==
    /\ front = Scene[1].plate /\ viewing = TRUE
    /\ live = {} /\ paint = [i \in Instances |-> NoColours]
    /\ colours = [i \in Instances |-> NoColours]
    /\ blobs = [id \in {Scene[i].id : i \in Instances} |-> [of |-> "model", paint |-> 1]]
    /\ reads = Fetching(colours)
    /\ saves = <<>>
    /\ strokes = 1 /\ switches = 0 /\ resends = 0

-----------------------------------------------------------------------------
(* The viewer                                                                  *)

\* A mesh comes grey, and gets the colours that are known by then.
MeshLoads(i) ==
    /\ viewing /\ i \notin live /\ Scene[i].visible
    /\ live' = live \union {i}
    /\ paint' = [paint EXCEPT ![i] = IF colours[i] > 0 THEN colours[i] ELSE 0]
    /\ UNCHANGED <<front, viewing, colours, blobs, reads, saves, strokes, switches, resends>>

Stroke(i) ==
    /\ i \in live /\ Scene[i].plate = front
    /\ strokes < MaxStrokes /\ strokes' = strokes + 1
    /\ paint' = [paint EXCEPT ![i] = strokes']
    /\ UNCHANGED <<front, viewing, live, colours, blobs, reads, saves, switches, resends>>

\* Meshes leave the viewer with it; meshRefs keeps them.
SwitchPreview ==
    /\ switches < MaxSwitches /\ switches' = switches + 1
    /\ viewing' = ~viewing /\ live' = {}
    /\ UNCHANGED <<front, paint, colours, blobs, reads, saves, strokes, resends>>

ShowPlate(p) ==
    /\ p # front
    /\ switches < MaxSwitches /\ switches' = switches + 1
    /\ front' = p
    /\ reads' = reads \union Fetching(colours)
    /\ UNCHANGED <<viewing, live, paint, colours, blobs, saves, strokes, resends>>

-----------------------------------------------------------------------------
(* Colours from the server                                                     *)

ColoursRead(r) ==
    /\ ~r.read
    /\ reads' = (reads \ {r}) \union {[r EXCEPT !.read = TRUE, !.answer = blobs[r.id].paint]}
    /\ UNCHANGED <<front, viewing, live, paint, colours, blobs, saves, strokes, switches, resends>>

\* They go to every instance of the model, and over its painted faces; a failure
\* counts as none.
ColoursArrive(r) ==
    /\ r.read \/ r.answer = NoColours
    /\ reads' = reads \ {r}
    /\ colours' = [i \in Instances |-> IF i \in Of(r.id) THEN r.answer ELSE colours[i]]
    /\ paint' = [i \in Instances |-> IF i \in live \intersect Of(r.id) /\ r.answer > 0
                                     THEN r.answer ELSE paint[i]]
    /\ UNCHANGED <<front, viewing, live, blobs, saves, strokes, switches, resends>>

-----------------------------------------------------------------------------
(* Colours to the server                                                       *)

\* saveAllColors: of each model on the plate the first visible instance, if it has
\* a mesh. Cutters have the id of their parent and are left out.
Savers ==
    LET eligible == {i \in Instances : Scene[i].kind = "model" /\ Scene[i].plate = front /\ Scene[i].visible}
    IN {i \in eligible : paint[i] # NoColours /\ \A j \in eligible \intersect Of(Scene[i].id) : i <= j}

Sends(is) == {[id |-> Scene[i].id, blob |-> Blob(i, paint[i]), stage |-> "sent"] : i \in is}

\* A press of a button; saves that overlap are crowded, their order is open.
Press(slice, is) ==
    LET busy == \E k \in DOMAIN saves : ~saves[k].over
    IN /\ Len(saves) < MaxSaves
       /\ saves' = Append([k \in DOMAIN saves |-> [saves[k] EXCEPT !.crowded = @ \/ ~saves[k].over]],
                          [slice |-> slice, sends |-> Sends(is), crowded |-> busy, over |-> FALSE])

\* The active model, whatever its kind.
PressSave(i) ==
    /\ Scene[i].plate = front /\ paint[i] # NoColours
    /\ Press(FALSE, {i})
    /\ UNCHANGED <<front, viewing, live, paint, colours, blobs, reads, strokes, switches, resends>>

\* Slice the plate, or all of them; only the colours of this one are saved.
PressSlice ==
    /\ \E i \in Instances : Scene[i].plate = front /\ Scene[i].visible
    /\ Press(TRUE, Savers)
    /\ colours' = [i \in Instances |-> IF i \in Savers THEN paint[i] ELSE colours[i]]
    /\ UNCHANGED <<front, viewing, live, paint, blobs, reads, strokes, switches, resends>>

\* Request s of press k gets to a stage.
Moves(k, s, stage) ==
    saves' = [saves EXCEPT ![k].sends = (@ \ {s}) \union {[s EXCEPT !.stage = stage]}]

PutReaches(k, s) ==
    /\ s.stage = "sent"
    /\ blobs' = [blobs EXCEPT ![s.id] = s.blob]
    /\ Moves(k, s, "stored")
    /\ UNCHANGED <<front, viewing, live, paint, colours, reads, strokes, switches, resends>>

PutAnswered(k, s) ==
    /\ s.stage = "stored"
    /\ Moves(k, s, "saved")
    /\ UNCHANGED <<front, viewing, live, paint, colours, blobs, reads, strokes, switches, resends>>

\* A request or its answer is lost: it is repeated, or given up with an error on the
\* console.
PutLost(k, s) ==
    /\ \/ s.stage = "stored" /\ resends < MaxResends /\ resends' = resends + 1 /\ Moves(k, s, "sent")
       \/ s.stage \in {"sent", "stored"} /\ resends' = resends /\ Moves(k, s, "failed")
    /\ UNCHANGED <<front, viewing, live, paint, colours, blobs, reads, strokes, switches>>

Settled == [slice |-> FALSE, sends |-> {}, crowded |-> FALSE, over |-> TRUE]

\* Mutant: the slice request does not wait for the saves.
SavedOrSoon(k) ==
    /\ ~saves[k].over
    /\ saves' = [saves EXCEPT ![k] = Settled]
    /\ UNCHANGED <<front, viewing, live, paint, colours, blobs, reads, strokes, switches, resends>>

\* All saves are settled; now the plate is sliced, from the rows as they are.
Saved(k) ==
    /\ ~saves[k].over
    /\ \A s \in saves[k].sends : s.stage \in {"saved", "failed"}
    /\ saves' = [saves EXCEPT ![k] = Settled]
    /\ UNCHANGED <<front, viewing, live, paint, colours, blobs, reads, strokes, switches, resends>>

PaintNext ==
    \/ SwitchPreview \/ PressSlice
    \/ \E i \in Instances : MeshLoads(i) \/ Stroke(i) \/ PressSave(i) \/ ShowPlate(Scene[i].plate)
    \/ \E r \in reads : ColoursRead(r) \/ ColoursArrive(r)
    \/ \E k \in DOMAIN saves :
          \/ \E s \in saves[k].sends : PutReaches(k, s) \/ PutAnswered(k, s) \/ PutLost(k, s)
          \/ Saved(k)

-----------------------------------------------------------------------------
(* Properties                                                                  *)

\* A plate is sliced with the paint its models showed when the button was pressed
\* ("MUST await before slice", App.tsx), and on their own faces: unless a save was
\* given up, or another press saved meanwhile.
SlicedAsPainted ==
    [][\A k \in DOMAIN saves :
            (saves[k].slice /\ ~saves[k].crowded /\ saves'[k].over) =>
                \A s \in saves[k].sends :
                    s.stage # "failed" => s.blob.of = "model" /\ blobs[s.id] = s.blob]_paintVars
=============================================================================
