----------------------------- MODULE MCSliceInput ---------------------------
(* Values of the constants of SliceInput for TLC: uploads of every layout the  *)
(* parser knows, and what a user may ask of them.                              *)
EXTENDS SliceRequest

F(x, y, z) == [at |-> <<x, y, z>>, paint |-> Absent, p1 |-> Absent]
Painted(x, y, z, n) == [F(x, y, z) EXCEPT !.paint = n]
Grouped(x, y, z, n) == [F(x, y, z) EXCEPT !.p1 = n]
Mesh(id, faces) == [id |-> id, faces |-> faces, group |-> <<>>, comps |-> <<>>]
Assembly(id, comps) == [id |-> id, faces |-> <<>>, group |-> <<>>, comps |-> comps]
Comp(path, target, t) == [path |-> path, target |-> target, transform |-> t]
Move(x, y, z) == <<[a |-> <<1, 0, 0>>, b |-> <<0, 1, 0>>, c |-> <<0, 0, 1>>, t |-> <<x, y, z>>]>>
\* A quarter turn about Z.
QuarterTurn == <<[a |-> <<0, 1, 0>>, b |-> <<-1, 0, 0>>, c |-> <<0, 0, 1>>, t |-> Zero]>>
NoFiles == [p \in {} |-> <<>>]
File(objects, files, items, config, proj) ==
    [objects |-> objects, files |-> files, items |-> items, config |-> config, project |-> proj]
Obj(id, extruder, parts) == [id |-> id, extruder |-> extruder, name |-> "o", parts |-> parts]
Part(id, subtype, extruder) == [id |-> id, subtype |-> subtype, extruder |-> extruder]
Plate(num, ids) == [num |-> num, ids |-> ids]
Colours(c, mixed) == <<[colours |-> c, mixed |-> mixed]>>

\* One mesh, painted with extruders 1 and 2, one face bare.
PaintedFile == File(<<Mesh(1, <<Painted(0, 0, 0, 4), Painted(4, 2, 6, 8), F(2, 2, 2)>>)>>,
    NoFiles, <<<<1, <<>>>>>>, <<>>, Colours(<<200, 100>>, <<>>))
\* A mixed filament as extruder 3, used by object 1 as a whole.
MixedFile == File(<<Mesh(1, <<F(0, 0, 0), F(4, 4, 8), F(0, 0, 0)>>)>>, NoFiles, <<<<1, QuarterTurn>>>>,
    <<[objects |-> <<Obj(1, 3, <<>>)>>, plates |-> <<>>]>>,
    Colours(<<200, 100>>, <<[u |-> 3, f1 |-> 1, f2 |-> 2, pct |-> 50]>>))
\* Two parts and a cutter in a file of their own, placed by components and item.
AssemblyFile == File(
    <<Assembly(1, <<Comp("sub", 11, Move(2, 0, 0)), Comp("sub", 12, <<>>), Comp("sub", 13, <<>>)>>)>>,
    [p \in {"sub"} |-> <<Mesh(11, <<F(0, 0, 0), F(2, 4, 2)>>), Mesh(12, <<Painted(6, 8, 4, 8)>>),
                         Mesh(13, <<F(2, 2, 2)>>)>>],
    <<<<1, Move(10, 20, 0)>>>>,
    <<[objects |-> <<Obj(1, 1, <<Part(11, "normal_part", 2), Part(12, "normal_part", Absent),
                                 Part(13, "negative_part", Absent)>>)>>,
       plates |-> <<Plate(1, {1})>>]>>,
    Colours(<<200, 100>>, <<>>))
\* One part and its cutter: no printable children, the cutter is a child.
CutFile == File(
    <<Assembly(1, <<Comp("sub", 11, <<>>), Comp("sub", 13, <<>>)>>)>>,
    [p \in {"sub"} |-> <<Mesh(11, <<F(0, 0, 0), F(4, 4, 4)>>), Mesh(13, <<F(2, 2, 2)>>)>>],
    <<<<1, Move(0, 6, 2)>>>>,
    <<[objects |-> <<Obj(1, 2, <<Part(11, "normal_part", Absent), Part(13, "negative_part", 1)>>)>>,
       plates |-> <<Plate(1, {1})>>]>>,
    Colours(<<200, 100>>, <<>>))
\* Two plates: a coloured mesh on the first, a mesh with a cutter on the second.
PlatesFile == File(
    <<[Mesh(1, <<Grouped(0, 0, 0, 0), Grouped(4, 2, 2, 1)>>) EXCEPT !.group = <<200, 60>>],
      Assembly(2, <<Comp("sub", 11, <<>>), Comp("sub", 13, Move(0, 0, 2))>>)>>,
    [p \in {"sub"} |-> <<Mesh(11, <<F(0, 0, 0), F(8, 4, 4)>>), Mesh(13, <<F(2, 2, 2)>>)>>],
    <<<<1, <<>>>>, <<2, Move(40, 0, 0)>>>>,
    <<[objects |-> <<Obj(1, Absent, <<>>), Obj(2, 1, <<Part(13, "negative_part", 1)>>)>>,
       plates |-> <<Plate(1, {1}), Plate(2, {2})>>]>>,
    Colours(<<200, 100>>, <<>>))
\* Codes of four filaments, one of them of two digits, on one object, numbers on another.
CodesFile == File(
    <<Mesh(1, <<Painted(0, 0, 0, 4), Painted(4, 2, 6, 12), Painted(2, 2, 2, 28), F(0, 4, 2)>>),
      Mesh(2, <<Painted(6, 0, 0, 1), Painted(8, 2, 4, 3), Painted(6, 4, 2, 2)>>)>>,
    NoFiles, <<<<1, <<>>>>, <<2, <<>>>>>>, <<>>, Colours(<<200, 20, 60, 100>>, <<>>))
\* An assembly whose file is missing: there is nothing to print.
EmptyFile == File(<<Assembly(1, <<Comp("gone", 11, <<>>)>>)>>, NoFiles, <<<<1, <<>>>>>>, <<>>, <<>>)

MCArchives == {PaintedFile, MixedFile, AssemblyFile, CutFile, PlatesFile, CodesFile, EmptyFile}

-----------------------------------------------------------------------------
MCTemplate ==
    [filament_type |-> List(<<"PLA", "PLA">>), filament_colour |-> List(<<100, 200>>),
     filament_settings_id |-> List(<<"pla", "pla">>), default_filament_profile |-> List(<<"pla">>),
     filament_flow |-> List(<<"f", "f">>), fan |-> List(<<"0", "0", "0", "0">>),
     nozzle_temperature |-> List(<<"220", "220">>), inherits_group |-> List(<<"", "">>),
     wall_filament |-> Scalar("0"), support_filament |-> Scalar("0"),
     support_interface_filament |-> Scalar("0"), flush_volumes_matrix |-> List(<<"0", "716", "329", "0">>), raft |-> Scalar("-1"),
     printer_settings_id |-> Scalar("P1S 0.4"), print_settings_id |-> Scalar("std"), printer_model |-> Scalar("P1S"), ooze_prevention |-> Scalar("0"),
     layer_change_gcode |-> Scalar("other"), before_layer_change_gcode |-> Scalar(""),
     change_filament_gcode |-> Scalar(""), single_extruder_multi_material |-> Scalar("1"),
     print_compatible_printers |-> List(<<"P1S">>)]
Empty == [k \in {} |-> Scalar("")]
Prof(settings, inherits) == [settings |-> settings, inherits |-> inherits]
MCProfiles ==
    (<<"machine", "u1">> :> Prof([printer_model |-> Scalar("U1"), fan |-> List(<<"1", "2", "3">>),
                                  single_extruder_multi_material |-> Scalar("0")], None)) @@
    (<<"process", "fine">> :> Prof([fan |-> List(<<"-1">>), wall_filament |-> Scalar("0"),
                                    ooze_prevention |-> Scalar("1")], None)) @@
    \* A sentinel where an index belongs, and one value where the template has four.
    (<<"process", "odd">> :> Prof([fan |-> Scalar("1"), wall_filament |-> Scalar("-1")], None)) @@
    (<<"filament", "pla">> :> Prof([filament_type |-> List(<<"PLA">>), filament_flow |-> List(<<"a">>),
                                    nozzle_temperature |-> List(<<"220">>)], None)) @@
    (<<"filament", "petg base">> :> Prof([nozzle_temperature |-> List(<<"250">>)], None)) @@
    (<<"filament", "my petg">> :> Prof([filament_type |-> List(<<"PETG">>), nozzle_temperature |-> Scalar("")], "petg base"))
MCTokens == [n \in {"pla", "my petg", "pa-cf"} |->
                CASE n = "pla" -> {"PLA"} [] n = "pa-cf" -> {"PA", "CF"} [] OTHER -> {"PETG"}]
MCFilamentKeys == {"filament_type", "filament_colour", "filament_settings_id", "filament_flow"}
MCFilamentIndexKeys == {"wall_filament", "support_filament", "support_interface_filament"}
MCTempKeys == {"nozzle_temperature"}

Names(m, f, p, f2) == [machine |-> m, filament |-> f, process |-> p, filament2 |-> f2]
Slot(c, t, p) == [color |-> c, type |-> t, profile |-> p]
Ask(names, multi, slots, process) ==
    [profiles |-> names, multi |-> multi, support |-> "0", interface |-> "1",
     slots |-> slots, process |-> process]
MCSlots == {<<>>, <<Slot(200, "PETG", "my petg")>>, <<Slot(200, "PLA", "my petg")>>,
            <<Slot(100, "PLA", "pla"), Slot(200, "PETG", "my petg")>>,
            <<Slot(200, "PLA", "pla"), Slot(100, None, "pa-cf")>>,
            <<Slot(200, "PLA", None), Slot(200, "PETG", "my petg")>>,
            <<Slot(60, "PLA", None), Slot(100, "PETG", "my petg"), Slot(200, "PLA", "pla")>>,
            <<Slot(60, "PLA", "pla"), Slot(100, "PETG", "my petg"), Slot(100, "PLA", "pla"), Slot(200, "PLA", "pla")>>}
MCProcess == {Empty, [filament_type |-> List(<<"PLA">>), raft |-> Scalar("-1"), fan |-> List(<<"7">>),
                      print_settings_id |-> Scalar("stale"), wall_filament |-> Scalar("0"),
                      nozzle_temperature |-> List(<<"200">>)]}
MCSettings == {Ask(Names(m, f, p, f), b, s, x) :
    m \in {None, "u1"}, f \in {None, "my petg"}, p \in {None, "fine", "odd"}, b \in BOOLEAN,
    s \in MCSlots, x \in MCProcess}
FewSettings == {Ask(Names(None, None, None, None), FALSE, s, Empty) : s \in MCSlots}

Edit(plate, r, o, s, hidden) ==
    [plate |-> plate, rotation |-> r, offset |-> o, scale |-> s, hidden |-> hidden]
Plain == Edit(1, Zero, Zero, <<1, 1, 1>>, {})
MCEdits == {Plain, [Plain EXCEPT !.plate = 2], Edit(1, Zero, <<4, 2, 6>>, <<1, 1, 1>>, {}),
            Edit(1, <<1, 0, 2>>, <<2, 0, 0>>, <<1, 1, 1>>, {1, 2, 3}),
            Edit(1, <<0, 3, 1>>, Zero, <<2, 2, -1>>, {2, 3}),
            Edit(2, Zero, <<6, 0, 2>>, <<1, 2, 1>>, {}), Edit(1, Zero, Zero, <<1, 1, 1>>, {1})}
MCRequests == (MCEdits \X FewSettings) \union ({Plain} \X MCSettings)
MCVolume == <<256, 256, 200>>

\* A model with a cutter, and a copy of it on another plate.
Inst(id, kind, plate) == [id |-> id, kind |-> kind, plate |-> plate, visible |-> TRUE]
MCScene == <<Inst("a", "model", "p1"), Inst("a", "negative", "p1"), Inst("a", "model", "p2")>>
=============================================================================
