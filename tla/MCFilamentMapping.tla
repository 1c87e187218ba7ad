-------------------------- MODULE MCFilamentMapping -------------------------
(* Values of the constants of FilamentMapping for TLC. *)
EXTENDS FilamentMapping

T(n) == Line("tool", n)
X == Line("extrude", 0)
L == Line("layer", 0)
M104(n) == Line("heat", n)

\* Two filaments; three with a macro between; none changed to; the second and the
\* fourth of four, with a heater named before; a heater no change names; a filament
\* with two digits. For the pauses, up to three layers.
MCLines == {<<T(0), L, X, T(1), X>>, <<T(0), X, T(1000), T(2), X, T(1), X>>, <<L, X, L, X, L>>,
            <<T(1), X, M104(3), X, T(3), X>>,
            <<X, T(0), M104(5), X>>, <<T(12), X, L, T(0), X>>}
MCFiles == [lines : MCLines, bare : BOOLEAN]

Slot(u, t, c) == [unit |-> u, tray |-> t, colour |-> c]
MCPrinters ==
    {[protocol |-> "moonraker", slots |-> <<Slot(0, 0, "red"), Slot(0, 1, "blue"), Slot(0, 2, "green")>>],
     [protocol |-> "bambu", slots |-> <<Slot(0, 0, "red"), Slot(0, 1, "blue")>>],
     [protocol |-> "bambu", slots |-> <<Slot(0, 0, "red"), Slot(1, 0, "blue")>>]}
MCColours == {<<>>, <<"blue", "red", "grey", "red">>}
MCPauses == {{0}, {0, 2}, {1, 5}}
=============================================================================
