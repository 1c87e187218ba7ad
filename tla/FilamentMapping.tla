--------------------------- MODULE FilamentMapping --------------------------
(* From the tool changes of a sliced file to the slots of a printer: the scan  *)
(* for filaments (gcode-filaments.ts), the dialog that maps them               *)
(* (FilamentRemapModal.tsx), and the file or the mapping that is sent          *)
(* (gcode-rewriter.ts, the adapters' startPrint). Beside it, the injection of  *)
(* pauses (gcode-pauses.ts). Files are read in chunks that end anywhere.       *)
EXTENDS Integers, Sequences, FiniteSets, SequencesExt

CONSTANTS Files,    \* [lines, bare]: bare when the last line has no newline
          Printers, \* [protocol, slots]: a slot has a unit, a tray and a colour
          Colours,  \* lists of colours in the headers of files
          Pauses,   \* sets of layers to pause at
          MaxEdits  \* bound: choices of the user and status events

ASSUME FilesAssumption ==
    \A f \in Files :
        f.lines \in Seq([op : STRING, n : Nat]) /\ f.bare \in BOOLEAN /\ (f.bare => f.lines # <<>>)

\* Slots and colours are few: a tool from 1000 on is a macro of the printer.
ASSUME PrintersAssumption ==
    /\ \A p \in Printers :
          /\ p.slots \in Seq([unit : Nat, tray : Nat, colour : STRING]) /\ Len(p.slots) < 1000
          /\ \A k \in DOMAIN p.slots : p.slots[k].tray < 1000
    /\ \A c \in Colours : c \in Seq(STRING) /\ Len(c) < 1000

VARIABLES file, printer, colours,
          source,   \* "job": a sliced file, "upload": a file staged for a printer
          task,     \* "scan", "dialog", "map", "pause", "done"
          pos,      \* lines read by the stream that runs
          out,      \* what it has written
          used,     \* tUsedSet
          shown,    \* filaments of the dialog, 0-based indices of the gcode
          mapping,  \* slot values chosen for them, -1 to skip
          edits,
          todo,     \* pausesByLayer
          layer,    \* currentLayer
          sent      \* [lines, ams, useAms] as the printer gets it

input == <<file, printer, colours, source>>
dialog == <<shown, mapping, edits>>
vars == <<input, task, pos, out, used, dialog, todo, layer, sent>>

Line(op, n) == [op |-> op, n |-> n]
Blank == Line("blank", 0)
IsTool(l) == l.op = "tool"

\* A line that only names a tool: M104 S200 T1.
Heats(l) == l.op = "heat"

-----------------------------------------------------------------------------
(* Slots and colours                                                           *)

\* buildSlots: the value of a Bambu slot is its tray within the unit.
SlotValue(p, k) == IF p.protocol = "bambu" THEN p.slots[k].tray ELSE k - 1

SlotValues(p) == {SlotValue(p, k) : k \in DOMAIN p.slots}

\* The slot proposed for a filament: the first one of its colour, or none; for an
\* upload the one in its place.
Proposed(p, i) ==
    LET same == {k \in DOMAIN p.slots : i < Len(colours) /\ p.slots[k].colour = colours[i + 1]}
    IN IF same # {} THEN SlotValue(p, Min(same))
       ELSE IF source = "upload" /\ i + 1 \in DOMAIN p.slots THEN SlotValue(p, i + 1)
       ELSE -1

\* parseGcodeFilaments: as many as the tools and the lists of the header tell.
Count(tools) == Max({t + 1 : t \in tools} \union {Len(colours)})

Sorted(tools) ==
    [k \in 1..Cardinality(tools) |-> CHOOSE t \in tools : Cardinality({u \in tools : u <= t}) = k]

\* The dialog for a job lists the filaments in use, or all if no tool change was
\* found; the one for an upload lists them all.
Listed(tools) ==
    IF source = "job" /\ tools # {} THEN Sorted(tools) ELSE [i \in 1..Count(tools) |-> i - 1]

Init ==
    /\ file \in Files /\ printer \in Printers /\ colours \in Colours /\ source \in {"job", "upload"}
    /\ \/ task = "scan" /\ todo = {}
       \/ task = "pause" /\ source = "job" /\ todo \in Pauses
    /\ pos = 0 /\ out = <<>> /\ used = {}
    /\ shown = <<>> /\ mapping = <<>> /\ edits = 0
    /\ layer = -1
    /\ sent = <<>>

-----------------------------------------------------------------------------
(* Scan                                                                        *)

Cap == 16

\* \d{1,2}\b at the end of a chunk also matches the first digits of a number.
CutPrefixes(n) == {p \in {n \div 10, n \div 100, n \div 1000} : p > 0 /\ p < 100}

Found(l) == IF IsTool(l) /\ l.n < 100 THEN {l.n} ELSE {}

\* Mutant: the end of a chunk is not kept for the next one.
ScanChunkForgets(k, cut) ==
    /\ task = "scan"
    /\ used' = used \union {t \in UNION {Found(file.lines[i]) : i \in pos + 2 .. pos + k} : t < Cap}
    /\ pos' = pos + k
    /\ UNCHANGED <<input, task, out, dialog, todo, layer, sent>>

\* The next k lines; the chunk may end within the line after them. The last four
\* characters are read again, so no tool change is split; when they happen to start
\* with the T of another command, that T passes for the start of a line.
ScanChunk(k, cut) ==
    LET whole == UNION {Found(file.lines[i]) : i \in pos + 1 .. pos + k}
        next == pos + k + 1
        tails == {i \in {pos + k, next} \intersect 1..(Len(file.lines) - 1) :
                     Heats(file.lines[i]) /\ (i = next => cut)}
        part == (IF cut /\ next <= Len(file.lines) /\ IsTool(file.lines[next])
                 THEN CutPrefixes(file.lines[next].n) ELSE {})
                \union {file.lines[i].n : i \in tails}
    IN /\ task = "scan"
       /\ \E p \in SUBSET part :
             /\ Cardinality(p) <= 1
             /\ used' = used \union {t \in whole \union p : t < Cap}
       /\ pos' = pos + k
       /\ UNCHANGED <<input, task, out, dialog, todo, layer, sent>>

\* The filaments reach the dialog: a mapping by colour is proposed.
ScanEnd ==
    /\ task = "scan" /\ pos = Len(file.lines)
    /\ task' = "dialog"
    /\ shown' = Listed(used)
    /\ mapping' = [i \in DOMAIN shown' |-> Proposed(printer, shown'[i])]
    /\ UNCHANGED <<input, pos, out, used, edits, todo, layer, sent>>

-----------------------------------------------------------------------------
(* Dialog                                                                      *)

Choose(i, v) ==
    /\ task = "dialog" /\ edits < MaxEdits
    /\ edits' = edits + 1
    /\ mapping' = [mapping EXCEPT ![i] = v]
    /\ UNCHANGED <<input, task, pos, out, used, shown, todo, layer, sent>>

\* A status of the printer makes a new list of trays, and the effect that reads
\* the filaments runs again.
StatusArrives ==
    /\ task = "dialog" /\ edits < MaxEdits
    /\ source = "job" /\ printer.protocol = "bambu"
    /\ edits' = edits + 1
    /\ mapping' = [i \in DOMAIN shown |-> Proposed(printer, shown[i])]
    /\ UNCHANGED <<input, task, pos, out, used, shown, todo, layer, sent>>

\* mappingIsNoop.
IsNoop(m) == \A i \in DOMAIN m : m[i] = i - 1

\* POST send. A Bambu printer gets the mapping, another one a file that is
\* rewritten when the mapping changes something.
Submit ==
    /\ task = "dialog"
    /\ IF printer.protocol = "bambu" \/ IsNoop(mapping)
       THEN /\ task' = "done" /\ pos' = pos
            /\ sent' = [lines |-> file.lines, ams |-> mapping,
                        useAms |-> printer.protocol = "bambu" /\ \E i \in DOMAIN mapping : mapping[i] >= 0]
       ELSE task' = "map" /\ pos' = 0 /\ UNCHANGED sent
    /\ UNCHANGED <<input, out, used, dialog, todo, layer>>

-----------------------------------------------------------------------------
(* Rewriting                                                                   *)

\* Mutant: the mapping is looked up from one.
RewrittenOffByOne(l) ==
    IF IsTool(l) /\ l.n \in DOMAIN mapping /\ mapping[l.n] >= 0 THEN [l EXCEPT !.n = mapping[l.n]] ELSE l

Rewritten(l) ==
    IF IsTool(l) /\ l.n < Len(mapping) /\ mapping[l.n + 1] >= 0
    THEN [l EXCEPT !.n = mapping[l.n + 1]] ELSE l

\* The lines a stream can take whole; without its newline the last one is left over.
Whole == Len(file.lines) - (IF file.bare THEN 1 ELSE 0)

\* A chunk without a newline writes an empty line, here and for the pauses (bound:
\* never two in a row).
MapChunk(k) ==
    /\ task = "map"
    /\ pos + k <= Whole /\ IF k = 0 /\ out # <<>> THEN Last(out) # Blank ELSE TRUE
    /\ out' = out \o (IF k = 0 THEN <<Blank>>
                      ELSE [i \in 1..k |-> Rewritten(file.lines[pos + i])])
    /\ pos' = pos + k
    /\ UNCHANGED <<input, task, used, dialog, todo, layer, sent>>

MapEnd ==
    /\ task = "map" /\ pos = Whole
    /\ sent' = [lines |-> out \o [i \in 1..(Len(file.lines) - Whole) |-> Rewritten(file.lines[Whole + i])],
                ams |-> <<>>, useAms |-> FALSE]
    /\ task' = "done"
    /\ UNCHANGED <<input, pos, out, used, dialog, todo, layer>>

-----------------------------------------------------------------------------
(* Pauses                                                                      *)

EmptyLine == [pauses |-> {}, line |-> Blank]

\* One line of the output of injectPauses, after the pauses that were due.
Paused(l, at) == [pauses |-> IF l.op = "layer" THEN {at} \intersect todo ELSE {}, line |-> l]

\* Mutant: each chunk counts its layers from the start.
PauseChunkRestarts(k) ==
    LET at(i) == Cardinality({j \in 1..i : file.lines[pos + j].op = "layer"}) - 1
    IN /\ task = "pause"
       /\ pos + k <= Whole /\ IF k = 0 /\ out # <<>> THEN Last(out) # EmptyLine ELSE TRUE
       /\ out' = out \o (IF k = 0 THEN <<EmptyLine>>
                         ELSE [i \in 1..k |-> Paused(file.lines[pos + i], at(i))])
       /\ layer' = at(k) /\ todo' = todo \ 0..at(k)
       /\ pos' = pos + k
       /\ UNCHANGED <<input, task, used, dialog, sent>>

\* Layers are counted over all chunks.
PauseChunk(k) ==
    LET at(i) == layer + Cardinality({j \in 1..i : file.lines[pos + j].op = "layer"})
    IN /\ task = "pause"
       /\ pos + k <= Whole /\ IF k = 0 /\ out # <<>> THEN Last(out) # EmptyLine ELSE TRUE
       /\ out' = out \o (IF k = 0 THEN <<EmptyLine>>
                         ELSE [i \in 1..k |-> Paused(file.lines[pos + i], at(i))])
       /\ layer' = at(k) /\ todo' = todo \ 0..at(k)
       /\ pos' = pos + k
       /\ UNCHANGED <<input, task, used, dialog, sent>>

\* A line that is left over is written without a look at it.
PauseEnd ==
    /\ task = "pause" /\ pos = Whole
    /\ out' = out \o [i \in 1..(Len(file.lines) - Whole) |->
                         [pauses |-> {}, line |-> file.lines[Whole + i]]]
    /\ task' = "done"
    /\ UNCHANGED <<input, pos, used, dialog, todo, layer, sent>>

Next ==
    \/ \E k \in 0..(Len(file.lines) - pos), cut \in BOOLEAN : (k > 0 \/ cut) /\ ScanChunk(k, cut)
    \/ ScanEnd
    \/ \E i \in DOMAIN mapping, v \in SlotValues(printer) \union {-1} : Choose(i, v)
    \/ StatusArrives \/ Submit
    \/ \E k \in 0..(Len(file.lines) - pos) : MapChunk(k) \/ PauseChunk(k)
    \/ MapEnd \/ PauseEnd

Spec == Init /\ [][Next]_vars

-----------------------------------------------------------------------------
(* Properties                                                                  *)

Tools == {file.lines[i].n : i \in {j \in DOMAIN file.lines : IsTool(file.lines[j])}}

\* The tool that is active at line i of a file; 0 before the first change.
Changes(lines, i) == {j \in 1..i : IsTool(lines[j]) /\ lines[j].n < 1000}
ToolAt(lines, i) == IF Changes(lines, i) = {} THEN 0 ELSE lines[Max(Changes(lines, i))].n

\* The slot line i of the sent file is printed from, on a printer with a mapping
\* of its own or on one where the tool is the slot; -1 if none is told.
SlotAt(i) ==
    IF printer.protocol = "bambu"
    THEN IF sent.useAms /\ ToolAt(sent.lines, i) < Len(sent.ams)
         THEN sent.ams[ToolAt(sent.lines, i) + 1] ELSE -1
    ELSE ToolAt(sent.lines, i)

\* The lines of a kind, up to line i.
UpTo(lines, i, op) == {j \in 1..i : lines[j].op = op}
NumberOf(lines, i, op) == Cardinality(UpTo(lines, i, op))

\* Every filament the file changes to is found, wherever the chunks end; what else
\* is found is the beginning of a number a chunk has cut, or a T at its end.
ScanComplete ==
    task = "dialog" =>
        /\ {t \in Tools : t < Cap} \subseteq used
        /\ used \ Tools \subseteq (UNION {CutPrefixes(t) : t \in Tools})
                              \union {l.n : l \in {m \in ToSet(file.lines) : Heats(m)}}

\* Each extrusion is printed from the slot the dialog showed for its filament when
\* the user pressed the button, as long as the filaments listed are the first ones
\* of the file and the file names them (a rewritten file has tools only where it had
\* some). A slot is told by its value; with several units of trays they share it.
PrintsFromMappedSlot ==
    (task = "done" /\ sent # <<>> /\ \A i \in DOMAIN shown : shown[i] = i - 1) =>
        LET from == UpTo(file.lines, Len(file.lines), "extrude")
            to == UpTo(sent.lines, Len(sent.lines), "extrude")
        IN /\ Cardinality(to) = Cardinality(from)
           /\ \A e \in from, s \in to : \A i \in DOMAIN shown :
                (/\ NumberOf(sent.lines, s, "extrude") = NumberOf(file.lines, e, "extrude")
                 /\ shown[i] = ToolAt(file.lines, e) /\ mapping[i] >= 0
                 /\ Changes(file.lines, e) # {} \/ printer.protocol = "bambu") =>
                        SlotAt(s) = mapping[i]

\* The pauses that belong before line i of a file when these were asked for.
Due(lines, whole, i, asked) ==
    IF i <= whole /\ lines[i].op = "layer"
    THEN asked \intersect {NumberOf(lines, i, "layer") - 1} ELSE {}

\* The lines are in the output with their pauses, and empty lines between chunks.
InPlace(lines, whole, output, asked) ==
    \E between \in SUBSET {n \in DOMAIN output : output[n] = EmptyLine} :
        LET kept == DOMAIN output \ between
        IN /\ Cardinality(kept) = Len(lines)
           /\ \A n \in kept : LET i == Cardinality(kept \intersect 1..n)
                             IN output[n] = [pauses |-> Due(lines, whole, i, asked), line |-> lines[i]]

\* A pause stands directly before each layer it was asked for and nowhere else,
\* what was not reached is left to do, and the rest of the file is untouched but for
\* empty lines between chunks.
PausesInPlace ==
    (task = "done" /\ sent = <<>>) =>
        \E asked \in Pauses :
            /\ todo = asked \ 0..(NumberOf(file.lines, Whole, "layer") - 1)
            /\ InPlace(file.lines, Whole, out, asked)
=============================================================================
