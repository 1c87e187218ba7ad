---------------------------- MODULE ProfilePicker ---------------------------
(* SettingsPanel of the web client: the profiles of the engine, the selected   *)
(* machine, process and filament, and the effects that keep the selection      *)
(* consistent. Effects of one render all see the selection of that render, so  *)
(* that one overwrites what another has just set; lists come when they come.   *)
EXTENDS Naturals, FiniteSets, Sequences

CONSTANTS Engines,
          Profiles,  \* [engine, type, name, family] known at the beginning
          Embedded,  \* [machine, process, filament, family] named by an archive
          Printers,  \* families of the connected printers
          MaxEvents  \* bound: what the user does

None == "none"

\* undefined is the name of no profile.
ASSUME PickerAssumption ==
    /\ \A p \in Profiles : p.name # None
    /\ \A t \in {"machine", "process", "filament"} : Embedded[t] # None

VARIABLES engine, target,  \* engine and family of the target printer, or None
          stored,   \* profiles of the server
          open,     \* the panel is mounted
          list,     \* profiles it shows
          selected, \* [machine, process, filament] by name
          slot,     \* profile of a filament slot
          seen,     \* what the effects with dependencies last ran for
          dirty,    \* a render is due
          lists, deletes, \* requests under way
          applying, \* the engine of a synthesizeEmbeddedProfiles under way
          applied,  \* names it has just answered, until the user acts
          events

pickerVars == <<engine, target, stored, open, list, selected, slot, seen, dirty,
                lists, deletes, applying, applied, events>>
server == <<stored, lists, deletes, applying>>

OfEngine(e) == {p \in stored : p.engine = e}
Typed(type) == {p \in list : p.type = type}
Names(ps) == {p.name : p \in ps}
Made(e) == {[engine |-> e, type |-> t, name |-> Embedded[t], family |-> Embedded.family] :
                t \in {"machine", "process", "filament"}}
\* The family is read off the name, whether or not the profile is in the list.
Family(name) == {p.family : p \in {q \in Profiles \union Made(engine) : q.name = name}}
Nothing == [machine |-> None, process |-> None, filament |-> None]
NotSeen == [clear |-> <<>>, machine |-> <<>>]

PickerInit ==
    /\ engine \in Engines /\ target \in Printers \union {None}
    /\ stored = Profiles
    /\ open = FALSE /\ list = {}
    /\ selected = Nothing /\ slot = None
    /\ seen = NotSeen /\ dirty = FALSE
    /\ lists = {} /\ deletes = {} /\ applying = None
    /\ applied = Nothing /\ events = 0

-----------------------------------------------------------------------------
(* Effects                                                                     *)

\* Mutant: the clearing effect watches the list and the machine.
DepsWithoutProcess ==
    [clear |-> <<list, selected.machine>>,
     machine |-> <<target, Cardinality(Typed("machine")), selected.machine>>]

Deps == [clear |-> <<list, selected.machine, selected.process>>,
         machine |-> <<target, Cardinality(Typed("machine")), selected.machine>>]

Stale(name) == name # None /\ name \notin Names(list)
Kept(name) == IF Stale(name) THEN None ELSE name

\* Each effect: the selections it may set, or none when it leaves the selection alone.

ClearStale ==
    IF /\ Deps.clear # seen.clear /\ list # {}
       /\ Stale(selected.machine) \/ Stale(selected.process)
    THEN {[selected EXCEPT !.machine = Kept(@), !.process = Kept(@)]} ELSE {}

\* The family in question: the target's, or that of the only printers there are.
Wanted == IF target # None THEN {target} ELSE IF Cardinality(Printers) = 1 THEN Printers ELSE {}

PickMachine ==
    IF /\ Deps.machine # seen.machine
       /\ IF target = None THEN selected.machine = None
          ELSE Family(selected.machine) \intersect {target} = {}
    THEN {[selected EXCEPT !.machine = p.name] : p \in {q \in Typed("machine") : q.family \in Wanted}}
    ELSE {}

Fitting == {p \in Typed("process") : p.family \in Family(selected.machine)}

\* Runs at every render: its dependency is a new array each time.
PickProcess ==
    IF selected.process = None THEN {[selected EXCEPT !.process = p.name] : p \in Fitting} ELSE {}

\* Narrowed to the target's family, or to those of the printers (their list is
\* taken as loaded).
Narrowed(type) ==
    LET families == IF target # None THEN {target} ELSE Printers
    IN {p \in Typed(type) : p.family \in families \/ families = {}}
Filaments == Narrowed("filament")
Offered(type) ==
    IF type = "process" THEN Fitting
    ELSE IF Narrowed(type) # {} THEN Narrowed(type)
    ELSE Typed(type)

SlotKept ==
    LET cleared == IF Deps.clear # seen.clear /\ list # {} THEN Kept(slot) ELSE slot
    IN IF Filaments # {} /\ slot \notin Names(Filaments) THEN None ELSE cleared

\* A render and its effects: the last to set the selection wins.
Render ==
    /\ open /\ dirty
    /\ LET last == IF PickProcess # {} THEN PickProcess ELSE IF PickMachine # {} THEN PickMachine ELSE ClearStale
       IN selected' \in (IF last = {} THEN {selected} ELSE last)
    /\ slot' = SlotKept
    /\ seen' = Deps
    /\ dirty' = (selected' # selected \/ slot' # slot)
    /\ UNCHANGED <<engine, target, open, list, server, applied, events>>

-----------------------------------------------------------------------------
(* The user                                                                    *)

User == ~dirty /\ events < MaxEvents /\ events' = events + 1 /\ applied' = Nothing
Renders == dirty' = open
Asked(e) == [engine |-> e, read |-> FALSE, answer |-> {}]

\* Mounting asks for the list; what comes after unmounting is ignored.
Toggle ==
    /\ User
    /\ open' = ~open /\ dirty' = ~open
    /\ list' = {} /\ seen' = NotSeen
    /\ lists' = IF open THEN {} ELSE {Asked(engine)}
    /\ UNCHANGED <<engine, target, stored, selected, slot, deletes, applying>>

SwitchEngine(e) ==
    /\ User /\ e # engine
    /\ engine' = e
    /\ lists' = IF open THEN lists \union {Asked(e)} ELSE lists
    /\ Renders
    /\ UNCHANGED <<target, stored, open, list, selected, slot, seen, deletes, applying>>

SwitchTarget(t) ==
    /\ User /\ t # target
    /\ target' = t /\ Renders
    /\ UNCHANGED <<engine, open, list, selected, slot, seen, server>>

Pick(type, name) ==
    /\ User /\ open
    /\ name = None \/ name \in Names(Offered(type))
    /\ selected' = [selected EXCEPT ![type] = name] /\ Renders
    /\ UNCHANGED <<engine, target, open, list, slot, seen, server>>

PickSlot(name) ==
    /\ User /\ open
    /\ name = None \/ name \in Names(Offered("filament"))
    /\ slot' = name /\ Renders
    /\ UNCHANGED <<engine, target, open, list, selected, seen, server>>

\* The button beside a selected profile; the handler keeps the selection it saw.
DeletePicked(type) ==
    /\ User /\ open
    /\ selected[type] # None
    /\ [engine |-> engine, type |-> type, name |-> selected[type]] \in
            {[engine |-> p.engine, type |-> p.type, name |-> p.name] : p \in stored}
    /\ stored' = {p \in stored : <<p.engine, p.type, p.name>> # <<engine, type, selected[type]>>}
    /\ deletes' = deletes \union {[type |-> type, was |-> selected]}
    /\ UNCHANGED <<engine, target, open, list, selected, slot, seen, dirty, lists, applying>>

\* Files are imported, then the list of that engine is asked for.
Import(p) ==
    /\ User /\ open /\ p.engine = engine
    /\ stored' = stored \union {p}
    /\ lists' = lists \union {Asked(engine)}
    /\ UNCHANGED <<engine, target, open, list, selected, slot, seen, dirty, deletes, applying>>

\* "Apply" under the prompt that shows a model's embedded settings.
Apply ==
    /\ User /\ applying = None
    /\ applying' = engine
    /\ UNCHANGED <<engine, target, stored, open, list, selected, slot, seen, dirty, lists, deletes>>

-----------------------------------------------------------------------------
(* Answers                                                                     *)

ListRead(l) ==
    /\ ~l.read
    /\ lists' = (lists \ {l}) \union {[l EXCEPT !.read = TRUE, !.answer = OfEngine(l.engine)]}
    /\ UNCHANGED <<engine, target, stored, open, list, selected, slot, seen, dirty, deletes, applying, applied, events>>

\* setProfiles, also for an engine that has been left; getProfiles turns an error
\* into an empty list.
ListArrives(l) ==
    /\ ~dirty
    /\ l.read
    /\ \/ list' = l.answer
       \/ events < MaxEvents /\ list' = {}
    /\ lists' = lists \ {l} /\ dirty' = TRUE
    /\ UNCHANGED <<engine, target, stored, open, selected, slot, seen, deletes, applying, applied, events>>

DeleteArrives(d) ==
    /\ ~dirty
    /\ list' = {p \in list : <<p.type, p.name>> # <<d.type, d.was[d.type]>>}
    /\ selected' = [d.was EXCEPT ![d.type] = None]
    /\ deletes' = deletes \ {d} /\ applied' = Nothing /\ Renders
    /\ UNCHANGED <<engine, target, stored, open, slot, seen, lists, applying, events>>

\* The names the archive gives, whether the profiles were there or are new.
ApplyArrives ==
    /\ ~dirty /\ applying # None
    /\ stored' = stored \union {p \in Made(applying) : p.name \notin Names(OfEngine(applying))}
    /\ selected' = [t \in DOMAIN Nothing |-> Embedded[t]] /\ applied' = selected'
    /\ applying' = None /\ Renders
    /\ UNCHANGED <<engine, target, open, list, slot, seen, lists, deletes, events>>

PickerNext ==
    \/ Render \/ Toggle \/ Apply \/ ApplyArrives
    \/ \E e \in Engines : SwitchEngine(e)
    \/ \E t \in Printers \union {None} : SwitchTarget(t)
    \/ \E type \in {"machine", "process"} : DeletePicked(type) \/ \E name \in Names(list) \union {None} : Pick(type, name)
    \/ \E name \in Names(list) \union {None} : PickSlot(name)
    \/ \E p \in Profiles : Import(p)
    \/ \E l \in lists : ListRead(l) \/ ListArrives(l)
    \/ \E d \in deletes : DeleteArrives(d)

\* When the effects have come to rest, nothing is selected that the panel does not
\* list, though each effect overwrites the others and answers of lists, deletions
\* and an Apply come between ("drop selections that no longer exist").
SelectionListed ==
    (open /\ ~dirty /\ list # {}) =>
        {selected.machine, selected.process, slot} \ {None} \subseteq Names(list)

=============================================================================
