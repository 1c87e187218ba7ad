--------------------------- MODULE ProjectSettings --------------------------
(* The settings half of buildSliceInput3MF (routes/slice.ts): the template,    *)
(* the profiles laid over it, the user's filament slots and process settings,  *)
(* and the clean-up for the slicer.                                            *)
(*                                                                             *)
(* A settings object maps keys to [list, v]: an array of strings, or a scalar  *)
(* as a sequence of one; colours are numbers. A request is a record            *)
(*   profiles [machine, filament, process, filament2]  names, None for none    *)
(*   multi, support, interface   multiMaterial: enabled, and the filaments of   *)
(*            supports and of their interface                                  *)
(*   slots    sequence of [color, type, profile]                               *)
(*   process  settings the client sends along                                  *)
(* G-code in a setting is one of "", "other", "G92" (it resets the extruder).  *)
EXTENDS Integers, Sequences, FiniteSets, SequencesExt

CONSTANTS Template,     \* default-project-settings.json
          Profiles,     \* <<kind, name>> -> [settings, inherits]
          Tokens,       \* profile name -> the material tokens it contains
          FilamentKeys, \* keys that start with filament_
          FilamentIndexKeys, \* keys that end in _filament
          TempKeys      \* nozzle and bed temperatures

None == "none"
Scalar(s) == [list |-> FALSE, v |-> <<s>>]
List(s) == [list |-> TRUE, v |-> s]
Put(settings, k, value) ==
    [j \in DOMAIN settings \union {k} |-> IF j = k THEN value ELSE settings[j]]

ProfileSettings(kind, name) ==
    IF <<kind, name>> \in DOMAIN Profiles THEN Profiles[<<kind, name>>].settings
    ELSE [k \in {} |-> Scalar("")]

SelfKeys == {"type", "name", "inherits", "from", "version"}
IdentityKeys == {"printer_model", "printer_settings_id", "print_settings_id",
                 "default_print_profile", "default_filament_profile", "inherits_group"}
CompatibilityKeys == {"print_compatible_printers", "compatible_printers",
                      "compatible_printers_condition", "upward_compatible_machine"}

\* What can stand for a key: a list, or a scalar as a list of one.
IsValue(x) ==
    /\ x = [list |-> x.list, v |-> x.v] /\ x.list \in BOOLEAN
    /\ Len(x.v) \in Nat /\ x.v = [i \in 1..Len(x.v) |-> x.v[i]]
    /\ x.list \/ Len(x.v) = 1
IsSettings(s) == \A k \in DOMAIN s : IsValue(s[k])

\* Keys the clean-up sets whatever they were.
ForcedKeys == {"layer_change_gcode", "before_layer_change_gcode", "change_filament_gcode",
               "printer_settings_id", "print_settings_id", "printer_model", "ooze_prevention"}
\* Keys that follow the slots.
SlotKeys == {"filament_colour", "filament_type", "filament_settings_id", "default_filament_profile"}

\* What a request says of its two filaments: MultiMaterialConfig.
IsMulti(req) == req.multi \in BOOLEAN /\ {req.support, req.interface} \subseteq {"0", "1"}

\* What default-project-settings.json and the names of the keys say.
ASSUME SettingsAssumption ==
    /\ IsSettings(Template) /\ \A p \in DOMAIN Profiles : IsSettings(Profiles[p].settings)
    /\ ForcedKeys \union SlotKeys \union FilamentIndexKeys \subseteq DOMAIN Template
    /\ \A k \in ForcedKeys : ~Template[k].list
    /\ "single_extruder_multi_material" \in DOMAIN Template \ FilamentIndexKeys
    /\ SlotKeys \ {"default_filament_profile"} \subseteq FilamentKeys
    /\ {"support_filament", "support_interface_filament"} \subseteq FilamentIndexKeys
    /\ FilamentIndexKeys \cap (CompatibilityKeys \union {"inherits_group"}) = {}
    /\ (FilamentIndexKeys \union TempKeys) \cap (ForcedKeys \union SlotKeys \union FilamentKeys) = {}
    /\ \A n \in DOMAIN Tokens : "-1" \notin Tokens[n] /\ None \notin Tokens[n]

-----------------------------------------------------------------------------

\* Mutant: a shorter list replaces the longer one as it is.
OverlayTruncates(settings, profile) ==
    [k \in DOMAIN settings |->
        IF k \notin DOMAIN profile \/ k \in SelfKeys THEN settings[k] ELSE profile[k]]

\* A profile only replaces keys of the template; a list shorter than the one it
\* replaces is repeated to that one's length.
Overlay(settings, profile) ==
    [k \in DOMAIN settings |->
        IF k \notin DOMAIN profile \/ k \in SelfKeys THEN settings[k]
        ELSE LET new == profile[k]
                 old == settings[k]
             IN IF new.list /\ old.list /\ Len(old.v) > Len(new.v)
                THEN List([i \in DOMAIN old.v |-> new.v[((i - 1) % Len(new.v)) + 1]])
                ELSE new]

Overlaid(req) ==
    LET machine == Overlay(Template, ProfileSettings("machine", req.profiles.machine))
        filament == Overlay(machine, ProfileSettings("filament", req.profiles.filament))
    IN Overlay(filament, ProfileSettings("process", req.profiles.process))

\* Keys the merge of two filaments sets whatever the profiles say.
MergedKeys == {"support_filament", "support_interface_filament", "flush_volumes_matrix"}

\* String(value): a list of several becomes one string joined by commas.
AsString(value) == IF Len(value.v) = 1 THEN value.v[1] ELSE "joined"

\* mergeFilamentProfiles: two filaments, in lists of two, and the volumes to flush
\* between them.
MergeFilamentProfiles(settings, req) ==
    LET p0 == ProfileSettings("filament", req.profiles.filament)
        p1 == ProfileSettings("filament", req.profiles.filament2)
        keys == ((DOMAIN p0 \union DOMAIN p1) \cap FilamentKeys) \ {"filament_id"}
        Old(k, i, default) == IF k \in DOMAIN settings /\ i \in DOMAIN settings[k].v
                              THEN settings[k].v[i] ELSE default
        Pick(p, k, i) == IF k \in DOMAIN p THEN AsString(p[k]) ELSE Old(k, i, "")
        flush == [i \in 1..4 |-> Old("flush_volumes_matrix", i, IF i \in {1, 4} THEN "0" ELSE "280")]
    IN [k \in DOMAIN settings \union keys \union MergedKeys |->
            IF k \in keys THEN List(<<Pick(p0, k, 1), Pick(p1, k, 2)>>)
            ELSE CASE k = "support_filament" -> Scalar(req.support)
                   [] k = "support_interface_filament" -> Scalar(req.interface)
                   [] k = "flush_volumes_matrix" -> List(flush)
                   [] OTHER -> settings[k]]

\* The longest material token in the name, else nothing.
DeriveMaterial(name) ==
    LET size(t) == CASE t = "Nylon" -> 5
                     [] t \in {"PETG", "HIPS", "PEEK"} -> 4
                     [] t \in {"PA", "PC", "CF", "GF"} -> 2
                     [] OTHER -> 3
        found == IF name \in DOMAIN Tokens THEN Tokens[name] ELSE {}
    IN IF found = {} THEN None
       ELSE CHOOSE t \in found : \A u \in found : size(u) <= size(t)

\* Mutant: the slot's own type goes before its profile's.
SlotTypeOwnFirst(s) ==
    IF s.type # None THEN s.type
    ELSE IF DeriveMaterial(s.profile) # None THEN DeriveMaterial(s.profile) ELSE "PLA"

SlotType(s) ==
    IF DeriveMaterial(s.profile) # None THEN DeriveMaterial(s.profile)
    ELSE IF s.type # None THEN s.type ELSE "PLA"

ApplySlots(settings, slots) ==
    IF slots = <<>> THEN settings
    ELSE Put(Put(settings, "filament_colour", List([i \in DOMAIN slots |-> slots[i].color])),
             "filament_type", List([i \in DOMAIN slots |-> SlotType(slots[i])]))

\* What the client sends never touches filament_* or identity keys and never
\* blanks a value; JSON lists have become lists again.
ApplyProcess(settings, process) ==
    LET taken == {k \in DOMAIN process : /\ k \notin FilamentKeys \union IdentityKeys
                                         /\ process[k] # Scalar("")}
    IN [k \in DOMAIN settings \union taken |->
            IF k \in taken THEN process[k] ELSE settings[k]]

\* The names of the chosen profiles, slots without one left out, repeated to the
\* number of colours.
FilamentNames(settings, req) ==
    LET slotNames == SelectSeq([i \in DOMAIN req.slots |-> req.slots[i].profile],
                               LAMBDA n : n # None)
        names == IF req.slots # <<>> THEN slotNames
                 ELSE IF req.profiles.filament # None THEN <<req.profiles.filament>> ELSE <<>>
        count == Len(settings["filament_colour"].v)
    IN IF names = <<>> \/ Len(names) >= count THEN names
       ELSE names \o [i \in 1..(count - Len(names)) |-> names[Len(names)]]

ApplyIdentity(settings, req) ==
    LET names == FilamentNames(settings, req)
        own == IF names = <<>> THEN settings
               ELSE Put(Put(settings, "filament_settings_id", List(names)),
                        "default_filament_profile", List(<<names[1]>>))
    IN IF req.profiles.process = None THEN own
       ELSE Put(own, "print_settings_id", Scalar(req.profiles.process))

-----------------------------------------------------------------------------

\* resolveInherited: up to eleven profiles of the chain, the first that has the
\* key; not found is the empty sequence.
ResolveInherited(name, k) ==
    LET at[d \in 0..11, n \in {p[2] : p \in DOMAIN Profiles} \union {None}] ==
            IF d > 10 \/ <<"filament", n>> \notin DOMAIN Profiles THEN <<>>
            ELSE LET p == Profiles[<<"filament", n>>]
                 IN IF k \in DOMAIN p.settings /\ p.settings[k] # Scalar("") THEN <<p.settings[k]>>
                    ELSE at[d + 1, p.inherits]
    IN IF <<"filament", name>> \in DOMAIN Profiles THEN at[0, name] ELSE <<>>

\* The first slot whose own type is not the one the settings had before and whose
\* profile knows a nozzle temperature sets the temperatures of every slot.
OverrideNozzleTemps(settings, slots, before) ==
    LET default == settings["default_filament_profile"].v
        ProfileOf(i) == IF slots[i].profile # None THEN slots[i].profile
                        ELSE IF i \in DOMAIN default THEN default[i] ELSE None
        changed == {i \in DOMAIN slots :
                        /\ slots[i].type # None
                        /\ ~(i \in DOMAIN before /\ before[i] = slots[i].type)
                        /\ ResolveInherited(ProfileOf(i), "nozzle_temperature") # <<>>}
        first == CHOOSE i \in changed : \A j \in changed : i <= j
        value(k) == ResolveInherited(ProfileOf(first), k)
        known == {k \in TempKeys : value(k) # <<>>}
    IN IF changed = {} THEN settings
       ELSE [k \in DOMAIN settings \union known |->
                IF k \in known
                THEN List([i \in DOMAIN settings["filament_colour"].v |-> value(k)[1].v[1]])
                ELSE settings[k]]

\* sanitizeSentinelsAndZeroFilaments: first every value, then what is forced on all
\* settings. A filament index that was "-1" becomes "0" and is not looked at again.
Sanitize(settings) ==
    LET inherit(s) == IF s = "-1" THEN "0" ELSE s
        Clean(k) ==
            IF k = "filament_colour" THEN settings[k] \* numbers, never a sentinel
            ELSE IF settings[k].list THEN List([i \in DOMAIN settings[k].v |-> inherit(settings[k].v[i])])
            ELSE IF k \in FilamentIndexKeys /\ settings[k] = Scalar("0") THEN Scalar("1")
            ELSE Scalar(inherit(settings[k].v[1]))
        resets == {"layer_change_gcode", "before_layer_change_gcode"} \union
                  (IF settings["single_extruder_multi_material"] = Scalar("1")
                   THEN {"change_filament_gcode"} ELSE {})
        blanks == {"printer_settings_id", "print_settings_id", "printer_model"}
        Fixed(k) ==
            CASE k = "inherits_group" -> List([i \in DOMAIN settings[k].v |-> ""])
              [] k \in blanks -> Scalar("")
              [] k = "ooze_prevention" -> Scalar("0")
              [] k \in resets -> Scalar("G92")
              [] OTHER -> Clean(k)
    IN [k \in (DOMAIN settings \ CompatibilityKeys) \union resets \union blanks
               \union {"ooze_prevention"} |-> Fixed(k)]

\* All of it, in the order of the code.
BuildProjectSettings(req) ==
    LET overlaid == Overlaid(req)
        merged == IF req.multi THEN MergeFilamentProfiles(overlaid, req) ELSE overlaid
        own == ApplyIdentity(ApplyProcess(ApplySlots(merged, req.slots), req.process), req)
        heated == IF req.slots = <<>> THEN own
                  ELSE OverrideNozzleTemps(own, req.slots, merged["filament_type"].v)
    IN Sanitize(heated)
=============================================================================
