------------------------------- MODULE Library ------------------------------
(* What the server keeps beside jobs, models and profiles, and the panel that  *)
(* selects profiles. The parts share no state, so a run watches one at a time. *)
EXTENDS ModelLibrary, ProfileStore, ProfilePicker

CONSTANT Focus  \* bound: subset of {"models", "profiles", "picker"}

VARIABLE focus
vars == <<libraryVars, storeVars, pickerVars, focus>>

\* A part that is not watched starts in one way.
Init ==
    /\ LibraryInit /\ StoreInit /\ PickerInit /\ focus \in Focus
    /\ focus # "profiles" => schema = "new"
    /\ focus # "picker" => engine = CHOOSE e \in Engines : TRUE
    /\ focus # "picker" => target = None

Next ==
    /\ UNCHANGED focus
    /\ \/ focus = "models" /\ LibraryNext /\ UNCHANGED <<storeVars, pickerVars>>
       \/ focus = "profiles" /\ StoreNext /\ UNCHANGED <<libraryVars, pickerVars>>
       \/ focus = "picker" /\ PickerNext /\ UNCHANGED <<libraryVars, storeVars>>

Spec == Init /\ [][Next]_vars
=============================================================================
