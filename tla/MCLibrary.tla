------------------------------ MODULE MCLibrary -----------------------------
(* A small library: archives of every kind that differs, two MakerWorld        *)
(* profiles, profiles of two engines and of two printer families.              *)
EXTENDS Library

A(f, n, g, s) == [format |-> f, plates |-> n, good |-> g, settings |-> s]
MCArchives == {A("stl", 1, {1}, FALSE), A("stl", 1, {}, FALSE), A("step", 1, {}, FALSE),
               A("3mf", 2, {1, 2}, TRUE), A("3mf", 2, {1}, TRUE), A("3mf", 1, {1}, FALSE)}
MCDesigns == [u \in {"u1", "u2"} |-> IF u = "u1" THEN A("3mf", 2, {1, 2}, TRUE) ELSE A("3mf", 1, {1}, FALSE)]
MCFaults == {"crash", "database"}

K(t, n) == [engine |-> "orca", type |-> t, name |-> n]
MCKeys == {K("process", "0.2"), K("process", "fine"), K("machine", "mine")}
MCSeeds == {K("process", "0.2")}
MCBundles == {<<K("process", "fine"), K("machine", "mine")>>}
MCLocal == {K("process", "0.2")}
MCLegacy == {K("process", "0.2"), K("process", "fine")}

P(e, t, n, f) == [engine |-> e, type |-> t, name |-> n, family |-> f]
MCProfiles == {P("orca", "machine", "X1 0.4", "X1"), P("orca", "machine", "U1 0.4", "U1"),
               P("orca", "process", "0.2 @X1", "X1"), P("orca", "filament", "PLA @X1", "X1"),
               P("snapmaker", "machine", "U1 sm", "U1"), P("snapmaker", "process", "0.2 @U1", "U1")}
MCEmbedded == [machine |-> "X1 0.4", process |-> "theirs", filament |-> "PLA theirs", family |-> "X1"]
=============================================================================
