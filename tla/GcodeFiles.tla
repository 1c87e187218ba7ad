----------------------------- MODULE GcodeFiles -----------------------------
(***************************************************************************)
(* The gcode files that requests share: the output directory of a          *)
(* completed job and the directory of a staged upload.                     *)
(*                                                                         *)
(* A file is named by how its name was derived from the slicer's or the    *)
(* uploaded file, and its text by what was done to it.  Several streams    *)
(* may have one file open for writing; a reader finds its text only when   *)
(* nobody writes and the last writers wrote the same, and Garbled (a part, *)
(* a mixture, nothing) otherwise.                                          *)
(***************************************************************************)
EXTENDS Naturals, Sequences, FiniteSets

CONSTANTS
    Outputs,     \* output directories of completed jobs, all of one model
    Stages,      \* staged uploads
    Mappings,    \* filament mappings that change something
    Garbled      \* a text that is no whole gcode

VARIABLES
    there,       \* "none", "present", "removed": the directories
    archive,     \* staged uploads that are .gcode.3mf
    file         \* what each directory holds

Places == Outputs \cup Stages

\* Derivations of a name: the gcode taken out of a 3MF (__extracted.gcode),
\* tool changes mapped (.x.gcode.mapped.gcode), judge flags prepended
\* (x.snorcal.gcode), pauses injected (x.paused.gcode).
Step == {"extracted", "mapped", "flags", "paused"}
Name == Seq(Step)
Original == <<>>

\* Plate 0 is a 3MF, with all its plates, 1 a plain gcode or the first plate.
Text == [of : Places, plate : 0..1, done : Seq(Mappings \cup Step)]
            \cup {Garbled}

Applied(t, s) == IF t = Garbled THEN t ELSE [t EXCEPT !.done = Append(@, s)]

\* texts: what the streams that were open together have finished writing.
Entry(R) == [texts : SUBSET Text, writers : SUBSET R]

Content(e) == IF e.writers = {} /\ \E t \in e.texts : e.texts = {t}
              THEN CHOOSE t \in e.texts : TRUE
              ELSE Garbled

NoFiles == [n \in {} |-> Garbled]

Put(F, n, e) == [m \in DOMAIN F \cup {n} |-> IF m = n THEN e ELSE F[m]]

Without(F, names) == [n \in DOMAIN F \ names |-> F[n]]

\* writeFileSync.
Written(F, n, t) == Put(F, n, [texts |-> {t}, writers |-> {}])

\* createWriteStream has opened n for r: it is truncated.
Truncated(F, n, r) ==
    IF n \in DOMAIN F
    THEN [F EXCEPT ![n].texts = IF F[n].writers = {} THEN {} ELSE @,
                   ![n].writers = @ \cup {r}]
    ELSE Put(F, n, [texts |-> {}, writers |-> {r}])

\* r has written t to n and closed it; if n was removed meanwhile, or removed
\* and made again, what r wrote is in no directory.
Finished(F, n, r, t) ==
    IF n \in DOMAIN F /\ r \in F[n].writers
    THEN [F EXCEPT ![n].texts = @ \cup {t}, ![n].writers = @ \ {r}]
    ELSE F

\* The process is gone, what its streams wrote stays.
Abandoned(F) ==
    [n \in DOMAIN F |-> IF F[n].writers = {} THEN F[n]
                        ELSE [texts |-> {}, writers |-> {}]]

----------------------------------------------------------------------------
(* findGcodeFile: the first entry of readdirSync, which sorts by bytes.  A  *)
(* mapped file has one dot more in front than its source.                   *)

Dots(n) == Cardinality({i \in DOMAIN n : n[i] = "mapped"})

\* What the name continues with after step i - 1: "gcode", "paused", "snorcal".
Rank(n, i) == IF i > Len(n) \/ n[i] = "mapped" THEN 0
              ELSE IF n[i] = "paused" THEN 1 ELSE 2

Before(m, n) ==
    \/ Dots(m) > Dots(n)
    \/ /\ Dots(m) = Dots(n)
       /\ \E i \in 1..(Len(m) + 1) :
            /\ \A k \in 1..(i - 1) : Rank(m, k) = Rank(n, k)
            /\ Rank(m, i) < Rank(n, i)

\* Mutant: the order of the directory, with dot files last.
FindGcodeFlagsFirst(F) ==
    CHOOSE n \in DOMAIN F : \A m \in DOMAIN F \ {n} : Len(m) <= Len(n)

FindGcode(F) ==
    CHOOSE n \in DOMAIN F : \A m \in DOMAIN F \ {n} : Before(n, m)
=============================================================================
