---------------------------- MODULE ProfileStore ----------------------------
(* The slicer profiles of the server (routes/settings.ts) and what each start  *)
(* does to them: the migration of the table (db/migrations.ts) and the seeding *)
(* of defaults (db/seed-profiles.ts), either of which a crash may cut short.   *)
EXTENDS Naturals, FiniteSets, Sequences

CONSTANTS Keys,    \* keys [engine, type, name] in use
          Seeds,   \* the keys that are seeded, from the list and from the disk
          Bundles, \* archives for import: sequences of keys
          Local,   \* the presets of the slicer that is installed
          Legacy,  \* keys of the profiles in a database of the old schema
          MaxStops \* bound: crashes and restarts

ASSUME StoreAssumption ==
    /\ Seeds \union Local \union Legacy \subseteq Keys
    /\ \A b \in Bundles : \A i \in DOMAIN b : b[i] \in Keys
    /\ \A k \in Legacy : k.type = "process"

VARIABLES schema,  \* "old", "renamed", "created", "copied", "new"
          table,   \* key -> content, for the profiles there are
          old,     \* profiles_old, or the table itself while the schema is old
          boot,    \* "off", "migrating", "seeding", "up"
          zips,    \* archives whose entries are being unpacked
          stops,
          mine,    \* key -> what the user last stored there
          lost     \* a crash has come between the renaming and the copy

storeVars == <<schema, table, old, boot, zips, stops, mine, lost>>

Put(f, k, c) == [j \in DOMAIN f \union {k} |-> IF j = k THEN c ELSE f[j]]
Drop(f, k) == [j \in DOMAIN f \ {k} |-> f[j]]
Old == [k \in Legacy |-> "legacy"]

StoreInit ==
    /\ \/ schema = "new" /\ old = <<>> /\ mine = <<>>
       \/ schema = "old" /\ old = Old /\ mine = Old
    /\ table = <<>>
    /\ boot = "off" /\ zips = {} /\ stops = 0
    /\ lost = FALSE

-----------------------------------------------------------------------------
(* Start                                                                       *)

\* CREATE TABLE IF NOT EXISTS comes first: it puts an empty table of the new
\* schema in the place of one that has been renamed.
Boot ==
    /\ boot = "off"
    /\ schema' = IF schema = "old" THEN "old" ELSE "new"
    /\ boot' = IF schema = "old" THEN "migrating" ELSE "seeding"
    /\ UNCHANGED <<table, old, zips, stops, mine, lost>>

Migrate(from, to) == boot = "migrating" /\ schema = from /\ schema' = to
Rename == Migrate("old", "renamed") /\ UNCHANGED <<table, old, boot, zips, stops, mine, lost>>
Create == Migrate("renamed", "created") /\ UNCHANGED <<table, old, boot, zips, stops, mine, lost>>

\* The profiles of old were all of type 'process'.
Copy ==
    /\ Migrate("created", "copied")
    /\ table' = old
    /\ UNCHANGED <<old, boot, zips, stops, mine, lost>>
DropOld ==
    /\ Migrate("copied", "new")
    /\ old' = <<>> /\ boot' = "seeding"
    /\ UNCHANGED <<table, zips, stops, mine, lost>>

\* Mutant: a default is written over what is there.
SeedOver(k) ==
    /\ boot = "seeding" /\ k \in Seeds
    /\ table' = Put(table, k, "seed")
    /\ UNCHANGED <<schema, old, boot, zips, stops, mine, lost>>

\* seedDefaultProfiles and seedProfileDir: at every start, what is not there.
Seed(k) ==
    /\ boot = "seeding" /\ k \in Seeds \ DOMAIN table
    /\ table' = Put(table, k, "seed")
    /\ UNCHANGED <<schema, old, boot, zips, stops, mine, lost>>
Listen ==
    /\ boot = "seeding" /\ Seeds \subseteq DOMAIN table
    /\ boot' = "up"
    /\ UNCHANGED <<schema, table, old, zips, stops, mine, lost>>

\* A crash at any statement, or a restart.
Stop ==
    /\ boot # "off" /\ stops < MaxStops
    /\ boot' = "off" /\ zips' = {} /\ stops' = stops + 1
    /\ lost' = (lost \/ schema \in {"renamed", "created"})
    /\ UNCHANGED <<schema, table, old, mine>>

-----------------------------------------------------------------------------
(* Requests                                                                    *)

Store(k, c) ==
    /\ table' = Put(table, k, c) /\ mine' = Put(mine, k, c)
    /\ UNCHANGED <<schema, old, boot, stops, lost>>

Save(k) == boot = "up" /\ Store(k, "edit") /\ UNCHANGED zips
ImportJson(k) == boot = "up" /\ Store(k, "import") /\ UNCHANGED zips

DeleteProfile(k) ==
    /\ boot = "up" /\ k \in DOMAIN table
    /\ table' = Drop(table, k) /\ mine' = Drop(mine, k)
    /\ UNCHANGED <<schema, old, boot, zips, stops, lost>>

\* embedded-profiles: one that exists by that name is left as it is.
Synthesize(k) == boot = "up" /\ k \notin DOMAIN table /\ Store(k, "embedded") /\ UNCHANGED zips

\* A bundle is unpacked entry by entry, with pauses.
StartZip(b) ==
    /\ boot = "up" /\ zips' = zips \union {b}
    /\ UNCHANGED <<schema, table, old, boot, stops, mine, lost>>
ZipEntry(b) ==
    /\ b \in zips
    /\ Store(Head(b), "import")
    /\ zips' = (zips \ {b}) \union (IF Len(b) > 1 THEN {Tail(b)} ELSE {})

\* import-local: in one go, over what is there.
ImportLocal ==
    /\ boot = "up"
    /\ table' = [k \in DOMAIN table \union Local |-> IF k \in Local THEN "local" ELSE table[k]]
    /\ mine' = [k \in DOMAIN mine \union Local |-> IF k \in Local THEN "local" ELSE mine[k]]
    /\ UNCHANGED <<schema, old, boot, zips, stops, lost>>

StoreNext ==
    \/ Boot \/ Rename \/ Create \/ Copy \/ DropOld \/ Listen \/ Stop
    \/ \E k \in Keys : Seed(k) \/ Save(k) \/ ImportJson(k) \/ DeleteProfile(k) \/ Synthesize(k)
    \/ \E b \in Bundles : StartZip(b)
    \/ \E b \in zips : ZipEntry(b)
    \/ ImportLocal

\* What the user stored, edited or imported, and what the old database held, is
\* there when the server answers requests, after any number of starts and however
\* they were cut short; only a crash between the renaming of the old table and the
\* copy loses the old profiles.
ProfilesKept ==
    boot = "up" => \A k \in DOMAIN mine :
        \/ k \in DOMAIN table /\ table[k] = mine[k]
        \/ lost /\ mine[k] = "legacy"
=============================================================================
