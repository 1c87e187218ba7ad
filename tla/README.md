# Snorcal in TLA+

Snorcal is a self-hosted slicing server: a Fastify backend (one Node.js process, SQLite, a
`/data` volume), a React client, slicer sidecars or local slicer binaries, and printers reached
through Moonraker, MQTT (Bambu) or the Bambuddy proxy.  This directory holds TLA+ models of its
stateful parts, TLC configurations that check them on small instances, and TLAPS proofs of what
matters most for every instance.

Paths below are relative to `packages/backend/src` unless they start with `packages/`.

## 1. The system

### Execution model

The server is single-threaded.  Two pieces of code interleave only where control returns to the
event loop: an `await`, a callback, the end of a handler.  All SQLite calls (better-sqlite3) and
most file calls are synchronous.  Hence the rule followed in every module: *one action is the code
between two such points*, and a process counter names the `await` at which an asynchronous function
is suspended.  Nothing in the server locks; a function that is resumed must cope with whatever
happened meanwhile.

### Components

| Component | State | Operations | Talks to | What is hard |
|---|---|---|---|---|
| Slice jobs (`routes/slice.ts`, `services/slicer-executor.ts`) | rows of `jobs`, `/data/jobs/<id>`, map `runningExecutors`, the executor's child, `AbortController`, timers | submit, run, cancel, delete | queue, sidecar or child process, store | cancel and delete racing a run; errors told apart by their text; a row that is final while work goes on |
| Redis queue (`jobs/queue.ts`) | BullMQ lists in Redis, one worker | add, process, completed / failed / stalled | slice jobs | redelivery after a restart, late `failed` events, jobs cancelled while waiting |
| Store (`db/index.ts`, `db/migrations.ts`) | SQLite tables with cascading foreign keys | inserts, updates, lists by age | everyone | updates of rows that are gone, cascades |
| Cleanup and restart (`routes/system.ts`) | none of its own | cleanup by mode and age, restart, update | store, job directories | rows and directories deleted one by one |
| Printer manager (`services/printer-manager.ts`) | maps of adapters, retry timers, delays, counts, ages | start, stop, reconnect, rotate, send through | adapters, event bus, store | interleaved start / stop, connects that settle late |
| Adapters (`services/adapters/*`) | socket or MQTT client, reconnect and heartbeat timers, cached status | connect, disconnect, command, upload, start print | the printer or proxy | sockets that open or close after they were given up |
| Print dispatch (`routes/printers.ts`) | stage directories, temporary gcode files, print queue rows | send, stage-file, send-file, queue | manager, gcode services | shared temporary files, adapters replaced between upload and start |
| Gcode services (`services/gcode-*.ts`) | files beside the gcode | inject pauses, map tools, scan filaments, wrap into 3MF | dispatch, jobs | chunk boundaries, layer counts |
| Slice input (`routes/slice.ts` `buildSliceInput3MF`, `services/threemf-*.ts`, `services/model-parser.ts`) | none | resolve models, slots, profiles; build the 3MF | store | two ways to submit that should mean the same |
| Model library (`routes/models.ts`, `routes/files.ts`) | rows of models, plates, parts; files | upload, parse, delete, colours | store | several rows and files without a transaction |
| Settings and profiles (`routes/settings.ts`, `db/seed-profiles.ts`) | profile rows, key-value rows | read, write, import, resolve inheritance | store, sidecar | inheritance chains |
| Events (`services/event-bus.ts`, `packages/frontend/src/hooks/useSSE.ts`) | subscribers, the client's buffer | emit, subscribe, reconnect | manager, client | events lost between two connections |
| Web client (`packages/frontend/src/App.tsx`) | jobs, models, view state | polling, submit, cancel, send | the whole API | stale copies of rows |
| Sessions (`plugins/auth.ts`, `services/auth-crypto.ts`) | password hash, session secret | setup, login, logout, guard | store | first-run setup |
| Inventory, MakerWorld import, discovery, URL checks, secrets at rest, installation | rows or nothing | storage routes, chains of requests, probes | store, network | little state |

### What makes each part correct

* **Slice jobs**: a slice in flight can be reached by cancel, and only such a slice; a row that says
  `completed` or `failed` is not being worked on; a completed job has its gcode, a failed one leaves
  no directory; a verdict is never revised; a cancel is final; every slice ends and its row says how.
* **Queue**: a job is in one place of Redis; it is worked off once, or again after a crash, with the
  same meaning; its row ends in a final status.
* **Store and cleanup**: a job row has its model; what a cleanup removes disappears from the database
  and the disk; it spares the young and the active.
* **Printer manager and adapters**: at most one live connection per printer, none after a stop, a
  retry whenever a printer is wanted and not connected, and none otherwise.
* **Dispatch**: the file that is printed is the gcode of the requested job and plate with the
  requested mapping; temporary files of two requests do not meet.
* **Pauses, tool mapping, filament scan**: the output is that of a line-by-line definition, wherever
  the chunks are cut.

## 2. Modules

| Part | Modules | Composition and abstract specification |
|---|---|---|
| Slice jobs | `BullQueue` (the queue and worker as `jobs/queue.ts` observes them, external), `SliceJobs`, `JobStorage` (cleanup) | each extends the one before; `JobLifecycle` is what a client that polls a job is promised, and is implemented by `SliceJobs` (`LifecycleSpec`) |
| Slice input | `ModelArchive` (upload of a 3MF), `ProjectSettings` (settings of the project file), `SliceInput` (request and 3MF built), `Painting` (paint between viewer, rows and slices) | `SliceInput` extends the first two, `SliceRequest` joins it with `Painting` |
| Printers | `PrinterLinks` (connections of adapters), `PrinterManager` | the manager extends the links |
| A printer's desk | `PrinterStatus` (what an adapter knows), `PrintQueue` (rows, routes and pages) | `PrinterDesk`: a print that is sent changes what the printer reports |
| Sending gcode | `GcodeFiles` (files that several requests share), `PrintDispatch`; `FilamentMapping` (scan, remap dialog, rewriting, pauses over chunks) | dispatch extends the files |
| Library | `ModelLibrary` (uploads, MakerWorld, deletion), `ProfileStore` (migration, seeding, routes), `ProfilePicker` (the panel) | `Library` |
| Web client | `Editor` (scene, history, uploads, reloads), `Session` (sign-in), `JobBoard` (job list and polls), `PrinterPage` (stream and lists) | `WebClient`: the board and the page live and die with the session |

`MC*` modules give constants their values for TLC.  Proofs are in `SliceProofs`, `PrinterProofs`,
`LibraryProofs`, `DeskProofs`, `DispatchProofs`, `MappingProofs`, `RequestProofs` (settings, paint and the 3MF)
and `EditorProofs`.

Where composed parts share no state (`SliceRequest`, `Library`, `WebClient`), a variable `focus`
chooses the part a behaviour watches: the product of two independent state machines has no
behaviour the two do not have, only more states.

### SliceJobs

| Variable | Code |
|---|---|
| `models`, `status` | rows of `models` and `jobs.status`; `"none"` before `insertJob`, `"gone"` after the row is removed |
| `wd` | what `/data/jobs/<id>` holds: nothing, empty, the input and `output/`, the gcode |
| `run` | where `runSliceJob` is suspended: `"build"` (the 3MF), `"slicing"` (local child), `"read"`, `"post"`, `"refused"`, `"download"` (the awaits of `executeHttp`) |
| `executors` | keys of `runningExecutors` |
| `aborted`, `termed`, `sigkilled`, `killTimer` | the executor's `AbortController`, `child.killed`, the SIGKILL, the timer of `cancel()` |
| `queueUp` | `queue !== null` in `jobs/queue.ts` (it becomes so asynchronously) |
| `adding`, `cancelling` | handlers suspended in `queue.add` and in `queue.getJob` / `discard` |
| `waiting`, `active`, `outcome`, `stalled`, `stalls` | Redis and the worker (`BullQueue`) |
| `deleted`, `crashes` | history: jobs a user deleted, restarts |

Actions are named for the code they model: `SubmitDirect` / `SubmitQueued` (the two ends of
`POST /api/slice`), `BuildEnds` … `SlicerFails` (the awaits of `runSliceJob` and its executors),
`Complete` and `Throw` (the end of the function with its `catch`, `finally` and its caller
`runSliceDirect`), `WorkerStarts` … `StalledJobFails` (the worker), `CancelDirect` /
`CancelBegins` / `CancelEnds`, `KillTimerFires`, `DeleteJob`, `DeleteModel`, `Restart`.
Two facts of the code decide much and are kept as they are: `runSliceDirect` tells a cancel from
a failure by the text of the error (`Throw(j, isAbort)`), and an `UPDATE` of a row that is gone has
no effect (`SetStatus`).

Left out: progress, estimates and log output, which no guard reads; the order of events inside one
synchronous stretch; failures of `rmSync` ("best effort"); two servers on one volume.

### JobStorage

Adds the age of rows (`oldJobs`, `oldModels`; a model is never younger than its jobs) and `Cleanup(mode, days)`,
one synchronous handler.  `JobsOlderThan`, `OrphanedModels`, … are the queries of `db/index.ts` as
set comprehensions; `PurgedRows` and `PurgedDirs` are the rows (with the cascade of the foreign key)
and the directories that go.

### PrinterLinks and PrinterManager

Every map of the manager is keyed by printer and no code relates two printers, so the model has
one.  An adapter is an *object*: dropped from the map, it lives on with its socket and timers, and
its events still reach the bus under the printer's id.

| Variable | Code |
|---|---|
| `link[a].kind` | `MoonrakerAdapter`, `BambuAdapter`, `BambuddyAdapter` |
| `link[a].sock` | the attempt `connect()` awaits (`"opening"`), one past its hard timeout (`"late"`), one the adapter makes by itself (`"reopening"`), an open socket, one being ended |
| `link[a].heal`, `told` | `reconnectTimer`, `destroyed` |
| `link[a].client` | `BambuAdapter.client`, set once the subscription is acknowledged |
| `link[a].reported` | `getStatus()` is not `null` |
| `row`, `mode` | the row of `printers`; the class `createAdapter` takes for it |
| `current`, `timer`, `count`, `aged` | `adapters`, `retryTimers`, `retryCounts`, `adapterStartedAt` against `ADAPTER_ROTATE_MS` |
| `call` | where each call of the manager is suspended: in the `disconnect` of the old adapter, in `connect`, in the `disconnect` of `stopAdapter`; and what its caller does next |
| `waiting` | calls of `reconnectWithResult` subscribed to the bus |
| `gaveUp` | history: the limit of retries was passed since the last start |

`Register`, `Patch`, `Reconnect`, `Disconnect`, `Delete` are the routes of `routes/printers.ts` up to
their first `await`; `RetryFires`, `Ages` and `Rotate` the manager's timers; `Opens`, `Fails`,
`MintFails`, `TimesOut`, `Drops`, `Heals`, `Closed`, `Ended`, `Reports` what a printer, the network or
an adapter's own timer does, each together with the continuation of the call it resumes.
`disconnect()` of the web socket adapters awaits nothing, so `StartAdapter` and `StopAdapter` go on in
the same step; Bambu's awaits `endAsync`, and `Ended` is the rest.

Left out: the length of the retry delay, `networkFailures` (logged only), `createAdapter` throwing on
a secret that cannot be decrypted, what a status contains (`PrinterStatus`), heartbeats (a watchdog that fires is a
`Drops`), commands and uploads.

### GcodeFiles and PrintDispatch

The requests that send a job's gcode work in the job's own output directory, under names that depend
on the source file only.  A file name is modelled by how it was derived (`<<"mapped", "flags">>` for
`.x.gcode.mapped.snorcal.gcode`) and a text by whose gcode it is and what was done to it.

| Variable | Code |
|---|---|
| `there`, `file` | the output directories and `<jobs>/uploads/<stageId>`; for each file the texts written by the streams open together, and who still writes |
| `archive` | uploads that are `.gcode.3mf`, with their `__extracted.gcode` |
| `req` | a handler suspended in `rewriteGcodeToolMapping` or `injectPauses` (`"rewriting"`, with its two streams), in the FTP login (`"connecting"`), in `uploadFile` (`"uploading"`), in `startPrint` (`"starting"`); `path` and `temps` are `uploadPath` and `tempPaths` |
| `disturbed`, `litter` | history: requests another one got in the way of; temporary files left by a restart or a late stream |

`Send`, `SendFile`, `StageFile`, `SavePauses` and `RemoveOutput` are the handlers up to their first
`await`; `InputOpens` … `RewriteEnds` the streams of a rewriting, in any order; `FtpBegins` …
`SendEnds` the transfer.  Flags (`prepareKlipperGcode`) are prepended synchronously, so `Prepare` is
part of the step before the upload, and so is reading the file, except for a direct Bambu printer,
which opens it after its login.  `FindGcode` is `findGcodeFile`: the first entry of `readdirSync`,
and hidden files come first.

Left out: the content of mappings (`FilamentMapping`) and flags, one job per directory in subdirectories, the plate of
`send-file` (a Klipper printer gets plate 1 whatever is asked, printers.ts:792), wrapping gcode for
Bambuddy, commands the printer is given otherwise, a print started by somebody else.

### ModelArchive, ProjectSettings, SliceInput

An upload is a record of the XML elements the parser reads: objects with faces or components,
build items with transforms, `model_settings.config`, `project_settings.config`.  A *face* stands for
its three vertices and is one point; rotations are quarter turns; the 3MF that is built counts lengths in
halves of the upload's unit (`Twice`), so that the middle of a box is exact and floating point does not
enter.  A colour is one channel, since the code treats R, G and B alike.  `Register3MFModel` makes of it what the rows store (plates, parts,
cutters, colours), `SliceBody` is what the client sends, `Build` and its parts are
`buildSliceInput3MF` and `build3MF`: which mesh an entry means, scale and mirror, rotation, Y-up to
Z-up, centring, the offset that children inherit, the merge of parts, and the paint code of each
face.  The children a request may hold are one list after the other (`Flatten`), and what the code
takes by a filter is `Only`; both are defined without `RECURSIVE` operators, to be proved about.  What a
file that can be read consists of is `IsArchive`: lists of elements, and numbers in vertices and
matrices.  The 3MF that comes out is an archive of the same shape, so that `PaintKept` and
`AssemblyIntact` can read it back.

What an upload is *painted* with is read off its codes and not off the parser: `Strokes` walks the
printable meshes of a plate in the order of the file and takes each code for the filament that the
format gives it (`Decoded`, the bitstream of `docs/slicer-color.md`), in a mesh with multiples of 4
only, and for a filament's number in any other mesh, as the comment of `extractPaintColors` has it.
`PaintKept` compares these with the 3MF that comes out: parser, rows, request, merge and encoder lie
between.  It counts the codes the parser reads right (`InRange`: one digit, or numbers of one byte);
`PaintDecoded` is the same without that bound and does not hold (section 4).  A face without a stroke has
the colour the parser gives it, of its object, part or colour group.

`ProjectSettings` is the fixed order in which template, uploaded settings, profiles, second
filament (with the support filaments of the request and the volumes to flush), slots, the user's process settings and the clean-up for the slicer are laid over one
object.  A settings object maps keys to scalars or lists; the classes of keys the code tells apart by
prefix, suffix or name are constants.

Left out: STL and STEP input (their faces come in as they are), thumbnails, merging of cutters of
several entries of one model beyond what a request of the client contains, templates of single
printers.

### Painting

One face stands for all, and its colour is the number of the stroke that painted it.  `paint` is the
geometry in `meshRefs`, `colours` is `faceColors` of the scene, `blobs` the rows; `reads` are
`getModelColors` under way, `saves` what each press of a button still has to send.  `Press` is
`saveAllColors`, `PutReaches` … `PutLost` are its requests with `apiFetch`'s repetitions, `Saved` is
the slice that was waiting for them.

### Editor

`plates`, `active`, `models`, `selected`, `undo`, `redo` are App.tsx's state of the same meaning;
`saved` is the copy in `localStorage`; `pending` the uploads, cuts and volumes under way with *what
their handlers captured*; `uploadScope` and `cutLen` what the memoised handlers see.  React renders
after every action, so a handler that is not memoised sees the current state, and one that awaits an
answer sees the state of the render that made it.  `Scopes` makes the memoised handlers anew when what they depend
on has changed, or the page.  `uploading` disables the uploader, but neither the drop zone of an
empty scene nor a MakerWorld import (`StartImport`), so uploads do overlap.  `SlicePlate` slices the
models of any plate they name, also of one that is gone from the tabs.  `pose` stands for rotation, offset, scale and mirror.

### FilamentMapping

A gcode file is a short sequence of lines (tool change, extrusion, layer, a line with a tool of its
own), with or without a last newline, read in chunks that end after any line or in the middle of
one.  `ScanChunk`, `MapChunk` and `PauseChunk` are the stream handlers, `Choose`, `StatusArrives` and
`Submit` the dialog.  A slot has a unit, a tray and a colour.  `injectPauses` writes lines with the
pauses that were due before them, and an empty line for a chunk without a newline; the text of a
pause is left out.  `PrintsFromMappedSlot` speaks of
extrusions by their number in the file, because the rewriter may add blank lines, and on a printer that
gets a rewritten file only of those after a tool change: the rewriter has nothing to change before.

### ModelLibrary, ProfileStore, ProfilePicker

`ModelLibrary`: `rows` beside `disk`; a request is suspended at the parse of each plate, an import also
at the download.  `InsertFails` and the crashes are the faults the code can meet between two
statements.  `ProfileStore`: one action per statement of the migration, because each commits by
itself; `mine` is history, what the user last stored under a key.  `ProfilePicker`: `selected` and
`slot` are what the panel was given, `dirty` that a render is due, and the effects run in their order
in that render; lists, deletions and an *apply embedded settings* answer at any time.

### PrinterStatus, PrintQueue, PrinterDesk

A field of a report is a version number.  `kept` is what the adapter merged (`objects`,
`lastReport`, `cachedAms`), `inbox` the reports the socket has accepted, `chains` the chains of ticks of
Moonraker's filament poll.  A link may be `"half"` open: silent, until the watchdog or MQTT's
keep-alive ends it.  `PrintQueue` has rows and items of `print_queue`, what each page lists, and
each press of a button as a call that moves through its requests; a send whose request is lost
goes on at the server (`strays`) while apiFetch makes the next one, so two sends of one call may be under
way at once.

That `startPrint` resolves does not mean that a print starts.  `MoonrakerAdapter` does not look at
the answer (`moonraker-adapter.ts:452`), `BambuAdapter` only publishes, which does nothing without
a client and waits while MQTT is offline (`bambu-adapter.ts:196`); the route answers ok
(`printers.ts:694`) and the page takes the item off the queue.  Only `BambuddyAdapter` reads the
answers.  So `handed` (uploaded, and `startPrint` resolved) and `printed` are two sets, and an item
may leave the queue with no print: `QueuedUntilSent` says `handed`, and `printed` with Bambuddy.

### Session, JobBoard, PrinterPage, WebClient

`gate` is what AuthGate shows.  `row` and `stage` are the job on the server (how they get there is
`SliceJobs`), `board` what the page shows, `list`, `polls`, `posted`, `stopping` are the answers under
way.  The server sends no event about jobs, so the board lives on polls.  `PrinterPage` has the
status the server knows, the one shown, the stream with its undelivered events, and lists asked for.

## 3. Runs

| Run | Instance | Shows |
|---|---|---|
| `slice_direct` | no Redis, two jobs of one model, one on a sidecar, one local, one restart, cleanup in every mode and age, fair | slices in flight and executors agree, a failed job leaves no directory, a cancel that reached the fetch is final, refinement of `JobLifecycle`, every sidecar slice ends, a row has its model, a cleanup leaves no directory without a row |
| `slice_redis` | Redis, both kinds of job, two restarts, fair | a finished row is idle and a completed one has its gcode, with redelivered, stalled and abandoned jobs; a job that reached Redis is worked off and its row tells the result |
| `slice_input` | seven uploads, every request that differs; a model, its cutter and a copy on another plate for painting | parts and cutters stay together, paint survives storage and encoding, models rest on the plate, the slicer gets the material of the chosen profile and nothing it crashes on; a plate is sliced with the paint it showed |
| `printers` | a printer of any class, 3 adapters, 2 calls, limit 1 | no printer is forgotten, a connect returns; with web sockets no adapter is lost and a deleted printer stays gone |
| `desk` | one job, one page, one item, up to two presses, one repetition, one change and one broken connection, three of these in all | an item stays until its start was handed over; the status comes to be the printer's |
| `dispatch` | one job, one upload, 2 requests, a Klipper and a Bambu printer, one restart | a printer gets and starts what was asked for, outside the named mix-ups; a temporary file is one some request will unlink |
| `gcode` | files of up to 7 lines, three printers | every tool is found, extrusions come from the slot shown, pauses stand in place, wherever chunks end |
| `library` | 3 models, 2 imports, one fault; 3 profiles, 3 stops; 6 profiles of two engines, 5 events | files and rows agree, an import is there once, a user's profile survives every start, nothing is selected that is not listed |
| `editor` | plain, cut and two-plate files, 4 actions of the user, history of 2 | bounded history, every model reachable, cascade, selection, late answers, plates of a file |
| `client` | one job, 2 polls under way, 2 losses; 2 changes, 2 drops, 3 lists | the board shows how a slice ended, an expired session is noticed, a gap of the stream is read over |
| `paint_codes` | the uploads and requests of `slice_input` | *violated*: a face painted with filament 4 (`1C`) is not printed with it (docs/slicer-color.md:140 and 181) |
| `sidecar_hangs` | no Redis, sidecar jobs, fair | *violated*: a slice that timed out stays `running` (slicer-executor.ts:159) |

Each property of a passing run has a *mutant* definition beside the real one ("Mutant:" in the
comments): the same operator with a plausible bug.  Putting it in place of the original must make
TLC find the property violated.

### Bounds

* Slice modules: two jobs are enough for what jobs share (the worker, the wait list, the model row);
  nothing relates three.  `MaxCrashes` 2 lets a job stall twice, one more than BullMQ's default
  `MaxStalls` = 1.  A job id is used once, as in the code.
* `printers`: two calls are the least that overlap; three adapters are the one in the map and one for
  each call that holds another.  The proofs cover every pool.  `MaxConsecutiveRetries` 1 lets a
  printer be retried once and then given up.
* `dispatch`: two requests are the least that meet; `MaxSteps` 2 bounds the names leftovers would let
  grow for ever; `MaxEvents` 1 lets a behaviour have an upload or a restart.
* `slice_input`: the uploads are one of each layout the parser tells apart; a request varies the
  edit or the settings, not both, since they meet only in the number of filaments.  For painting:
  one stroke over the paint of an earlier visit, a plate or a preview shown once, two presses, one
  repeated save; the proof covers every number of them.  `CodesFile` has the codes of filaments 1, 3
  and 4 on one object and plain numbers on another.
* `editor`: `HistoryLimit` 2 is reached and passed within 4 actions; `MaxFresh` bounds ids.
* `client`: two polls under way are the least that overtake each other; two losses let a request and its
  repetition fail.
* `desk`: one item, listed already, and two presses are a send beside a removal; `MaxEvents`
  bounds presses, repeats, changes and broken connections together: three let a send meet its own
  repetition, or a second press, on a connection that breaks.
* `library`: three models are two imports
  beside an upload; five events let an answer, an effect and a user cross.
* `CHECK_DEADLOCK FALSE`: a server whose jobs are finished, a scene whose user has no actions left and a
  file that is mapped have nothing to do.  `printers` checks for deadlock.  `Symmetry` is used
  in runs of safety properties only.

### Fairness

`Fairness` in `SliceJobs` assumes what the runtime guarantees: continuations that are due run
(`RunFair`, `AddReachesRedis`, `CancelEnds`, `KillTimerFires`), the timeout signal fires
(`SidecarTimesOut`), the worker takes jobs and reports (`Worker`, `WorkerCompleted`,
`WorkerMovesToFailed`), the first connection to a Redis that answers succeeds (`QueueConnects`).
It assumes nothing of users, of a sidecar's answer, or of a local slicer: `executeLocal` has no
timeout, so `RunEnds` and `RedisJobSettles` are about sidecar jobs that are not behind a local one.

`JobsFairness`, `PageFairness`: `setInterval` ticks, a request is answered or fails (losses are
bounded), EventSource reconnects and delivers.  Nothing is assumed of the user or of how long
a session lasts.  `StatusFairness`: timers fire, a printer that can be reached answers, a socket
delivers what it accepted, a half-open link is ended by the watchdog (`moonraker-adapter.ts:172`) or
MQTT's keep-alive (`bambu-adapter.ts:177`).

## 4. Disagreements between the code and what it says

Two have runs of their own.

* `services/slicer-executor.ts:159`, "so a hung sidecar still fails eventually".  The slice ends
  (`RunEnds`), but the message of the `TimeoutError` contains "aborted", so `runSliceDirect` takes it for
  a cancel and the row stays `running` (`sidecar_hangs`).
* `docs/slicer-color.md:140` says how `extractPaintColors` decodes ("Rightmost hex char, bits 2-3 =
  code; escape `11` + next nibble + 3"), and line 181 that it *once* decoded by
  `parseInt(pc, 16) / divisor`, which "broke for extruder 4+ (`1C` → 7, `2C` → 11).  Fixed".  The code
  still divides (`threemf-parser.ts:686`), so filaments from the fourth on are read as others
  (`paint_codes`).  The encoder writes them right, and `paintColorToExtruder` in the builder reads
  them right, but has no caller.

The others were met while modelling.  Each is in the models as the code has it, unless marked
"(read)", and the properties are stated around it.

### Slices and store

* `routes/slice.ts:1298`, "Don't overwrite that with 'failed'": holds for an aborted fetch
  (`CancelInFetchSticks`), not for a local child, whose SIGTERM becomes "Slicer exited with code …".
* A cancel before the fetch or the child exists is lost and the job ends `completed`; `discard()`
  leaves a waiting job in Redis, so it is sliced after its cancel (`WorkerStarts`).
* `slicer-executor.ts:351`, "escalate to SIGKILL after 5s": `child.killed` is true as soon as SIGTERM
  was sent, so SIGKILL never follows.
* `routes/system.ts:309`, "Refuses to delete running/queued jobs": not those that go with their model;
  "no job in the last N days" and "no job at all" are one query with N = 0 (`db/index.ts:154`).
* Deleting a model orphans the directories of its jobs; a restart without Redis leaves rows active
  for ever.
* A job that goes through Redis loses `body.models` and `printerId` (`jobs/queue.ts:113`).

### Slice input

* A list of paint codes is taken as codes or as filament numbers as a whole, so a mesh painted by number
  with filaments 4 and 8 only is read as 1 and 2 (`threemf-parser.ts:661`).
* Several build items of one object keep only the last transform; a plate without objects imports
  them all; plate numbers with gaps are counted, not listed.
* All models of a plate are sliced with the plate index of the first one (`slice.ts:905`); of two
  copies of a model only one gets the cutters and children.
* A hidden only cutter comes back by the fallback to embedded cutters; hiding all parts prints the
  merged mesh; rotating or moving a parent leaves its parts and cutters behind.
* `usedExtruders` counts RGBA bytes, so multi-material is nearly always on; parts without a colour
  are painted white.
* `mergeFilamentProfiles` turns arrays into one string and cuts lists of four to two; the filament
  types it compares with are captured after the overlays; nozzle temperatures follow the first
  changed slot only; filament names skip slots without a profile.
* `expandFilamentSlots`, `isMultiColorPaint` and `paintColorToExtruder` have no caller (read).
  An export read back by the parser has no mesh ("No meshes found", `threemf-parser.ts:67`).
* Painting: a slice or save before the stored colours were fetched, or after the fetch failed,
  overwrites stored paint with bare faces; a late `getModelColors` answer overwrites newer paint;
  `handleSaveColors` saves whatever is active, so a cutter overwrites its parent's row, which the
  comment at `App.tsx:1187` says must be avoided; only the active plate's models and the first
  visible copy are saved, failures are swallowed; paint on parts is never saved.

### Web client

* `App.tsx:929`, "Single-plate uploads land on the active UI plate as-is": `handleUpload` is memoised on
  the number of models, so an upload lands on the plate that was active when that number last changed.
* Removing a parent takes every copy with the same model id; the selection shifts by one after a
  cascade of several; deleting an inactive plate leaves indices of the selection stale; undo after a
  plate was deleted restores models on a plate that is gone; clear all is not in the history.
* A duplicated plate keeps the uids and makes up model ids the server does not know; children are
  listed under every copy of their parent; a cut removes the model at a captured index.
* The board: nothing calls `emitJobProgress`, `emitJobCompleted` or `emitJobFailed`, against
  `README.md:136` of the repository; `apiFetch` repeats a POST whose answer was lost, so a job or a print
  may be made twice; a late list takes a new job off the board, a late reply of a cancel covers
  the result.
* `api/client.ts:77` says an SSE error after a session's end leads to login: `/auth/status` is public
  and never answers 401, so only a poll does (`ExpiryNoticed`).  `PrinterDashboard` has no resync.
* The whole list `handleTogglePause` sends is that of its render, and a failure takes later
  toggles back; previews have no guard against late answers (read).

### Library

* A failed INSERT leaves a row without a directory, a crash in `DELETE` likewise; a failed STL insert leaves
  a file.  A crash between `insertModel` and `updateModelSource` leaves an import dedup never finds;
  two imports of one profile at once register it twice; dedup may return a row without files.
* A crash between `ALTER TABLE … RENAME` and the copy loses the old profiles.  `seed-profiles.ts:2` says
  "seeded … on first run": it seeds at every start, so a deleted default comes back.
* `SettingsPanel.tsx:133`, "drop selections that no longer exist … Also auto-pick first filament": the
  filament selection is neither dropped nor picked; the list of an engine that was left may arrive last;
  a late answer to a delete restores a selection; *apply embedded settings* is undone by the
  effect that clears.
* `encryptLegacySecrets` selects `id` from `app_settings`, which has none, so the stored cloud token is
  never encrypted (read).

### Printers

* `routes/printers.ts:425`, "wait for first connection event so the response reflects actual connect
  result": the first event may be the close of the socket just terminated.
* `printer-manager.ts:112`, "tear it down before creating a fresh one": `disconnect()` of a Bambu
  adapter that never connected does nothing, its MQTT client keeps trying.
* `printer-manager.ts:13`, "Cleared on success": an adapter that heals itself after a failed
  `connect()` leaves the retry armed, which tears the healthy connection down; a connect in flight
  when its printer is disconnected arms a retry that connects it again; a Bambu adapter started while
  another call awaits the end of the old one is dropped from the map.
* `clearRetry` forgets the delay that `scheduleRetry` is to double, so the backoff does not grow
  (`printer-manager.ts:210`, read); a retry whose `createAdapter` throws is not armed again (line 202).
* Moonraker: a quick reconnect starts a second chain of polls (`filamentTimer` is not nulled when it
  fires), whose answers may come out of order; a status built by a poll before the snapshot shows a
  printing printer as idle.
* Bambuddy: `startPrint` creates the queue item before the start, so a start that fails leaves it
  there; a start whose last request timed out may have printed.

### Sending

* `services/gcode-rewriter.ts:11`, "means gcode filament index i should use physical slot j": two mapped
  sends of one job write the same hidden file, and a send that starts while it exists, or after a
  restart left it there, takes it for the job's gcode; nobody calls `cleanupOldMappedGcodes`.
  The remap dialog sends by position among the filaments it lists, so the index is right only
  if those are the first ones; a status event resets the user's choices.
* A value of a Bambu slot is the tray within its unit, not of all units; `printers.ts:637`, "1-indexed
  AMS tray (0=skip)", while the client sends 0-based trays and -1; -1 leaves the tool as it is.
* The scan also counts the beginning of a number a chunk has cut, and a T argument at the start of
  what is left over; the rewriter leaves the T of M104 and M109; gcode without T lines ignores the
  mapping; `send` never uses the `.paused` file; `gcode-pauses.ts` and its comment number layer 0
  differently.
* The queue: an item goes although Moonraker refused its start or BambuAdapter published nothing
  (section 2, `PrinterDesk`); a second send enables the first button again, so an item may be printed twice; a failed
  removal leaves an item that was printed; a stale page may send an item another one removed.
* Two jobs of one model use one name on the printer, so the second upload may replace the file the first
  is about to start (`Rivals`); `send-file` gives a Klipper printer plate 1 whatever is asked
  (`printers.ts:792`, read).

## 5. Proofs

The constants are arbitrary: any jobs, models, pages, scenes, profiles, files and printers, Redis or not,
any number of restarts.  The assumptions say what the constants are.  Those that say more than a type:

* `DispatchAssumption`: a printer speaks one protocol, a stage is not an output, a garbled text is
  none that a rewriting makes.
* `PickerAssumption`: a profile, and a name embedded in a file, is not the empty selection.
* `SettingsAssumption`: the keys the builder forces, fills per slot or treats as filament indices are
  in the template, the forced ones as scalars; the support filaments are such indices; the sets of keys the code treats differently do not
  overlap, as in `default-project-settings.json` and the constants of `profile-resolver.ts`.
* `ArchivesAssumption`, `VolumeAssumption`, `RequestsAssumption`: a file has lists of elements with numbers
  in them, whatever they are; the build volume, turns, offsets and scales are numbers; slots are a list.
* `EditorAssumption`: a file has a plate, and its children are parts or negatives.
* `LibraryAssumption`: what a design downloads is an archive.
* `FilesAssumption`: a file whose last line has no newline has a line.  `PrintersAssumption`: trays,
  slots and colours are fewer than 1000, so that a slot is not taken for a macro of the printer (`T1000`).

What is proved, by module:

* `TypeCorrect`: `TypeOK` of `SliceJobs` always holds, one case per action.
* `SliceInvariant`: none of the four invariants of slice jobs is inductive alone.  That a
  finished job is idle depends on who may report a result: in Redis mode the report comes later, so
  the proof needs that the active job with an outcome runs no slice and that a queued, stalled or
  unsubmitted job runs none (`OnlyActiveRuns`), which needs that a job has one place in Redis
  (`OnePlace`).  That a failed job has no directory needs the promise made when the failure was still
  on its way (`PendingFailureLeavesNoDir`).  `AbortedMeansCancelled` ties an abort to the row the route
  wrote, `NoQueueWithoutRedis` separates the two modes, `JobHasModel` is the foreign key.
  `ExecutorsTrackedAlways`, `FinishedMeansIdleAlways`, `FailedLeavesNoDirAlways` and
  `CompletedHasGcodeAlways` are corollaries.
* `CancelInFetchSticksAlways`: from the invariant, by the moves each action can make on a row
  (`RowMoves`, `RowsLeave`, `QuietSteps`).
* `ImplementsLifecycle`: without Redis, `Spec => LifecycleSpec`; each step changes the abstract
  state by one `Move`, by a `Remove`, or not at all.
* `StorageInvariant`, `RowHasModelAlways`, `CleanupLeavesNoOrphanDirAlways`: a cleanup only removes rows
  and directories of jobs that run no slice any more or lets their slices go on without a row
  (`CleanupEffect`), which every conjunct of the invariant survives (`CleanupKeepsInv`).
* `PrinterInvariant`: `LinkInv` is what an adapter's fields say of each other (told means no timer, a
  timer means no socket).  `Core` ties calls to adapters: a call that awaits `connect` has an adapter of
  its own that is still opening.  `WebPart` holds when no adapter is Bambu's: no call is suspended in a
  `disconnect`, orphans are told, a deleted printer has no adapter.  None is inductive alone: that a
  call's attempt is its own needs that a fresh adapter is one nobody holds, which needs that
  collected adapters have no socket and no timer.  `OrphansAreToldAlways`, `DeletedStaysGoneAlways`,
  `ConnectReturnsAlways`, `ToldNeverHealsAlways`, `AnswerComesAlways` and `PrinterTypes` follow.
* `StoreInvariant`, `ProfilesKeptAlways`: between the statements of the migration the user's profiles
  are in the old table or in the new one, and which of the two is what the schema says.
* `QueueInvariant`, `QueuedUntilSentAlways`: `Honest` says what a call has behind it at each stage: a
  send about to remove its item has had its start handed over (with Bambuddy: the print started), any
  other removal was asked for.  What is handed over stays so (`Grows`), whatever the printer does.
* `ModelsInvariant`, `DiskMatchesRowsAlways`, `ImportedOnceAlways`: a directory belongs to its request
  until the row is written and to the row from then on (`Filling`, `OwnRows`); the ids are all older than
  `nextId`, so a new directory is in nobody's way (`IdsTaken`).  That an address is imported once when
  no request for it overlaps another needs that such a request, told that it is alone, has no rival at
  any later stage (`Rivals`).
* `SelectionListedAlways`: the panel's effects run after the render in which their dependencies
  changed.  `PickerInv` keeps what the clearing effect last saw: if no effect is due, that is the present
  list, and then the selection is in it.
* `NoForgottenPrinterAlways`: for adapters of every class.  `LiveInv` adds to the above that an attempt
  that opens is awaited by a call, and that the adapter in the map, when it can do nothing by
  itself, has a retry armed or a call at work on it, also while calls are in progress.
* `DispatchInvariant`, `TempHasOwnerAlways`, `AsRequestedAlways`: of a request nobody got in the way of,
  the text at each stage is the file it asked for with exactly the steps it asked for so far (`ClearInv`);
  that needs that a file that is being written has a request that writes it (`WritersInv`) and that the
  files of a place only grow by the names requests derive (`PlacesInv`).
* `ScanInvariant`, `ScanCompleteAlways`: wherever chunks end, the tools of the lines read so far are
  known, and what else is known is the beginning of a number or a heater's T (`FoundUpTo`, `Noise`).
* `MapInvariant`, `PrintsFromMappedSlotAlways`: between the file and what has been written of it there
  is an increasing map of lines (`Follows`) that misses blank lines only.  Such a map keeps the number of
  an extrusion (`FollowsUpTo`) and the last tool change before it (`ToolFollows`); that the slot
  written there is still the one chosen is `SentAsMapped`.
* `PausesInPlaceAlways`: what has been written is the lines read, with empty lines between them
  (`Spread`), and one more chunk only adds to it (`SpreadMore`); the layer count at the end of a chunk is that of the lines read in all
  (`PausedUpTo`), because counting a chunk adds what it counts alone (`NumberAdds`), and a layer that
  comes is one whose pauses are still on the list (`NumberRises`).
* `BuildInvariant`, `SlotMaterialAlways`, `SlicerAcceptsAlways`: the settings of the project file, for
  any template, profiles and request.  Each step of `buildProjectSettings` keeps `Laid`: a list is
  no shorter than the template's, and a filament index comes from a source.  The clean-up at the end
  does what is promised to any settings with `Laid`.
* `InputAlways`, `RestsOnPlateAlways`, `AssemblyIntactAlways`, `PaintKeptAlways`: from the file to the 3MF, for
  any archive, edit, build volume and slots.  `InputInv` says that what is stored was parsed of the upload,
  what is sent was made of what is stored, and what is built was made of both.  It is inductive
  as it stands; what the three properties need beyond it is what the functions between the two files
  make of *any* input, one lemma per function.  A parse has as many colours as faces, and its mesh is
  its parts one after the other (`Merged`, `ArchiveParsed`); a request is the model, its cutters and its parts in
  order (`BodySent`); of these come the meshes (`ModelsBuilt`), by part or as one, and of the meshes
  objects whose faces are all moved by one vector (`ObjectsMade`).  `FlattenAlike` carries a fact
  about two lists of lists (faces and source faces, faces and colours) to the joined lists; joining is
  recursive, and the lemma is proved by induction over a *set* of lengths (`Induction`), which needs no
  operator as parameter.  That the code of a filament is read back as its number is `DecodedPaint`, that
  the filament is the first of its colour needs that the slots' colours are a list
  after every step of `buildProjectSettings` (`ColoursListed`).  `PaintKept` is about the archive's
  own codes, so it also needs that the parser finds the meshes that `Strokes` walks, in that order, and
  that a code in range is read as its filament (`StrokesParsed`); what holds of the parser's colours
  then holds of the strokes (`StrokesKept`, `PaintIntended`).
* `PaintInvariant`, `SlicedAsPaintedAlways`: of a press that waits for its saves alone, every save the
  server has taken is still in its row (`Taken`), because the saves of a press are for different rows
  (`OwnRows`) and presses that overlap are both marked (`OverlapsMarked`).
* `HistoryBoundedAlways`: the redo stack has no limit of its own; that the *sum* of the two is bounded
  is inductive, a bound of each is not.
* `EditInvariant`: an edit looks at the present models, but undo, redo and a new page replace them all,
  so the invariant speaks of every scene that may come back (`Scenes`).  In each of them (`Sound`) no
  instance is there twice, what has the id of a model hangs from that id alone, a model that knows it
  is from a multi-plate file knows its plate of it, and every id is older than the next one; and no
  answer on its way brings an id one of these scenes has (`Awaited`, `Brought`), else a late answer
  could pass for a model that is there.  From it: `AllListedAlways`, `SlicesOwnPlateAlways`, and the
  action properties `LateAnswersKeepWorkAlways`, `NoOrphanLeftAlways` and `SelectionFollowsAlways`.
  The last two rest on a classification of edits (`Edits`): a step on the present plates leaves the
  models alike, adds a copy, or removes a model with what hangs from it.  `SelectionFollows` also needs
  what a filter does to indices (`SubModels`, `OneGone`), which is why `Editor` defines `Sub` by ranks
  (see the end of this section).

Two proofs showed what TLC's instances had not.  `PrintsFromMappedSlot` once asked for a tool change
anywhere in the file; the proof failed for an extrusion *before* the first one, which a rewritten file
prints from tool 0 whatever was chosen, so it now asks for one before the extrusion, and the instance
has such a file.  `SlicerAccepts` had to name two cases the code lets
through: the clean-up turns `"-1"` into `"0"` for every index key, but the slicer wants at least 1 for
`*_filament` keys; and a profile that has a scalar where the template has a list replaces the list.

Model-checked only:

* liveness (`RunEnds`, `RedisJobSettles`, `FinishedShown`, `ExpiryNoticed`, `GapIsRead`,
  `StatusCatchesUp`), which is out of the prover's reach, and `LifecycleSpec` with Redis.

Every invariant the runs check is proved.  What a recursive *operator* of the libraries computes cannot
be: the models that are proved about therefore avoid `SelectSeq` and `FlattenSeq` where a proof
depends on the result.  `Editor!Sub` takes the models at some indices by counting, `FilamentMapping` numbers
lines by counting, its paused file is a sequence of lines with their pauses, and `Flatten` is a recursive
function over lengths.

## 6. Not modelled

* Geometry beyond placement: triangulation, cuts, STL and STEP reading, measuring, cameras and
  rendering in the client.
* `routes/inventory.ts`: storage routes of single rows.
* Secrets at rest (`secret-crypto.ts`): cryptography.  Outgoing requests (`ssrf.ts`) and printer
  discovery (`ssdp-discovery.ts`): pure checks and network probes.
* Commands, cameras and timelapses of printers; uploads over FTP and HTTP beyond when they
  fail; Bambuddy's token refresh; the wrapping of gcode into 3MF (`gcode-utils.ts`).
* Key-value settings, updates and probes of slicers (`routes/system.ts`): reads, or shell commands.
* Job progress and estimates (`analyzeGcodeTime`, `parseSlicerEstimatedTime`), which no guard reads.
* That the adapter is looked up again between upload and start (`printers.ts:689`): dispatch and
  manager are not composed.
* Installation scripts and container files.
