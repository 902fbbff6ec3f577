# Verification of the CrossLayerX backend

CrossLayerX ("industry-path") is an engineering workbench for process plants: a
FastAPI backend (`src/backend`) ingests P&IDs, narratives and tag tables, builds
a plant graph, generates and validates Structured Text, deploys it to a soft PLC,
simulates and monitors it, and serves live plant data through connectors; a React
frontend (`src/frontend`) is its client.  This directory holds TLA+ models of the
parts of the backend whose correctness depends on the order of events, the TLC
configurations that check them on small instances, and TLAPS proofs of the
properties that matter most.

How to run: `tlc -config <run>.cfg <module>` for a run of the table below,
`tlapm <module>` for a proof module.

## Execution model of the backend

* Routes are plain functions: FastAPI runs each request in a thread pool, so any
  two requests interleave.  There is one process.
* `db/postgres.py` opens a connection per statement (`execute`, `fetch_one`,
  `fetch_all`) and commits it: one statement is one atomic step, unless a method
  opens `connection()` itself; isolation is read committed.
* In-memory services are module singletons; some guard their state with a lock,
  some do not; none survives a restart.
* Background threads: one per running plant-data connector, the evaluator and
  telemetry of the runtime engine, the PLC runtime as a child process.

## Inventory

For each component: state, operations, what is hard, what makes it correct.

| component | state | operations | hard part | correct when |
|---|---|---|---|---|
| **Plant-data connectors** (`services/plant_genie_plant_data_runtime.py`, `services/plant_genie_plant_data_service.py`, routes in `api/plant_genie_api.py`) | table `plant_genie_plant_data_connectors`; `_workers`, `_connector_meta`, `_samples`; worker threads | create, update, delete, enable, disable, test; worker cycle; start-up | requests interleave with each other and with threads that outlive their `join`; statements fail; restart | no thread is lost or doubled, enabled connectors are served, stopped ones leave nothing |
| **Runtime engine: deploy and process control** (`runtime_engine/runtime_manager.py`, `beremiz_adapter.py`, `services/runtime_deployment_store.py`, `api/routes/runtime.py`, `services/export_engine`) | active project, process handle, build directory per project, row per project | deploy (create, compile, generate, build, apply, start), start, stop, restart, state, export handoff | no lock: concurrent deploys share directories and the handle; SIGTERM is not waited for; failed deploys change the active project | one PLC process, running what was deployed; the reported state is the real one |
| **Runtime engine: signals and evaluator** (`runtime_signal_state.py`, `runtime_evaluator.py`, `runtime_telemetry.py`) | values, forces, catalog per project; last cycle | force, clear, evaluate, sync | a cycle works on a snapshot and writes it back whole | derived tags and alarms agree with what they derive from; a forced input keeps its value; the behaviour layer is given what is current |
| **Versions** (`services/version_manager.py`, `versioning_trigger_service.py`, `api/routes/versions.py`) | table `version_records`, snapshot directories, Git repository (work tree, index, HEAD, tags), workspace | commit, deployment tag, rollback, compare | no lock; tags are chosen from the table and the directories; six stores change in steps of their own; a step fails or the backend dies | a recorded version is complete and final, rollback restores what the version holds |
| **Document pipeline** (`services/parse_service.py`, `graph_service.py`, `control_logic_service.py`) | batches, jobs and their rows; `latest_graph.json` and Neo4j | parse: insert, build, store graph, store rows, complete | statements commit one by one; two parses run beside each other; Neo4j may not answer; the process dies | what readers are given is of one parse; completed means whole |
| **Graph validation** (`services/graph_validation_service.py`) | none | validate a list of relationships | filters, duplicates and a limit that depend on order | no duplicates, nothing strong lost, stable |
| **P&ID reconciliation** (`services/pid_reconciliation_service.py`, `api/routes/pid.py`) | summary and proposal files; the plant graph, in a file and in Neo4j | reconcile, apply | two files that are written and read one after the other; the graph is stored statement by statement, and a failure is swallowed; it moves on between the two requests; spellings | conflicts are applied only when allowed, no device is lost, applying settles |
| **Logic runs** (`services/control_logic_service.py`, `control_loop_store.py`, `st_generator.py` as a writer of files) | control loops, ST files, runs, rules | generate, detect | files and rows replaced one by one, validation may refuse, two requests | the newest run, its loops, rules and files are of one design |
| **IO mapping** (`services/io_mapping_engine.py`) | versions and rows, two files | collect signals, assign channels, save, activate | every statement on its own; slots that fill up | one active version, the file is the one served, no channel twice |
| **OpenPLC deployer** (`services/runtime_deployer.py`) | none of its own; the remote PLC | upload, compile, verify, send IO, start | the PLC is shared and verified by a name on a page | success is reported only for the program that runs |
| **Access control** (`services/access_control_service.py`, `api/routes/access_control.py`) | users and teams in one dictionary, a file | register, check out, invite, remove, set role | two tables changed apart; the file is truncated and written, and may be unreadable | whoever is in a team is on its list, so is its owner |
| **AI connectors** (`services/plant_genie_connector_service.py`) | table with an active flag | create, activate, delete | reads before transactions, a unique index | exactly one active while there is one |
| **Behaviour engine and live table** (`services/deterministic_behavior_service.py`, `behavior_loader_patch.py`, `api/deterministic_behavior_api.py`, `EngineeringDeterministicTable.tsx`) | rows of one project, snapshot ids, clients | load, update, broadcast, connect, fetch | notifications leave the lock, so messages of two requests cross; the active project is set and tested apart from the rows; a client fetches and listens at once | rows belong to the active project, a page catches up |
| **Behaviour engine: chains and explanations** (the same service, `why_*.py`) | edges, cards, a cache of explanations | load rows, patch, propagate, explain | only rows near a change are computed again; two walks of two graphs; a cache key that leaves things out | shortcuts say what the whole computation says |
| **Unified namespace** (`services/uns_core.py`, `api/system_layer.py`, `SystemControlLayer.tsx`) | rows, revision, listeners, websockets, the page's copy | load, update, subscribe, refresh, query | announcements leave the lock; snapshots, deltas, a refresh and the rows of a query reach the page in any order | the page ends with the rows |
| **Control loops** (`services/control_loop_engine.py`, `control_loop_store.py`, `graph_service.py`; `strict_control_loop_engine.py`, `cross_validation_service.py`, `validation_control_loop_layer.py`) | a table of loops | detect in either store; find, judge and tune those of a parse | the same loops computed by several pieces of code over different data | they agree, and the best loop for a key is the one shown |
| **Final validation** (`final_validation_service.py`, with `engineering_table_parser.py` and `parser_relationship_graph_service.py`) | none | resolve contradictions, build rows, check rows and loops, twice | rows, relationships and loops are kept for each other's sake | what is served needs nothing that is not |
| **Generated scan** (`services/st_generator.py`, `logic_completion_engine.py`, `st_codegen_utils.py`) | the memory of the generated program: plant state, sequence steps, commands, outputs | one scan: state machine, interlocks, sequences, equipment, loops, alarms | who writes a command last in a scan; values that are read one scan late; latches that are never reset | nothing starts by itself, faults stop the plant, start and stop reach their ends |
| **Simulation** (`services/simulation_service.py`, `simulation_live_service.py`, `simulation/trace_engine.py`) | in-memory run per project, trace | start, step, stop, capture | shared state | traces are of one moment (in `SignalState`) |
| **Projects, uploads, views** (`services/project_service.py`, `upload_service.py`, `versioned_views.py`) | tables and workspace directories | CRUD | directory and row in two steps | row and directory agree |
| **Rate limit, audit, security** (`core/*.py`) | counters in Redis or memory | count, expire | fallback when Redis fails | a client is never blocked for ever |
| **Document parsers** (`engineering_table_parser.build`, `*_extraction_service.py`, `document_*`) | none (pure) | parse, extract, normalise | text heuristics | agrees with its tests |
| **SQL connection pools** (`services/plant_genie_sql_service.py`) | a registry of pools; idle connections, a count and a lock per pool | acquire, connect, ping, release, discard, close | a connection is made under the lock; a pool is closed under those who use it; failures lose slots | a connection is lent once, an open pool accounts for its slots |
| **Connector configuration** (`plant_genie_plant_data_service.py` and the services of each type) | the row's configuration | validate and fill in, on a save and again at each use | two validations with defaults of their own; older spellings of fields | saving what was loaded changes nothing, the services read what was saved |
| **Readings** (`plant_genie_modbus_service.py`, `plant_genie_sql_service.py`) | none | build windows, cut, decode; rows to samples | windows of several mappings; which row of a tag comes last | a tag gets the value it would get alone, of the row that is meant |
| **Export engine** (`services/export_engine/*`) | export directories | readiness, package, handoff | formatting | package complete |
| **Frontend** (`src/frontend`) | client state | UI | presentation; two pages are in the models above | - |

## Plan

The order was: (1) live data connectors, (2) control of the PLC process, (3) forces and
the evaluation cycle, (4) versions and rollback, (5) the way from documents to a PLC
(parse, logic, reconciliation, IO mapping, deployment), (6) what users share (teams, AI
connectors, the live table), (7) what is computed of a plant and shown (chains, loops,
the namespace's page), (8) the program that is generated, scan by scan.  All eight are
modelled.  For each: one module per component, one MC module for the components that
stand on the same data, a run per distinct question, then a proof module for the
invariants that matter most.  What a further development would take up next: the
validator of generated ST text, the behaviour layer's propagation of values, and the
rate limiter; see "Not modelled".

Runs put several components into one instance when they share nothing but a
`SPECIFICATION`: a variable `area` (or `part`) is chosen at the start, and a behaviour
moves only what belongs to it, while the rest keeps its initial state.  The state space
of such a run is the sum of its areas, not their product, and each area is a complete
instance of its module.  In `pipeline.cfg` and `workbench.cfg` a model value may
stand for a parse in one area and for a generator in another; symmetry permutes it in
all of them at once, which is sound because each area is symmetric in its own set.

## Modules

### ConnectorRuntime, WorkerSlots, MCConnectorRuntime, ConnectorRuntimeProofs

`ConnectorRuntime` models the table row of each connector (`row`), the three
dictionaries of `PlantGeniePlantDataRuntime` (`registry` for `_workers`, `meta`
and `samples` for the key sets of the other two), every worker thread (`worker`)
and every API thread (`req`, its place in the handler and its locals), and the
start-up hook (`phase`, `boot`).  Each database statement and each block under
the lock is one action; `stop_connector` is therefore `PopWorker`, `Signal`,
`Join`, `Purge`, `MarkStopped`, and any other thread may act between them.
`create` is a `SELECT` and an `INSERT` under read committed, so two steps;
`enable` and `activate`, `disable` and `deactivate` are the same handlers.  A
worker is one cycle (test `stop_event`, fetch, record samples, report); the
callbacks of the MQTT client and of the OPC UA subscription run inside the fetch
step, and `KeepQuiet` is a second in which nothing happened to a subscription.
The start-up hook first runs the schema backfill, which enables the only
connector of a user (`BootMigrate`), then reads the enabled rows, then starts them.

Abstractions: one user; a configuration is one opaque value (type, interval,
config, secrets); `healthy`, `last_error`, `last_update`, the connection test,
the mirror into the UNS and the time series are left out, nothing reads them
back; thread objects are reused when nothing refers to them (`Spare`).

`WorkerSlots` is what the runtime promises about threads: a slot per connector,
given only to a new thread and only when its owner has ended.  `ImplementsSlots`
states that every behaviour of `ConnectorRuntime` is one of `WorkerSlots` with
`_workers` as the slots.

Bounds and why they are enough: two concurrent requests show every race between
two handlers; three threads are an old one that outlived its join, the current
one and one more; one connector suffices for races because handlers of different
connectors share only the existence test of `create`, and two connectors are in
the serial part.  An API thread whose statement raised is `failed` until the next
restart, so it fails once between two restarts; the other one goes on.  Three fault constants say what a run allows: `JoinMayTimeOut`,
`DbMayFail`, `MayCrash`.

| run | shows |
|---|---|
| `connector_races` | two parts. Two concurrent requests that race for one connector and one configuration with join timeouts, statements that raise and restarts: `NoOrphanWorker`, `EnabledIsServed`, and the refinement `ImplementsSlots`. Two connectors and two configurations, one request at a time, joins that do not time out, restarts: `SerialRestIsClean`, that is `RegistryAgreesWithTable` (the registry and the configurations agree with the table at rest) and `StoppedLeavesNothing` (a stopped connector leaves no thread, sample or flag) |
| `connector_live` | one connector, one request at a time, joins that may time out, no crash, no failed statement, under fairness: `WorkSettles`, that is `RequestsFinish`, `StoppedWorkersEnd` and `RunningIsRepaired` |

What the code does not give, found while modelling (each a hazard in
`PROJECT.json`): with two requests at a time `enabled`, the registry and the
configuration may disagree for good (a disable that overlaps an enable, two
overlapping updates); after a join timeout a disabled connector's samples come
back; the late write of an old thread shows a new one as stopped, and a
subscription on which nothing happens never corrects it; the only connector of a
user is enabled again at every restart.

Fairness: the operating system schedules every thread (weak fairness of `Serve`,
`Work`, `Boot`); a fetch ends, because it returns a finite list, its driver times
out, or the subscription loop turns once a second (strong fairness of `EndFetch`);
a thread can always be created (strong fairness of `Start`, which only the bound
on threads ever blocks).  Clients and crashes are not fair.  One kind of connector is
outside this: a SQL connector whose pool lost its slots waits for a connection in vain
(see `SqlPool`), and its fetch does not end.

Proved (`ConnectorRuntimeProofs`), for any sets of connectors, requests, threads
and configurations:

* with every fault allowed, `TypeCorrect`, `NoWorkerIsOrphaned` and `OneThreadGoesOn`.  The
  typing is inductive only with the placement of threads (`RequestsOK`, `WorkersOK`: a
  request at work has a connector and holds a thread exactly while it signals and joins
  it).  `NoOrphanWorker` needs `RegistryInv`: a registered thread is its connector's own,
  was not told to stop and is held by no request, and no two requests hold the same
  thread.  Most steps are covered by one lemma (`KeepsRegistry`): they leave the registry
  alone, start, stop and end no thread and take none in hand.
* with every fault allowed, `EnabledAreServed`, from `ServedInv`: an enabled connector has
  a registered thread or a request that is at work or failed on it, or, while the backend
  starts, is due to be started.
* `RuntimeImplementsSlots`, the refinement: initial states map to initial states, and every
  step is one of `WorkerSlots` or leaves the slots (one lemma for each part of `Next`).
* `SerialRest`, that is `SerialRestIsClean` of `MCSpec`, the specification the run checks,
  for any number of requests that come one at a time, crashes allowed: the others are blank
  while one is at work (`Alone`), a live thread that was told to stop is held by the request
  that joins it (`HoldInv`), and each stage of a handler has cleared away what it has cleared
  away (`RestInv`).  The step lemmas are about `InTurn`, the steps in which no other request
  is at work and no join times out; `MCNext` takes only such steps in its serial part.

Only model-checked: liveness (`WorkSettles`), which is out of the prover's reach.  `TypeOK` is
proved instead of run.

### RuntimeControl, MCRuntimeControl, RuntimeControlProofs

`RuntimeControl` models `RuntimeManager.deploy`, `start`, `stop`, `restart` with the
calls they make on `BeremizAdapter`, the rows the routes under `/runtime` write, and
the export handoff that deploys.  Nothing in this code takes a lock.

| variable | in the code |
|---|---|
| `source` | the ST files of the project's workspace; `bundled` says that `main.st` holds a bundle of them |
| `export` | whether the project has an export package, which is all a handoff asks of it |
| `dir` | the build directory: `files` and `bundle` (what `main.st` holds if it is a bundle) as copied, `gen` the C that iec2c made, `stub` the `main.c` template, `bin` the binary |
| `activeId`, `activeDir` | `_active_project_id`, `_active_project_dir`, two assignments of `deploy` |
| `handle`, `process` | `_runtime_process`, and every process ever spawned: it runs, was told to terminate, or ended |
| `store` | table `runtime_deployments` (deploy status and validation status) |
| `outcome` | history: the answer of each project's last deploy and the ST it took |
| `req` | each API thread: its place in the handler and its locals |

A deploy is `Deploy`, `Prepare`, `SetActiveId`, `SetActiveDir`, `ClearGenerated`,
`CompileSt`, `GenerateC`, `MakeClean`, `Make`, `ApplyIo`, `StopBeforeStart`, `Spawn`,
`RecordDeploy`: one action per step that other threads can see, each with its
failure.  `Start` and `Stop` end in `ReadRow` and `WriteRow` (the row is read and
written back whole); `Restart` writes none.  `Generate` is the engineer's next
logic generation, `End` a process that ends, `Crash` a backend that dies while its
processes, sessions of their own, go on.

Two facts of the code carry most of the behaviour.  A generation writes the bundle
into `main.st` only when its validation succeeded; a rejected one has already
replaced the ST files and leaves a plain `main.st`, and then the compiler takes
every ST file of the build directory, those of earlier deploys included.  And
`generate_c`, when it finds no generated C, moves the stub `main.c` in its place.

Abstractions: an ST text compiles or does not (`Broken`); a generation and an
export are atomic (a deploy during one is not modelled); the project id and the row
are read in one step; a process that ended between `poll` and `killpg` is the case
of one that ended just before; file writes that raise inside a step count as the
step's failure (`ToolsMayFail`) only where the code returns one; the readiness of a
handoff is that a package exists; `outcome.took` of a failed deploy is forgotten.

| run | instance | shows |
|---|---|---|
| `runtime_files` | 1 project, 1 request, 2 file names, 2 texts of which one is broken, bundled or not, tools fail | `RunsWhatWasDeployed`, `NothingBrokenRuns`, `OneProcessGoesOn`: one process drives the plant |
| `runtime_races` | two parts: 1 project, 2 concurrent requests, exports and handoffs, tools fail, crashes; and 2 projects, 1 request, tools fail | `RestartFindsAProject` in both; in the second `SerialRowsTell`, that is `OneProcessGoesOn` and `RowTellsOutcome` (the row of a project tells how its last deploy ended) |
| `runtime_live_state` | 2 projects, 1 request | `StateReflectsRuntime` is violated: a failed deploy has made its project the active one, and that project is reported as running while another's process runs |

Bounds: two processes are the one in the handle and the one that was told to
terminate and lingers; a third would be a second lingering one, which no action can
tell from the first.  Two file names are needed for a bundle that differs from what
lies in the directory, two texts for one that compiles and one that does not; two
projects for the active project to differ from the one that runs.  `Spawn` waits
when every process object is alive or in the handle: a process that was told
to terminate ends sooner or later, and no liveness is claimed here, so no fairness
is assumed.

What holds only one request at a time: with two, both may spawn and the handle
keeps one (`OneProcessGoesOn`), one deploy's C may be dropped or built by the other
(`NothingBrokenRuns`, `RunsWhatWasDeployed`), and the row of a finished deploy may
be overwritten by an older one (`RowTellsOutcome`).  Without handoffs: a handoff
deploys the workspace, not the package it copied, and writes no row.  With crashes
`OneProcessGoesOn` fails too: nothing finds the process of the backend that died.

Proved (`RuntimeControlProofs`), for any sets of projects, requests, processes,
names and texts:

* `TypeCorrect` and `RestartAlwaysFindsAProject`, for any concurrency, failure and
  crash, from `TypeInv`: types, a request at work has a project (`RequestInv`), and
  an active directory exists as soon as there is a handle or a build past its first
  steps (`DirInv`).
* `OneProcess`, assuming `Serial` (any two requests are the same one) and
  `~MayCrash`, from `OneInv`: between the stop and the spawn of a start no process
  goes on, so the new one may take the handle.  The step lemmas of this and the next
  theorems are about `InTurn`, the steps in which only one request is at work; with one
  request thread every step of a live backend is one (`SerialTurns`).
* `NoBrokenProcess`, assuming `Serial`, crashes allowed, from `SoundInv`: a binary
  is sound at all times, the generated C only from an accepted compile until the
  deploy ends: refused C does stay behind, and only the drop at the start of the
  next compile keeps it out of a build.

* `DeployedProgramRuns`, that is `RunsWhatWasDeployed`, under the same two assumptions, from
  `DeployedInv`: what each step of a deploy has left in the directory (`Delivery`), and that
  after a deploy that passed the directory still delivers what it took, as long as no other
  deploy is at work on the project.
* `RowsTellOutcomes`, that is `SerialRowsTell` of `MCSpec`, the specification the run checks,
  for any number of requests that come one at a time: `OneInv` for the process, and for the
  row `RowInv`: the row that a start or stop read and is about to write has the verdict of
  the stored one, and no request is a handoff (which would record a verdict without a row).

The proofs assume that `None` is no row (`RowAssumption`).  Every property of these runs is
proved.

### SignalState, MCSignalState, MCSignalLevels, SignalStateProofs

`SignalState` models the values behind the force panel: `RuntimeSignalState` (each
method one action, as it holds its lock), the cycle of `RuntimeEvaluator`, the routes
that force, clear and evaluate, the trace that ends each of them, the two
`sync_project` calls of a deploy, and what the behaviour layer is given.

| variable | in the code |
|---|---|
| `catalog`, `value`, `forced` | `_tag_defs`, `_current_values`, `_forced_values` of each project |
| `mapping` | the tags of the project's latest IO mapping, read by the first `ensure_project` |
| `cycle` | `RuntimeEvaluator._last_cycle`: the levels whose alarm it found active |
| `active` | `RuntimeManager._active_project_id`, which the guard reads |
| `rowsOf`, `loaded`, `shown` | the project whose rows the behaviour layer has, `BehaviorLoaderPatch._active_project_id`, and the values pushed since the load |
| `astray` | history: values or an active project that are not those of the rows, or old values of a poll, and no trace or load since |
| `tracer` | the lock of `SimulationService` |
| `req` | each API thread: its place in the handler and its locals |

A force is `Guard`, `Baseline`, `ApplyForce`, `Snapshot`, `ApplyCycle`,
`RecordCycle`, `TestChanges`, `PushChanges`, `Sample`, `TestTrace`, `PushTrace`; a clear
differs in the third, a plain cycle starts at `Snapshot`, a simulation run at `Sample`.
Any other request may act between two of them.  A push tests whether the project is the
active one (`behavior_loader_patch.py:113`) and updates the rows later (`:136`) under no
common lock, and a load replaces the rows (`LoadRows`, `:73`) before it makes the project
the active one (`LoadActive`, `:80`): a push may be let through for one project and fall
into the rows of another.  `Sync`, `Activate` and `SyncAgain` are the steps of a
deploy that touch the signals (the others are `RuntimeControl`'s); `Summary`, `TestReport` and
`Report` are a poll of the monitoring page, which pushes under no lock of its own.

A tag is a record of its kind and of what it belongs to, so that `P1_CMD`,
`P1_STATUS`, `P1_RUNNING` and `P1_FAULT` are found from each other as the code finds
them by suffix.  A value is on or off; a level is on when it is beyond a threshold,
and its several alarms are one.  The default of a level is on: 0.0 is below every
low threshold, so a level nobody set is in alarm.

Abstractions: data types and coercions (a force whose value does not fit is one of an
unknown tag: refused, nothing changes); telemetry; the trace file and the samples
before the last, which are overwritten; the fallback of a trace without values; the
text the behaviour layer shows (`True`, `1`); the routes that change its rows without
naming a project, which are in `LiveFeed`.  The
`sync_project` of a `start` is left out: on a project with a catalog it recomputes
what agrees already, which `RecomputedFixed` shows to change nothing.

| run | instance | shows |
|---|---|---|
| `signal_levels` | 2 concurrent requests, a level, its alarm, the plant fault, monitoring polls, in two areas: deploys and mappings of 1 project; loads, polls and a second project that is only loaded, polled and traced (`Others`) | `EvaluatedTagsAgree` and `BehaviourCatchesUp` when no request is at work |
| `signal_serial` | 2 projects, 1 request, a level with alarm, a pump with command, status, running and fault, monitoring polls | `DerivedTagsAgree` at all times; `InputForcesHold`: a forced input that nothing is derived into keeps its value; `DiagnosticsTellAlarms`: the diagnostics list the alarms there are |

Bounds: a lost update needs two requests and shows with two; one level and one pump
are enough because no rule relates two levels or two pumps except the plant fault,
which sums over a set; two projects where one must not disturb the other.  There is
no counter to bound.  All properties are safety, so no fairness is assumed.

What holds, and why it is not obvious: although cycles overwrite each other, each
writes a snapshot that it evaluated whole, so the last writer leaves alarms and links
that agree (`EvaluatedTagsAgree`); a cycle that wrote only what it changed would not.
The pushes of two requests may arrive in any order, but each request ends with a
trace that samples, tests and pushes under one lock, and the last of them repairs it,
also what polls and loads beside it had spoiled (`BehaviourCatchesUp`).  What holds only
one request at a time: `InputForcesHold`, `DiagnosticsTellAlarms`.

What the code does not give, found while modelling: three things stay wrong in the
behaviour layer until a trace of the active project or a load comes (`astray` excuses no
more): a push that tested the active project before another one's rows were loaded, the
older values of a monitoring poll, and two loads of which the first becomes active last.
The evaluator derives a forced
status, running or plant-fault tag again, so only inputs that nothing is derived into
keep a force; a cycle that overlaps a force writes the value of before the force back
while the tag stays listed as forced; and the first look at a project, a monitoring
poll is enough, fixes its catalog, so that tags deployed later stay unknown until the
backend restarts.

Proved (`SignalStateProofs`), for any sets of projects, requests and tags, with or
without polls: `TypeCorrect`, from `TypeInv` (types; a request at work has a project)
and `DerivedTags`, from `SignalInv`.  The latter adds `CatalogInv`: a request past its
first look at a project finds a catalog, and a project without one has no values.
Every step is then one of three (`Classified`): it leaves the signals alone, it
brings a new catalog with defaults that agree (`EnsuredOK`), or it recomputes
(`RecomputedOK`).

`EvaluatedAgree`, for any concurrency, from `EvalInv`: what a cycle is about to write back
agrees in itself, because it was evaluated whole, and a project that was evaluated once and
does not agree has such a cycle coming.  `ShownCatchesUp`, for any concurrency, with polls
and loads, from `ShownInv`: traces are one at a time (`TracesOK`), and unless something is
astray the rows are those of the active project, or of a load that is not done and nothing
was put into them (`RowsOK`), and what is shown is current or a request still owes a trace
(`ContentOK`).  `ForcesAreKept` and `DiagnosticsTell`, with one request at a time, from
`SerialInv`: the snapshot of a cycle differs from the values in nothing that is forced or
that it does not derive (`WorkIsFresh`), and alarms that changed are listed or about to be
(`ListedOrComing`).  Every property of the two runs is proved.

### VersionManager, MCVersionManager, VersionManagerProofs

`VersionManager` models `auto_commit` with the snapshot it takes, the deployment tag
that follows a successful deployment, and `rollback_to_version`, for requests that
share everything and lock nothing.  Most requests are not an engineer's: the services
that generate, simulate, deploy and validate trigger a commit when they are done.

| variable | in the code |
|---|---|
| `work` | the artifacts in the project's workspace |
| `snap` | `snapshots/<tag>`, the directory of each version |
| `repo` | `repo/snapshots/<tag>`, its copy in the work tree of the Git repository |
| `index`, `head` | the index, and the commit HEAD names; a commit is named by its tree |
| `tag`, `deploy` | the Git tags `<tag>` and `deployed_<tag>` |
| `row` | `version_records`: the commit hash and whether there is a deployment tag |
| `shared` | history: a request took the tag while another had it and no directory yet |
| `req` | each API thread: its place and its locals; `restored` is history |

A commit is `ReadHistory`, `Allocate`, `MakeDirectories`, `DropSnapshotLogic`,
`CopyLogic`, `CopyReport`, `ClearCopy`, `CopyToRepo`, `GitAdd`, `WriteTree`, `SetHead`,
`CreateTag`, `WriteMetadata`, then perhaps `CreateDeploymentTag`, `MarkDeployed`; a
rollback is `RestoreFiles`, `DropLogic`, `RestoreLogic` and then a commit.  After each
of them any other request may act, another service may write an artifact (`Edit`), or
the request ends there for good (`Stop`: the step raised, or the backend died).
`rmtree` and `copytree` are two steps, and so are the two halves of GitPython's
`index.commit`, which writes the tree of the index and later moves HEAD.

Abstractions: five artifacts are two, one per way they are kept (a tree replaced
whole; a file read from a preferred and a plain place); copying one of them is
atomic; the record under `metadata/`, the commit message, the Dolt copy of the record
and the first initialisation of the repository are left out.

| run | instance | shows |
|---|---|---|
| `versions_races` | 2 concurrent requests, 2 versions, 1 content, logic edited by others | `RecordsAreWhole`: a recorded version is the same in its directory, its copy and the commit of its Git tag; `RecordsAreFinal`: nobody writes into it again |
| `pipeline`, area "versions" | 1 request, 2 versions, 2 contents, every artifact edited by others | `CommitsHoldTheVersion`: so do the commit recorded and the deployment tag's; `RollbackBringsBack`: an undisturbed rollback records the logic of the version restored, and its report where no preferred file hides it |

Bounds: `MaxVersion` is the number of tags, and requests come as long as one is left
(`Room`).  Two versions are what two requests make, one of them may be of a request
that died; a rollback needs one to restore and one to record.  One content is enough
for the races, as a file that is missing, or only tells the status, differs from it.
All properties are safety: no fairness is assumed.

What holds, and why it is not obvious: tags are chosen from a table that knows nothing
of the versions being made, the index is everybody's, and a request commits what others
have half copied.  But a directory is never removed, so only a request that looked
before the directory was made can take the same tag, and each request adds its own
version, whole, before it writes its tree.

What the code does not give, found while modelling (hazards in `PROJECT.json`): two
requests that look at the same time take one tag, mix their files in one directory and
one of them fails at the INSERT (`shared`; no property speaks of such a version); with two
requests the recorded `commit_hash` may name a commit that lacks the version; a rollback
that fails has already removed what it was to replace; a snapshot takes
`runtime_validation.json` and `virtual_commissioning.json` before the files a rollback
restores, so that the version "restored" may hold the newer report.

Proved (`VersionManagerProofs`), for any sets of requests and contents and any number
of versions: `TypeCorrect`, from `TypeInv` (types; `RequestOK`: a request past a step has
what the step left; `NothingBefore`: no record or tag without a directory);
`RecordsWhole` and `RecordsFinal`, from `OwnInv`.  Until it is recorded, a version whose
tag was taken once has one owner, and `Progress` says what the owner has done of it by
its place in the code; once it is recorded it has none.  A step of anybody else spares
it (`SparedByServe`), except that `git add` renews its entry in the index, with the copy
that is there already.  The proofs assume that `None` is no artifact, directory, tree or
record (`NoneAssumption`).

`CommitsHold`, with one request at a time (`Serial`), from `ToldInv`: HEAD names a commit
that holds the version a request is making from the moment it is moved, and nobody moves
it before the record and the deployment tag are written.  `RollbackBrings`, for any number
of requests, from `BackInv`: a rollback that nothing disturbed holds, at each of its steps,
the logic of the version it restores in the workspace or in what it copied.  They assume that
the mark of an empty tree is no logic (`MarkAssumption`).

### ParsePipeline, LogicRuns, PidReconcile, GraphValidation, IoChannels, PlcDeploy: run `pipeline`

The way of a project from its documents to a PLC.  The components hand over through
stores (Neo4j and `latest_graph.json`, the control loops, the ST files, the active
IO mapping), and each is modelled over what the previous one can leave there.

`ParsePipeline`: `batch`, `job`, `items` are the rows of each parse; `graph`, `file`,
`neo` what it built and the two stores; `pc` its place.  Every INSERT and UPDATE, the
file, the clearing of Neo4j and each MERGE are actions; `Raise`, `FailJob`, `FailBatch`
are the `except` branch, `NeoFails` the error that is only logged, `Die` a process that
ends.  Readers (`Served`, `latest`) take the batch that started last, and the file only
when Neo4j has nothing.  History: `clean`, `mixed`.

`LogicRuns`: `plant` is what a parse left, `loops`, `st`, `bundled`, `runs` the stores,
`gen` each request.  A generation is `BeginLogic`, `DiscoverLoops`, `StoreLoop`,
`LoopsStored`, `RemoveFiles`, `WriteSt`, `JudgeSt`, `NumberRun`, `InsertRun`, `StoreRule`,
`WriteBundle`; a detection stops after the loops; `LogicRaises` may come anywhere.

`PidReconcile`: `summary` and `proposal` are the two files of a reconciliation, `plantFile`
and `plantNeo` the two stores of the graph, `review` what each request does; `apart` (the two
files are not of one reconciliation) is history.  `Reconcile` reads the graph, from Neo4j or,
when that has no devices or does not answer, after another look (`LookFurther`) from the
file, and computes the proposal (match by normalised tag, renamed devices by similarity,
missing ones kept as deprecated, new ones with the status their record gives them);
`WriteSummary` and `WriteProposal` follow.  An update is `LoadSummary`, `LoadProposal`, then
what `store_graph` does for it as for a parse (`StoreParsed`): `WriteGraphFile`,
`ClearPlant`, `MergeDevice` and `MergeLink` for each of them.  `ReviewEnds` may come after
any step: Neo4j fails, which is swallowed, or something raises, or the process dies.
`Proposed` and `Accepted` are pure operators.

`GraphValidation` and `IoChannels` are pure algorithms: `Validated` over every list of up
to four relationships of a pool of nine, `Mapped` over every list of up to four named signals.

`PlcDeploy`: `versions`, `latestFile`, `ioJob` are the mapping, with every statement of a
save and an activation an action; `logic`, `plc`, `deployment` the deployer, with every
call to the PLC an action that fails or is accepted.

| area | instance | shows |
|---|---|---|
| parse | 2 parses, 2 elements, 2 rows per batch | `ReadersSeeOneParse`: once the newest parse completed with nothing beside it, graph and rows are both its own |
| logic | 2 requests, 2 designs (with and without a module and a loop), 2 runs | `NewestRunIsWhole` |
| reconcile | 2 requests, 3 spellings of 2 tags, 2 graphs of parses, 2 datasets | `ConflictsAreAllowed`, unless the files read may be of two reconciliations; `ApplyKeepsDevices`: an update that stores alone over the graph it was made from, and ends at whichever statement, leaves a graph with its devices, unless half of them are in Neo4j; `ReconcilingSettles`: from any graph that is served, half stored or not, applying a dataset a second time changes at most the status of a new device, a third time nothing, and a confirmed edge that fits stays |
| io, plc | 3 versions of a mapping over 2 signals; 2 projects, 2 logics, 1 deployer beside a mapping request | `LatestFileIsServed`; `PassedRunsTheLogic` |
| edges | lists of up to 4 of 9 relationships | `EdgesAreTheBest`: no duplicates, nothing stronger lost, validation of the result changes nothing |
| channels | lists of up to 4 signals, slots of 2 channels | `ChannelsAreDistinct` |
| versions | see VersionManager | `CommitsHoldTheVersion`, `RollbackBringsBack` |

The types of parses, reconciliations and deployments are proved.  A second run,
`plc_shared`, gives the PLC two deployers: `PassedRunsTheLogic` is violated, which
contradicts the docstring of `deploy_to_runtime`: the compile request names no program
and the verification looks for a project's name on pages that list all programs.

Bounds: two parses or requests show every race between two, and once two requests of the
reconciliation are under way no new one begins until one is left; three versions are the one
that was active, one that failed and one that succeeds; four relationships are one more
than the limit of a source (two in the instance, three in the code) and a duplicate; two
channels per slot make a slot overflow with three signals.

What the code does not give: a parse that fails after it stored its graph leaves readers
a graph of one parse with the rows of another; overlapping generations take the same
`MAX + 1`; an edge of a device whose tag is not normalised is lost in a reconciliation;
the signal after the last channel of a slot shares its address with the next type's first.
An update reads its two files one after the other, and a reconciliation that was cut short,
or runs beside it, makes it ask for the conflicts of one and store the graph of another.  A
failure of Neo4j while a graph is stored is logged and no more: the devices that got there
are the plant from then on, for readers and for the next reconciliation, though the file has
all of them.  A new device gets the status its record gives it and loses it the next
time the same dataset is applied.

Proved.  `PipelineProofs`: `ParseTypes`; `CompletedWhole`, from `Reported` (a job past
its rows has all of them); `ReadersGetOneParse`, from `ReadersInv`: a clean parse that runs
is alone (`CleanIsAlone`), Neo4j holds what it stored so far (`CleanGraph`), and what is
not mixed is the latest (`Given`).  `PidTypes`; `AllowedConflicts` and
`DevicesAreKept`, from `PidInv`: the two files match unless they are apart, every proposal
keeps the devices of its base (by `ProposedKeeps`, which rests on the last of the devices
that fall together being well defined, `LastTag`), and what each step of storing leaves in
the file and in Neo4j: an update that stores alone and ends has then left the file, nothing
or all of the devices to be served (`EndsByItself`, `StoredIsServed`).
`PlantProofs`: `PlcTypes`; `FileIsServed`, from `IoInv` (what each step of a save has
left); `AlonePassedRunsTheLogic`, assuming one deployer, from `Holds` (what the PLC holds
at each step of a deployment); `DistinctChannels`, for any list of signals and width.
`NewestRunsAreWhole`, from `LogicInv`: a generation that began alone and still is has torn
the stores and done of them what its place says (`Progress`), over run numbers that have a
largest one (`Bounded`).
`ReconcilingIsSettled`, from `PidInv` and that links lead to devices of their graph (`Whole`),
also while it is merged: in a proposal no two devices fall together, so that all of them
count (`ProposedNodes`), proposing from it gives its devices and links back, and no status
changes twice (`AppliedSettles`, `AppliedAgain`).  The confirmed edge stays (`ConfirmedStay`)
only if it fits, which the theorem therefore asks for: a graph that was stored by another
way can have edges that the validation refuses.
`BestEdges`, that is `EdgesAreTheBest` for every list of relationships (also with gaps, which
is what the edges of a list are), any matrix and any limit of a source.  `Stronger` is an
order of numbers (`WeightTells`), so that each key has a best (`BestIsThere`); the edges of a
source are the first of its strict order (`EdgesAreInFront`), and the first m of an order are
m or all of it (`FrontIsFull`, an induction over naturals by their least element).  The edges
validated alone may come in another order among equals, but there are never too many
(`EdgesStay`).
Every property of the run but `CommitsHoldTheVersion` and `RollbackBringsBack`, which are
proved in `VersionManagerProofs`, is proved here or in `PlantProofs`.

### AccessControl, AiConnectors, LiveFeed, SqlPool, ConnectorConfig, SampleReading, WorkbenchProofs: run `workbench`

`AccessControl`: `users`, `teams`, `accessFile`; one action per endpoint that touches teams
(`Register`, `CheckoutTeam`, `CheckoutSolo`, `InviteTeamMembers`, `RemoveTeamMember`,
`SetRole`), each with its save, which may leave a file that cannot be read, and `Restart`.
`AiConnectors`: `ai` is the active flag of each row, `aiReq` what a request has read;
reads and transactions are apart, a commit that would leave two active rows is rolled
back by the index.  `LiveFeed`: `rows`, `snapshotId`, `active` of the service, `job` of each
writer, `broadcasts` on the event loop, and `page`: its connection, inbox, identifiers, fetch
and what it shows.  A writer is a request thread: it tests the active project (`CheckActive`)
or names none, changes the rows under the lock (`Load`, `Update`), tells the hub when it has
released it (`Notice`; for a load the hub reads the rows again), hands the message to the
event loop (`Publish`) and, after a load, sets the active project (`Activate`).  History:
`owner` and `astray` for rows that came by a project that is not theirs; `late` of a
message, `behind` and `ignored` of a page.
`SqlPool`: `registered` is the pool the registry has under one key, `pool` the idle
connections, the count and the lock of each pool, `borrower` where each thread is in
`acquire`, `connect`, `ping`, `release`, `discard` or `close`.  `ConnectorConfig`: `form` is
what a client has, `saved` the row; `Edit` changes a field, `SaveForm` is `Normalized`, the
validation of each of the five types, and the services of Modbus and SQL validate what is
saved once more.  `SampleReading`: `mappings` and `table` are what a Modbus and a SQL
connector have to read; windows, cutting, decoding and the live value are operators.

Abstractions: pools of other keys share nothing with the one that is modelled, and a closed
connection is as good as a new one; a field of a form is its value or `None` for a missing or
blank one, texts are fit or not; a register's content is its address, a sample's value the row
it is of.

| area | instance | shows |
|---|---|---|
| access | 3 users, 2 teams, member limit 1 | `TeamsListTheirUsers` |
| connectors | 3 identifiers, 2 requests | `OneActiveUnlessRaced` |
| feed | 2 rows, 2 projects, 2 readings, 2 writers, 1 page, 3 snapshots, restarts of the server | `LiveTableAgrees`: `FeedCatchesUp` - a page that nothing is on its way to shows each row as it is, unless a message or answer that was overtaken brought it last or the page ignored the news of it; `RowsAreTheActiveProjects` - between requests the rows are of the active project, unless one came astray |
| pool | 3 threads, 2 pools of one slot, 3 connections; connects and pings fail, a pool is closed | `PoolsLend`: `OneHolder` - no connection is lent twice; `SlotsAreAccounted` - a slot is idle, out, or lost by a failure |
| form | a form of each type, 4 edits with fit, unfit, blank and zero values | `FormsAreKept`: `SavingIsStable` - saving what was loaded changes nothing; `ServicesReadTheRow` - Modbus, SQL and MQTT read what was saved, and close the pool they opened |
| reading | up to 3 of a set of mappings in windows of 4 registers; up to 4 rows over 2 tags | `PollsReadTheTags`: `BatchingIsInvisible` - a mapping gets what it would get alone; `LiveTellsTheOrder` - which row a tag's live value is of |

Bounds: three users are an owner, a member and one over the limit; three identifiers are
the active row, the one to activate and a new one; two messages between server and page
are enough to cross; a page that has shown something loses its connection once and has then
no fetch before it, while a fetch is under way one writer is at work, and the server starts again
between requests (the proof has none of these bounds); three threads are one that has the only
connection, one that waits and one that closes; four edits reach a save, two changed fields that a default connects and a
second save; three mappings overlap, touch and leave a gap.  The claims with a history
(`raced`; `behind`, `ignored`, `astray`; `lost`) name exactly the cases in which the code
fails: a deletion beside another request; of the live table the row that was last shown by an
older message after a newer one, or by a fetch's answer that a message had overtaken, the
table that the page ignores, and a push or an activation that fell into another project's
rows; a failure that lost a slot.

What the code does not give, found while modelling: listeners are told after the lock is
released, so of two updates of a row the older may be shown for good.  A page that
connects again gets a table under the identifier of its first row: when only other rows have
changed since, it is the identifier of the last table, and the page ignores it, server restart
or not (`EngineeringDeterministicTable.tsx:388`).  A pool whose connects failed while its
lock was held has fewer slots for good, and then none; pools that browsing or previewing an
unsaved form opened are never closed; the key of a pool masks secrets, so a changed password
goes on with the old pool; a connector saved with a connection string among its secrets never
runs.  A `full_snapshot` over a column of times keeps the oldest row of a tag live.  A retry
count of zero is two and a multiplier of zero is one; an IPv6 host of MQTT is written as
a URL that cannot be read back, and its TLS cannot be switched off; the page drops the columns
of tags and values of a SQL connector; a historian's secrets are dropped unless they name the
authentication mode, and its normalisation applies a unary plus to a text, so that every call
of it raises (`plant_genie_historian_service.py:459`).

Proved (`WorkbenchProofs`): `AccessTypes`, `TeamsListUsers` (one lemma per endpoint: what it
gains, `ListsAfter`, and that both the saved and the lost file list their users), `AiTypes`,
`OneActiveConnector` (from `Sound`: what a request has read is still true, or the race is
noted).
`PoolsLendSafely`, for any threads, pools, connections and pool size, from `PoolInv`: who is
where in which pool (`Placed`), idle connections of two pools are apart (`Apart`), a pool that
somebody is in was opened (`Opened`), and the slots are accounted for.
`TableAgrees`, for any writers, projects, rows, readings, pages and number of snapshots, from
`FeedInv`: a message that is full has every row (`FullsAreFull`), and each writer's job, the
broadcasts, an inbox and a view tell of a row what it now is unless something later does or the
message is known to be late (`JobsTell`, and `TellInv` with `BroadcastsTell`, `InboxTells`,
`ViewTells`); a closed connection has nothing under way (`ClosedIsEmpty`); the rows are of the
active project, or of the one about to be, or astray (`ByActive`).  Nothing is assumed of the
order in which writers publish; it assumes that `None` is no row (`FeedRowAssumption`).
`FormsStay`, for any first forms, any values of their fields and any number of edits, from
`FormInv`: a form has the fields of a type it may have started with, and the row is what the
validation made of one.  What carries it is that filling in is idempotent, type by type
(`OpcuaStays`, `MqttStays`, `ModbusStays`, `SqlStays`, `HistorianStays`): a default is neither
missing nor zero where that counts (`FilledStays`), the default port goes with a database that
is already filled in, an older spelling of a query is cleared once.  It assumes that `None` is
no number and no default, and that what a field may hold does not depend on the others
(`FormAssumption`).
`PollsStayTrue`, for any mappings, window size and rows, from the types of `mappings` and
`table`: a poll is a function of them.  `OrderedByAddress` - sorting by rank gives each
position exactly one mapping (`Ranked`); `PutIsPacked` - mapping after mapping, the lists joined
are the mappings in their order, and each list is `Tiled`: ascending, without a gap, no mapping
but the first further out than a window may be; then what is cut of a window's reply is exact
(`CutIsExact`), every register belongs to a mapping (`NoneIdle`), and only a mapping can be too
long (`NoneTooLong`).  It assumes that register and data types are the known ones, which the
form's validation has seen to (`ReadingAssumption`).  Only model-checked: nothing of this run.

### BehaviorChains, Namespace, LoopDetection, StrictLoops, FinalValidation, ScanCycle, AnalysisProofs, PlantProofs: run `analysis`

What is computed of a plant, and where two pieces of code compute the same thing.

`BehaviorChains`: `documents`, `loaded`, `relations`, `edges`, `runtime`, `card`, `cache`.
`LoadRows` builds the graph and every card, `UpdateRuntime` computes again only the rows
within a radius, `Explain` walks a second graph and keeps the answer under a signature.
`Namespace`: `rows` and `revision` under the lock; `announcing`, `scheduled`, `wire` are the
way of a message from a thread over the event loop to a socket; `page` is the browser, and
`refresh` the rows that its refresh or its query has read (`ReadRows`).  Their answer replaces
what the page shows (`RowsArrive`), and a query's leaves out rows: which is left open, as the
SQL is the user's, and `page.hidden` remembers what they were; `RequestFails` keeps the rows.
`LoopDetection`: `Detected` over a graph as either store gives it, the table's
merge, and the list of signals.  What an edge means is first what was stored on it as its
meaning (`semantic`; `graph_build_service.py:77` stores one, edges of a P&ID update have
none) and only then its kind (`Normalized`, `ByKind`).
`StrictLoops`: cross validation of relationships, paths, one loop per key, judging, tuning and
visibility, over the documents of a parse; relationships are of the fifteen kinds that the
code knows.
`FinalValidation`: `Final`, what is served of these: one of each contradiction, a row per tag
with links found in five ways, loops whose tags have rows, and all that a second time, over
the links of the first; and the graph that is served.
`ScanCycle`: `plc`, the memory of the program that the ST generator writes.  One step is one
scan, the composition of the blocks in the order of `main.st`: `Supervised` (state and fault
manager), `Interlocked`, `Sequenced` (startup and shutdown), `Driven` (equipment),
`Regulated` (loops), `Alarmed`; what a block writes the next one reads, and the supervisors
read the alarms and latches of the scan before.

| area | instance | shows |
|---|---|---|
| behavior | 4 rows of which two are spelled alike, 8 edges and relations, depth 2, 3 paths, 2 cached answers | `ShortcutsAgree`: `RowsAreComputed` and `CachedAnswersAreCurrent` - rows that were not computed again and answers from the cache are what a computation now gives; `ChainsTellTheCauses` |
| rows, one row | 2 rows and 2 changes, with queries, or one row and 3 changes; 2 writers, 2 sockets | `PageCatchesUp`: a page at rest has every row as it is, or a query left it out and it has not changed since, unless older news of it came after newer |
| loops | every graph of up to 4 of 14 edges over 6 nodes, with and without a stored meaning | `ShortcutsAgree`: `DetectionIsOne` - either store, the table and the list of signals agree |
| strict | every subset of up to 7 of 14 relationships over 7 devices | `LoopsAreJudged`: loops are accounted for, none of a key would have been judged better than the kept one by more than is rounded away, what is shown is trusted and hangs on no order |
| final | every subset of up to 7 of 15 relationships over 7 devices, most of them opposites or rivals of others, of one kind or of different kinds | `FinalStands`: rows, relationships and loops that are served need nothing that is not; links lead to rows; two tags have one relationship in a direction and contradict each other only by opposite ones of one category that are of different kinds, or of a kind without direction; what was dropped has a replacement, unless two tags have four relationships |
| scan | a valve, two pumps and a control valve; both commands in any way; at most one thing wrong in a scan, or the loop writing its output | `PumpsAreSafe`: a pump that stopped starts only in its step of a startup, and none runs in the scan after a fault alarm; `ScansReachTheEnd`: from every state that any history of scans leaves, a startup (the first one) and each shutdown with good inputs come to their ends |

Bounds: a radius of up to two on chains of three rows reaches past a change and stops short
of one; a cache of two evicts; a third revision is the one that crosses the first two; two pumps
let one fail while the other runs, and the three kinds of equipment are all there are.

What the code does not give: a parse serves no loop.  The engine invents a controller's name
for a direct path from sensor to actuator (`_infer_controller_tag`, tested), and the final
validation asks for a row of every tag of a loop; the matrix of `graph_validation_service.py`
has no controllers, so that the edges of a real one are dropped before paths are looked for.
`StrictLoops` and `FinalValidation` start behind that matrix, which `GraphValidation`
models; they are given edges of controllers all the same.  Opposite relationships are compared
only when they are of the same kind and the kind has a direction: FEEDS one way and
CONNECTED_TO the other, MEASURES and MONITORS, or SUPPORTS both ways are both served, and the
graph that is served reports them as contradictory, as they are of one of its categories.  What loses one comparison still
takes part in the others, so that of four relationships between two tags (CONTROLS and
MEASURES, both ways) each can lose to another and none is served; a relationship of a tag
with itself is its own opposite and loses always.  The unit of a value is not in the signature, so a narrative may
show an old unit; what a query left out of the namespace's page comes back only when it
changes or is read again; a page merges without comparing revisions, so older news that comes after
newer stays; a sensor and an actuator that meet at two processes share one row of the table.
Of the paths of one key the engine keeps the one that it ranks highest, and cross validation
judges it later: another path can then be better, by the one per mille that the engine's
confidence rounds away (the instance has such a pair), or by up to eight where its bound of
0.99 hides what is above (which takes relationships of 0.96 and more, and is not in the
instance); `KeptIsJudgedBest` claims no more than that.
`PROCESS_RUNNING` and `PROCESS_STOPPED` are set by the last step of a sequence and never
reset: a second startup is over after one scan, before any device has its command, and a
second shutdown likewise; the supervisors take a shutdown that is asked for during a startup
for nothing; an interlock cannot close a valve whose `OPEN_CMD` is set, and a startup step
writes after it; the output of a control valve keeps its value on a fault or a missing
permissive, although the completed logic notes that commands default to a safe state
(`logic_completion_engine.py:212`); a startup waits at a control valve that has neither
output nor feedback.  The properties claim what is left.

Proved.  `PlantProofs`: `PageFollows`, that is `PageCatchesUp`, for any writers, rows,
connections and queries and without a bound on what is under way, from `NewsInv`.  There is for
each row a revision since which it is as it is (`Changed`); whatever was read and is not yet
shown is true of the row from that revision on (`Truthful`), so is what the page shows or a
query left out (`OnPage`), and what the page was never given is on its way: unread, announced,
scheduled, on the wire, or the page is to be greeted or has lost its connection
(`NewsComes`).  Messages may overtake each other in all of these; that is why the invariant
speaks of revisions and never of an order.  It assumes that `None` is no socket, table or
snapshot (`NamespaceAssumption`).

`AnalysisProofs` has the others.
`PumpsStaySafe`, that is `PumpsAreSafe` for any finite equipment and any inputs of a scan, not
one trouble at a time as in the run, from `ScanInv`: a pump whose command is set runs, a pump
runs only while the plant starts or runs, and a plant that is not starting has no step of
a startup.  One lemma per block says what it does to the commands; that a shutdown sets
none rests on its last step, the only one it sets, being `PROCESS_STOPPED`
(`ShutdownEndsStopped`), which holds of the steps of any devices since `FlattenSeq` joins
sequences to a sequence (`FlattenedIsSeq`).
`ParsesStand`, that is `FinalStands` for any documents.  Its invariant says only that the
parse has finitely many of the candidates; the argument is about `Final`.  The second pass
drops tags, and no relationship and no loop with them: a relationship that is left after the
first pass keeps both its ends, and a loop that stands has relationships of all its tags
(`TwoPasses`).  Relationships are compared by five numbers (`StrengthTells`), an order in
which none precedes itself and some are never without a first (`OneIsFirst`,
`StrengthIsAnOrder`); hence one is left of a direction, and not both of a kind that has a direction
(`ConsistentIsSingle`), a row that is connected has links without a text or a sentinel
(`TopologyFinds`, `LinksLeadToRows`), and two tags of which nothing is served had four
relationships (`FourAreLost`).  It assumes what removing duplicates leaves, one relationship of
each kind from one tag to another, and that a tag is related to itself only by CONTROLS, as an
intent may do and no extractor does (`FinalAssumption`); the claim as it stood before the proof,
without the exception of four, was false, and the instance now has the four.
`LoopsStayJudged`, that is `LoopsAreJudged` for any documents, from the same invariant.  In
the engine one path comes before another by five numbers: its rank, its length and its edges
(`CodeTells`); hence of each key exactly one loop is kept, and none of the key outranks it
(`KeptOfEach`).  Judging keeps the key, so that shown and rejected are counted by a bijection
(`LoopsAreAccounted`).  What a loop is judged by is its weight and what its supports add
(`JudgedTells`), and one that outranks another of as many signals weighs as much but for what
is rounded away or hidden by the bound (`OutrankingWeighs`): the claim without these was
false, and the instance now has a pair that shows it.  Read backwards, a list has the same
loops (`MirrorsHoldTheSame`), and without ties those are kept that outrank the others.
`TheTableIsFound`, that is `ReadersAgree` and `TableHoldsTheLoops` of `DetectionIsOne`, for any
nodes and edges.  The rows of a store that gives every edge twice are the scores between each
device and process (`RowsFromNeo4j`), a store that gives it once has the same rows where no
edge can be read either way (`RowsFromCache`), and of the pairs of rows the best are the pairs
of the best (`BestArePaired`).  What is found is bounded by the last node that the graph
reaches (`GraphInv`), so that of one tag a loop is stored last (`OneIsLast`).
`ScansEnd`, that is `ScansReachTheEnd` for any finite equipment.  The claim speaks of scans to
come, so its invariant (`EndInv`: a step of a shutdown is kept only while the plant stops, and
no valve is told to close) is small, and the argument follows the memory through them.  A
sequence commands every device of the equipment before its last step, and nothing else
(`StepsAre`, `OrderHasAll`); a scan that nothing troubles does what `ScannedWell` says of it
(`GoodScan`); in it a startup goes on after no more than two scans of a step, one that
commands the device and one that reads it back (`UpGoesOn`), and a shutdown after each
(`DownGoesOn`).
`ShortcutsHold`, that is `ShortcutsAgree` for any documents, rows, updates, questions, nodes and
edges.  The part of the behaviour engine is `BehaviorShortcuts`, from `BehaviorInv`: the edges
are built of explicit ones and of the relations of the rows (`Built`), every row shows what
would be computed of it now (`RowsInv`), and every entry of the cache can be told from its own
key, whatever has happened since (`Explains`).  Each computation is a recursive function, and
each proof goes up its levels (`Upwards`).  The chain of a row is a list, each tag once, of
what lies within `Depth` edges (`ChainTells`, from sorted neighbours joined by `FlattenSeq`:
`AscendingLists`, `FlattenedLists`).  The graph of an explanation is the same graph although
it is built of other edges, those of the service taken as explicit: of each key one edge is
built that none outdoes, and taking it as explicit changes no such comparison
(`WhyGraphIsExplicit`).  The walk names only tags within `Depth` edges since its paths are
paths (`PathIs`, `ExtendIs`), and all that are reached through rows since a shortest route to a
tag is at every turn either in an ended path or begun by one in the queue (`RoutesExist`,
`StaysSure`, `WalkReaches`); the ranking keeps all paths if they are few (`RankedTells`).  It
assumes that tags are ordered, that documents give edges of known kinds, those of a
row with the kind of their field, and that `Depth` is at most the four of the code (`BehaviorAssumption`).
The part of the list of signals rests on the node that stands for those spelled alike, the
last of a loop over the nodes (`OneStandsForAll`), so that an edge between a device and a process
is one of the list's too (`EdgesAreMerged`).  The proof found two conditions that
`SignalsListTheLoops` has to have and that the instance hid: nodes spelled alike must be of one
type, since the list goes by the type of the one that stands for them, and a process that
belongs to a unit is whatever the engine takes for a process, not only what has its type.  It
assumes that the graph lists its nodes (`DetectionAssumption`).
Every property of the run is proved.

## Not modelled

The table of components in `PROJECT.json` says for each what is left out and why.  In short:
heuristics from free text to entities (`engineering_table_parser.build`, the extraction
services), whose results the models take as given; the text of generated programs and its
validator, of which the models keep that files are written and may be refused, and what a
program does when it runs; the numeric
models of the live simulation; export formats; single-statement CRUD services; token checks
and rate limits; and the frontend beyond the two pages whose protocol is modelled.  The PLC
runtime itself, matiec, gcc, PostgreSQL, Neo4j, OpenPLC, MQTT and OPC UA libraries appear
only as what the modelled code sees of them.  Out of the prover's reach, and left to TLC:
liveness under fairness, ENABLED, and what recursive definitions compute for every input.
