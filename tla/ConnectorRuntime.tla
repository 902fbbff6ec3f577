---------------------------- MODULE ConnectorRuntime ----------------------------
(***************************************************************************)
(* The plant-data connectors of Plant Genie.  A connector is a row of the  *)
(* table plant_genie_plant_data_connectors; while it is enabled a daemon   *)
(* thread (a PlantGenieConnectorWorker) polls the plant and records live   *)
(* samples.  Three kinds of threads share the state:                       *)
(*   - API requests (create, update, delete, enable, disable), which are   *)
(*     plain functions run by the server's thread pool and not serialised; *)
(*   - worker threads, one per started connector, and those that were told *)
(*     to stop but did not finish within the join timeout;                 *)
(*   - the start-up hook, which starts every enabled connector.            *)
(* One statement on the database is one transaction, so one step; one      *)
(* block under the runtime's RLock is one step.                            *)
(***************************************************************************)
EXTENDS Naturals, FiniteSets

CONSTANTS
    Connectors,      \* connector ids (a uuid is never used twice)
    Requests,        \* API threads: at most this many requests at a time
    Workers,         \* thread objects: bound on the threads alive or referenced at once
    Configs,         \* what an update may write: type, interval, config, secrets
    Subscriptions,   \* those of a type that subscribes (opcua, mqtt); the others poll
    None,            \* no worker, no connector, no config
    JoinMayTimeOut,  \* a stopping worker may outlive worker.join(timeout=5.0)
    DbMayFail,       \* a statement on the database may raise
    MayCrash         \* the process may die and be started again

ASSUME NoneAssumption ==
    None \notin Connectors /\ None \notin Workers /\ None \notin Configs

ASSUME SubscriptionsAssumption == Subscriptions \subseteq Configs

ASSUME FaultsAssumption ==
    JoinMayTimeOut \in BOOLEAN /\ DbMayFail \in BOOLEAN /\ MayCrash \in BOOLEAN

VARIABLES
    row,       \* the table: one row per connector id
    registry,  \* _workers: connector id -> worker thread
    meta,      \* keys of _connector_meta
    samples,   \* keys of _samples
    worker,    \* every thread object: where it is, for whom, with which config
    req,       \* every API thread: where it is in its handler, and its locals
    phase,     \* of the process: "down", "migrated" and "booting" (start-up hook), "up"
    boot       \* the rows the start-up hook has read and not started yet

vars == <<row, registry, meta, samples, worker, req, phase, boot>>

Row(state, enabled, running, config) ==
    [state |-> state, enabled |-> enabled, running |-> running, config |-> config]
NoRow == Row("never", FALSE, FALSE, None)
Tombstone == Row("deleted", FALSE, FALSE, None)
Nobody == [pc |-> "dead", conn |-> None, config |-> None, stop |-> FALSE]
Request(op, c, pc, config, enable, held) ==
    [pc |-> pc, op |-> op, conn |-> c, config |-> config, enable |-> enable, held |-> held]
NoRequest == Request("none", None, "idle", None, FALSE, None)

WorkerPc == {"dead", "starting", "announcing", "unbuildable", "looping",
             "fetching", "recorded", "stopping"}
RequestPc == {"idle", "insert", "read", "pop", "signal", "join", "purge",
              "stopped", "start", "drop", "off", "failed"}
Ops == {"none", "create", "update", "delete", "enable", "disable"}

Maybe(S) == S \cup {None}

RowType == [state: {"never", "stored", "deleted"}, enabled: BOOLEAN,
            running: BOOLEAN, config: Maybe(Configs)]
WorkerType == [pc: WorkerPc, conn: Maybe(Connectors), config: Maybe(Configs),
               stop: BOOLEAN]
RequestType == [pc: RequestPc, op: Ops, conn: Maybe(Connectors),
                config: Maybe(Configs), enable: BOOLEAN, held: Maybe(Workers)]

TypeOK ==
    /\ row \in [Connectors -> RowType]
    /\ registry \in [Connectors -> Maybe(Workers)]
    /\ meta \in SUBSET Connectors
    /\ samples \in SUBSET Connectors
    /\ worker \in [Workers -> WorkerType]
    /\ req \in [Requests -> RequestType]
    /\ phase \in {"down", "migrated", "booting", "up"}
    /\ boot \in SUBSET [conn: Connectors, config: Maybe(Configs)]

Init ==
    /\ row = [c \in Connectors |-> NoRow]
    /\ registry = [c \in Connectors |-> None]
    /\ meta = {} /\ samples = {}
    /\ worker = [w \in Workers |-> Nobody]
    /\ req = [r \in Requests |-> NoRequest]
    /\ phase = "down" /\ boot = {}

-----------------------------------------------------------------------------
(***************************************************************************)
(* Pieces the handlers are made of.                                        *)
(***************************************************************************)
Stored(c) == row[c].state = "stored"
Enabled(c) == Stored(c) /\ row[c].enabled
Alive(w) == worker[w].pc # "dead"
HasLiveWorker(c) == registry[c] # None /\ Alive(registry[c])

\* A thread object nothing refers to any more; the model reuses its name.
Spare(w) ==
    /\ ~Alive(w)
    /\ \A c \in Connectors : registry[c] # w
    /\ \A r \in Requests : req[r].held # w

\* update_runtime_state: an UPDATE that finds no row changes nothing.
SetRunning(c, flag) ==
    row' = IF Stored(c) THEN [row EXCEPT ![c].running = flag] ELSE row

\* start_connector under the lock: a live worker is kept whatever its config.
KeepWorker(c) ==
    /\ HasLiveWorker(c)
    /\ UNCHANGED <<registry, meta, worker>>

\* Mutant: the is_alive() test of start_connector is missing.
LaunchAnyway(c, config) ==
    /\ \E w \in Workers :
        /\ Spare(w)
        /\ worker' = [worker EXCEPT ![w] =
                [pc |-> "starting", conn |-> c, config |-> config, stop |-> FALSE]]
        /\ registry' = [registry EXCEPT ![c] = w]
    /\ meta' = meta \cup {c}

LaunchWorker(c, config) ==
    /\ ~HasLiveWorker(c)
    /\ \E w \in Workers :
        /\ Spare(w)
        /\ worker' = [worker EXCEPT ![w] =
                [pc |-> "starting", conn |-> c, config |-> config, stop |-> FALSE]]
        /\ registry' = [registry EXCEPT ![c] = w]
    /\ meta' = meta \cup {c}

StartConnector(c, config) == KeepWorker(c) \/ LaunchWorker(c, config)

\* Mutant: the worker is looked up and stays registered while it stops.
PeekWorker(r, op, c) ==
    /\ UNCHANGED registry
    /\ req' = [req EXCEPT ![r] =
            Request(op, c, IF registry[c] = None THEN "purge" ELSE "signal",
                    req[r].config, FALSE, registry[c])]

\* The first lines of stop_connector: take the worker out of the registry.
PopWorker(r, op, c) ==
    /\ registry' = [registry EXCEPT ![c] = None]
    /\ req' = [req EXCEPT ![r] =
            Request(op, c, IF registry[c] = None THEN "purge" ELSE "signal",
                    req[r].config, FALSE, registry[c])]

Begin(r) == phase = "up" /\ req[r].pc = "idle"
At(r, pc) == req[r].pc = pc
Goto(r, pc) == req' = [req EXCEPT ![r].pc = pc]
Finish(r) == req' = [req EXCEPT ![r] = NoRequest]

-----------------------------------------------------------------------------
(***************************************************************************)
(* The API handlers.  The first database statement or lock block of a      *)
(* handler is merged with the arrival of its request.                      *)
(***************************************************************************)

\* create: SELECT whether some connector of the user is enabled ...
CreateCheck(r, c) ==
    /\ Begin(r)
    /\ row[c].state = "never"
    /\ \A q \in Requests : ~(At(q, "insert") /\ req[q].conn = c)
    /\ \E config \in Configs :
        req' = [req EXCEPT ![r] =
            Request("create", c, "insert", config, ~\E d \in Connectors : Enabled(d), None)]
    /\ UNCHANGED <<row, registry, meta, samples, worker, phase, boot>>

\* ... and INSERT the row, enabled if none was (read committed: others may run between).
CreateInsert(r) ==
    /\ At(r, "insert")
    /\ row' = [row EXCEPT ![req[r].conn] =
            Row("stored", req[r].enable, FALSE, req[r].config)]
    /\ IF req[r].enable THEN Goto(r, "read") ELSE Finish(r)
    /\ UNCHANGED <<registry, meta, samples, worker, phase, boot>>

\* update: UPDATE ... RETURNING; only an enabled connector is restarted.
UpdateRow(r, c) ==
    /\ Begin(r)
    /\ Stored(c)
    /\ \E config \in Configs : row' = [row EXCEPT ![c].config = config]
    /\ req' = IF row[c].enabled
              THEN [req EXCEPT ![r] = Request("update", c, "read", None, FALSE, None)]
              ELSE req
    /\ UNCHANGED <<registry, meta, samples, worker, phase, boot>>

\* enable: UPDATE enabled = TRUE.
EnableRow(r, c) ==
    /\ Begin(r)
    /\ Stored(c)
    /\ row' = [row EXCEPT ![c].enabled = TRUE]
    /\ req' = [req EXCEPT ![r] = Request("enable", c, "read", None, FALSE, None)]
    /\ UNCHANGED <<registry, meta, samples, worker, phase, boot>>

\* disable: the worker is stopped first, the row is updated last.
DisablePop(r, c) ==
    /\ Begin(r)
    /\ row[c].state # "never"
    /\ PopWorker(r, "disable", c)
    /\ UNCHANGED <<row, meta, samples, worker, phase, boot>>

\* Mutant: delete drops the row without stopping the worker.
DeleteReadOnly(r, c) ==
    /\ Begin(r)
    /\ Stored(c)
    /\ req' = [req EXCEPT ![r] = Request("delete", c, "drop", None, FALSE, None)]
    /\ UNCHANGED <<row, registry, meta, samples, worker, phase, boot>>

\* delete: the record read here decides whether the worker is stopped at all.
DeleteRead(r, c) ==
    /\ Begin(r)
    /\ Stored(c)
    /\ req' = [req EXCEPT ![r] =
            Request("delete", c, IF row[c].enabled THEN "pop" ELSE "drop",
                    None, FALSE, None)]
    /\ UNCHANGED <<row, registry, meta, samples, worker, phase, boot>>

\* get_connector_record; a row deleted meanwhile raises KeyError and ends the request.
ReadRecord(r) ==
    /\ At(r, "read")
    /\ IF Stored(req[r].conn)
       THEN req' = [req EXCEPT ![r].config = row[req[r].conn].config,
                               ![r].pc = IF req[r].op = "update" THEN "pop" ELSE "start"]
       ELSE Finish(r)
    /\ UNCHANGED <<row, registry, meta, samples, worker, phase, boot>>

Pop(r) ==
    /\ At(r, "pop")
    /\ PopWorker(r, req[r].op, req[r].conn)
    /\ UNCHANGED <<row, meta, samples, worker, phase, boot>>

\* Mutant: stop_event is not set.
SignalLost(r) ==
    /\ At(r, "signal")
    /\ Goto(r, "join")
    /\ UNCHANGED <<row, registry, meta, samples, worker, phase, boot>>

\* worker.stop()
Signal(r) ==
    /\ At(r, "signal")
    /\ worker' = [worker EXCEPT ![req[r].held].stop =
                    IF Alive(req[r].held) THEN TRUE ELSE @]
    /\ Goto(r, "join")
    /\ UNCHANGED <<row, registry, meta, samples, phase, boot>>

\* worker.join(timeout=5.0): returns when the thread is dead, or after the timeout.
Join(r) ==
    /\ At(r, "join")
    /\ ~Alive(req[r].held) \/ JoinMayTimeOut
    /\ req' = [req EXCEPT ![r].pc = "purge", ![r].held = None]
    /\ UNCHANGED <<row, registry, meta, samples, worker, phase, boot>>

\* Drop the samples and the metadata under the lock.
Purge(r) ==
    /\ At(r, "purge")
    /\ samples' = samples \ {req[r].conn}
    /\ meta' = meta \ {req[r].conn}
    /\ Goto(r, "stopped")
    /\ UNCHANGED <<row, registry, worker, phase, boot>>

\* update_runtime_state(running=False), the end of stop_connector.
MarkStopped(r) ==
    /\ At(r, "stopped")
    /\ SetRunning(req[r].conn, FALSE)
    /\ Goto(r, CASE req[r].op = "update" -> "start"
                 [] req[r].op = "delete" -> "drop"
                 [] OTHER -> "off")
    /\ UNCHANGED <<registry, meta, samples, worker, phase, boot>>

\* start_connector with the record read before, then the response.
Start(r) ==
    /\ At(r, "start")
    /\ StartConnector(req[r].conn, req[r].config)
    /\ Finish(r)
    /\ UNCHANGED <<row, samples, phase, boot>>

\* DELETE the row.
Drop(r) ==
    /\ At(r, "drop")
    /\ row' = IF Stored(req[r].conn)
              THEN [row EXCEPT ![req[r].conn] = Tombstone]
              ELSE row
    /\ Finish(r)
    /\ UNCHANGED <<registry, meta, samples, worker, phase, boot>>

\* UPDATE enabled = FALSE, the end of disable.
TurnOff(r) ==
    /\ At(r, "off")
    /\ row' = IF Stored(req[r].conn)
              THEN [row EXCEPT ![req[r].conn].enabled = FALSE]
              ELSE row
    /\ Finish(r)
    /\ UNCHANGED <<registry, meta, samples, worker, phase, boot>>

\* The statement a request is about to run raises: the handler answers 500 and leaves
\* its connector as it is.  The request stays as the mark of that: a bound, an API thread
\* fails once between restarts.
RequestDbError(r) ==
    /\ DbMayFail
    /\ req[r].pc \in {"insert", "read", "stopped", "drop", "off"}
    /\ Goto(r, "failed")
    /\ UNCHANGED <<row, registry, meta, samples, worker, phase, boot>>

-----------------------------------------------------------------------------
(***************************************************************************)
(* The worker threads.  The five kinds of worker run the same cycle: a     *)
(* fetch records any number of samples, then reports healthy or an error   *)
(* (both write running = TRUE), then waits until its interval is over or   *)
(* stop_event is set.  The fetch of a subscription is a second of waiting, *)
(* which reports only when something happened to it.                       *)
(***************************************************************************)
Step(w, from, to) ==
    /\ worker[w].pc = from
    /\ worker' = [worker EXCEPT ![w].pc = to]

Die(w) == worker' = [worker EXCEPT ![w] = Nobody]

\* mark_runtime_started: metadata under the lock, then the row.
Announce(w) ==
    /\ Step(w, "starting", "announcing")
    /\ meta' = meta \cup {worker[w].conn}
    /\ UNCHANGED <<row, registry, samples, req, phase, boot>>

\* An MQTT worker without its library, or whose client cannot be built, gives up.
MarkStarted(w) ==
    /\ \/ Step(w, "announcing", "looping")
       \/ worker[w].config \in Subscriptions /\ Step(w, "announcing", "unbuildable")
    /\ SetRunning(worker[w].conn, TRUE)
    /\ UNCHANGED <<registry, meta, samples, req, phase, boot>>

\* Mutant: the loop does not look at stop_event.
LoopForever(w) ==
    /\ Step(w, "looping", "fetching")
    /\ UNCHANGED <<row, registry, meta, samples, req, phase, boot>>

LoopTest(w) ==
    /\ Step(w, "looping", IF worker[w].stop THEN "stopping" ELSE "fetching")
    /\ UNCHANGED <<row, registry, meta, samples, req, phase, boot>>

\* record_sample: memory under the lock ...
RecordSample(w) ==
    /\ Step(w, "fetching", "recorded")
    /\ samples' = samples \cup {worker[w].conn}
    /\ meta' = meta \cup {worker[w].conn}
    /\ UNCHANGED <<row, registry, req, phase, boot>>

\* ... then the row.
ReportSample(w) ==
    /\ Step(w, "recorded", "fetching")
    /\ SetRunning(worker[w].conn, TRUE)
    /\ UNCHANGED <<registry, meta, samples, req, phase, boot>>

\* mark_runtime_healthy or mark_runtime_error at the end of a fetch.
ReportFetch(w) ==
    /\ Step(w, "fetching", "looping")
    /\ SetRunning(worker[w].conn, TRUE)
    /\ UNCHANGED <<registry, meta, samples, req, phase, boot>>

\* A subscription to which nothing happened.
KeepQuiet(w) ==
    /\ worker[w].config \in Subscriptions
    /\ Step(w, "fetching", "looping")
    /\ UNCHANGED <<row, registry, meta, samples, req, phase, boot>>

EndFetch(w) == ReportFetch(w) \/ KeepQuiet(w)

\* mark_runtime_error of a worker that cannot run at all.
GiveUp(w) ==
    /\ Step(w, "unbuildable", "stopping")
    /\ SetRunning(worker[w].conn, TRUE)
    /\ UNCHANGED <<registry, meta, samples, req, phase, boot>>

\* mark_runtime_stopped, the last thing a worker does.
MarkWorkerStopped(w) ==
    /\ worker[w].pc = "stopping"
    /\ SetRunning(worker[w].conn, FALSE)
    /\ Die(w)
    /\ UNCHANGED <<registry, meta, samples, req, phase, boot>>

\* The statement raises.  The report of a sample is inside the try block (what
\* follows is another report); elsewhere the exception ends the thread, after a
\* last mark_runtime_stopped for the kinds that have it in a finally block.
WorkerDbError(w) ==
    /\ DbMayFail
    /\ \/ worker[w].pc \in {"announcing", "unbuildable", "fetching", "stopping"} /\ Die(w)
       \/ Step(w, "recorded", "fetching")
       \/ Step(w, "fetching", "stopping")
    /\ UNCHANGED <<row, registry, meta, samples, req, phase, boot>>

-----------------------------------------------------------------------------
(***************************************************************************)
(* The process.  A crash loses everything but the table.  Requests are     *)
(* served once the start-up hook has returned.                             *)
(***************************************************************************)
Crash ==
    /\ MayCrash
    /\ phase # "down"
    /\ phase' = "down"
    /\ boot' = {}
    /\ registry' = [c \in Connectors |-> None]
    /\ meta' = {} /\ samples' = {}
    /\ worker' = [w \in Workers |-> Nobody]
    /\ req' = [r \in Requests |-> NoRequest]
    /\ UNCHANGED row

\* init_schema: the connector of a user who has no other comes back enabled.
BootMigrate ==
    /\ phase = "down"
    /\ phase' = "migrated"
    /\ row' = [c \in Connectors |->
                IF {d \in Connectors : Stored(d)} = {c}
                THEN [row[c] EXCEPT !.enabled = TRUE] ELSE row[c]]
    /\ UNCHANGED <<registry, meta, samples, worker, req, boot>>

\* list_enabled_connector_records
BootRead ==
    /\ phase = "migrated"
    /\ phase' = "booting"
    /\ boot' = {[conn |-> c, config |-> row[c].config] : c \in {d \in Connectors : Enabled(d)}}
    /\ UNCHANGED <<row, registry, meta, samples, worker, req>>

BootStart ==
    /\ phase = "booting"
    /\ \E b \in boot : /\ StartConnector(b.conn, b.config)
                       /\ boot' = boot \ {b}
    /\ UNCHANGED <<row, samples, req, phase>>

BootDone ==
    /\ phase = "booting"
    /\ boot = {}
    /\ phase' = "up"
    /\ UNCHANGED <<row, registry, meta, samples, worker, req, boot>>

Arrive(r) ==
    \E c \in Connectors :
        \/ CreateCheck(r, c) \/ UpdateRow(r, c) \/ EnableRow(r, c)
        \/ DisablePop(r, c) \/ DeleteRead(r, c)

Serve(r) ==
    \/ CreateInsert(r) \/ ReadRecord(r) \/ Pop(r) \/ Signal(r) \/ Join(r)
    \/ Purge(r) \/ MarkStopped(r) \/ Start(r) \/ Drop(r) \/ TurnOff(r)

Work(w) ==
    \/ Announce(w) \/ MarkStarted(w) \/ LoopTest(w) \/ RecordSample(w)
    \/ ReportSample(w) \/ EndFetch(w) \/ GiveUp(w) \/ MarkWorkerStopped(w)

Boot == BootMigrate \/ BootRead \/ BootStart \/ BootDone

Next ==
    \/ \E r \in Requests : Arrive(r) \/ Serve(r) \/ RequestDbError(r)
    \/ \E w \in Workers : Work(w) \/ WorkerDbError(w)
    \/ Boot \/ Crash

Spec == Init /\ [][Next]_vars

(***************************************************************************)
(* The operating system runs every thread and a fetch ends: it returns a   *)
(* finite list, or its driver times out, and the subscription loops test   *)
(* stop_event every second.  Clients and crashes are under no obligation.  *)
(* Start is strongly fair because a thread can always be created: only the *)
(* bound Workers makes the step wait.                                      *)
(***************************************************************************)
Fairness ==
    /\ \A r \in Requests : WF_vars(Serve(r)) /\ SF_vars(Start(r))
    /\ \A w \in Workers : WF_vars(Work(w)) /\ SF_vars(EndFetch(w))
    /\ WF_vars(Boot)

FairSpec == Spec /\ Fairness

-----------------------------------------------------------------------------
(***************************************************************************)
(* Properties.                                                             *)
(***************************************************************************)
Live(c) == {w \in Workers : Alive(w) /\ worker[w].conn = c}
InFlight(c) == {r \in Requests : req[r].pc # "idle" /\ req[r].conn = c}
Polled(c) == HasLiveWorker(c) /\ worker[registry[c]].config \notin Subscriptions
Quiet == phase = "up" /\ \A r \in Requests : req[r].pc = "idle"

\* Stop_connector hands a worker over: every live thread is registered under its
\* own connector and not told to stop, or already told, or about to be told by
\* the one request that took it out of the registry.  No thread polls a plant
\* for ever with nobody able to stop it, whatever the interleaving and the faults.
NoOrphanWorker ==
    \A w \in Workers : Alive(w) =>
        \/ worker[w].stop
        \/ registry[worker[w].conn] = w
        \/ \E r \in Requests : At(r, "signal") /\ req[r].held = w

\* A connector is polled by one thread that means to go on: of two live threads
\* of a connector one was told to stop or is being told (stop_connector may time
\* out, and start_connector then starts a second thread beside the first).
AtMostOneUnstopped ==
    \A c \in Connectors : \A v, w \in Live(c) :
        v # w => \E u \in {v, w} :
            worker[u].stop \/ \E r \in Requests : At(r, "signal") /\ req[r].held = u

\* What the start-up hook, create, update and enable promise together under every
\* interleaving of requests and across restarts: while no request is at work on an
\* enabled connector, nor failed on it since the start, a thread that nobody told to stop
\* is registered for it.  (The thread may have ended by itself when its client could not
\* be built, or a statement of its own raised.)
EnabledIsServed ==
    phase = "up" =>
        \A c \in Connectors : Enabled(c) /\ InFlight(c) = {} =>
            registry[c] # None /\ ~worker[registry[c]].stop

\* With requests one at a time the registry agrees with the table whenever no
\* request is at work: exactly the enabled connectors have a worker, running the
\* configuration of the table - although an old thread may still be finishing.
RegistryAgreesWithTable ==
    Quiet => \A c \in Connectors :
        /\ registry[c] # None <=> Enabled(c)
        /\ HasLiveWorker(c) => worker[registry[c]].config = row[c].config

\* With requests one at a time and no join that times out, nothing of a stopped or
\* deleted connector is left: no thread, no sample, no metadata, no running flag.
StoppedLeavesNothing ==
    Quiet => \A c \in Connectors : ~Enabled(c) =>
        Live(c) = {} /\ c \notin samples \cup meta /\ ~row[c].running

(***************************************************************************)
(* The runtime implements WorkerSlots: the registry is the table of slots. *)
(* LiveWorkers is the mapped value of its variable alive.                  *)
(***************************************************************************)
LiveWorkers == {w \in Workers : Alive(w)}

Slots == INSTANCE WorkerSlots WITH owner <- registry, alive <- LiveWorkers

\* Every step of requests, workers, start-up hook and crash is a step of the slots
\* or leaves them alone.
ImplementsSlots == Slots!Spec

\* A request never waits for ever: the join is bounded by its timeout or by the
\* end of the worker.
RequestsFinish ==
    \A r \in Requests : req[r].pc # "idle" ~> req[r].pc \in {"idle", "failed"}

\* A thread that was told to stop ends.
StoppedWorkersEnd == \A w \in Workers : worker[w].stop ~> ~Alive(w)

\* The last write of an old thread may show a freshly started connector as not
\* running; the reports of a thread that polls repair that.  (A subscription that
\* nothing happens to is shown as stopped for as long.)
RunningIsRepaired ==
    \A c \in Connectors :
        Polled(c) /\ Stored(c) ~> row[c].running \/ ~Polled(c) \/ ~Stored(c)

\* With joins that may time out, the work that requests start and stop comes to its end, and
\* the row shows what goes on.
WorkSettles == RequestsFinish /\ StoppedWorkersEnd /\ RunningIsRepaired

=============================================================================
