----------------------------- MODULE RuntimeControl -----------------------------
(***************************************************************************)
(* Deploying to the headless PLC runtime and controlling its process: the  *)
(* runtime manager, the matiec/gcc adapter, the routes under /runtime, the *)
(* runtime deploy of an export handoff, and the deployment row of each     *)
(* project.  Nothing here takes a lock: requests of the thread pool share  *)
(* the build directory of a project, the active project and the handle of  *)
(* the process.  The handle is the adapter's _runtime_process; a process   *)
(* it no longer refers to lives on by itself (start_new_session).          *)
(***************************************************************************)
EXTENDS Naturals

CONSTANTS
    Projects, Requests,
    Processes,     \* bound on the processes alive or referenced at once
    Names, Texts,  \* of ST files
    Broken,        \* the texts that do not compile
    None,          \* no text, no program, no project, no process, no row
    Bundling,      \* whether a generation bundles main.st: it may (TRUE), may not (FALSE)
    Handoffs,      \* projects are exported and handed off to the runtime too
    ToolsMayFail,  \* iec2c, gcc, make, a write or Popen may fail or be missing
    MayCrash       \* the backend may die and be started again

Program == [Names -> Texts \cup {None}]
NoFiles == [n \in Names |-> None]

ASSUME NoneAssumption == None \notin Projects \cup Processes \cup Texts \cup Program
ASSUME BundlingAssumption == Bundling \subseteq BOOLEAN
ASSUME BrokenAssumption == Broken \subseteq Texts
ASSUME SwitchesAssumption == {Handoffs, ToolsMayFail, MayCrash} \subseteq BOOLEAN

VARIABLES
    source,    \* the ST files in the workspace of a project, with main.st the bundle
               \* of them all (a finished generation) or only one of them (a rejected one)
    export,    \* whether a project has an export package
    dir,       \* the build directory of a project: ST files, the bundle in its main.st,
               \* generated C, stub main, binary
    activeId,  \* _active_project_id
    activeDir, \* _active_project_dir, named by its project
    handle,    \* the adapter's _runtime_process
    process,   \* every process object
    store,     \* runtime_deployments: one row per project
    outcome,   \* the last deploy of a project: its answer, the ST it took (history)
    req        \* every API thread

vars == <<source, export, dir, activeId, activeDir, handle, process, store, outcome, req>>

Maybe(S) == S \cup {None}
Verdict == {"passed", "failed"}

RowType == [deploy: {"deployed", "failed", "running", "stopped"}, validation: Verdict]
ASSUME RowAssumption == None \notin RowType

SourceType == [files: Program, bundled: BOOLEAN]
DirType == [files: Program, bundle: Maybe(Program), gen: Maybe(Program), stub: BOOLEAN,
            bin: Maybe(Program)]
ProcessType == [state: {"running", "told", "ended"}, proj: Maybe(Projects),
                program: Maybe(Program)]
OutcomeType == [verdict: Maybe(Verdict), took: SourceType]
Pc == {"idle", "prepare", "id", "dir", "clear", "compile", "generate", "clean", "make",
       "apply", "again", "start", "spawn", "record", "read", "write"}
RequestType == [pc: Pc, op: {"none", "deploy", "handoff", "start", "stop", "restart"},
                proj: Maybe(Projects), ok: BOOLEAN, row: Maybe(RowType),
                took: SourceType]

Nothing == [files |-> NoFiles, bundled |-> FALSE]
Idle == [pc |-> "idle", op |-> "none", proj |-> None, ok |-> FALSE, row |-> None,
         took |-> Nothing]
Ended == [state |-> "ended", proj |-> None, program |-> None]

TypeOK ==
    /\ source \in [Projects -> SourceType]
    /\ export \in [Projects -> BOOLEAN]
    /\ dir \in [Projects -> DirType]
    /\ activeId \in Maybe(Projects) /\ activeDir \in Maybe(Projects)
    /\ handle \in Maybe(Processes)
    /\ process \in [Processes -> ProcessType]
    /\ store \in [Projects -> Maybe(RowType)]
    /\ outcome \in [Projects -> OutcomeType]
    /\ req \in [Requests -> RequestType]

Init ==
    /\ source = [p \in Projects |-> Nothing]
    /\ export = [p \in Projects |-> FALSE]
    /\ dir = [p \in Projects |-> [files |-> NoFiles, bundle |-> None, gen |-> None,
                                  stub |-> FALSE, bin |-> None]]
    /\ activeId = None /\ activeDir = None /\ handle = None
    /\ process = [x \in Processes |-> Ended]
    /\ store = [p \in Projects |-> None]
    /\ outcome = [p \in Projects |-> [verdict |-> None, took |-> Nothing]]
    /\ req = [r \in Requests |-> Idle]

-----------------------------------------------------------------------------
At(r, pc) == req[r].pc = pc
Goto(r, pc) == req' = [req EXCEPT ![r].pc = pc]
Finish(r) == req' = [req EXCEPT ![r] = Idle]
Begin(r, op, p, pc) ==
    /\ At(r, "idle")
    /\ req' = [req EXCEPT ![r] = [Idle EXCEPT !.pc = pc, !.op = op, !.proj = p]]

Deploying(r) == req[r].op \in {"deploy", "handoff"}

\* A step failed: a deploy skips the rest, start and stop go on to the row, restart returns.
Fail(r) == IF req[r].op = "restart" THEN Finish(r)
           ELSE Goto(r, IF Deploying(r) THEN "record" ELSE "read")

\* A process runs or ends; poll() sees the difference, SIGTERM is only asked for.
Alive(x) == process[x].state # "ended"
HandleAlive == handle # None /\ Alive(handle)

\* stop_runtime: SIGTERM to the group of the handle's process, which nobody waits for.
Terminate == process' = [process EXCEPT ![handle].state = "told"]

-----------------------------------------------------------------------------
(***************************************************************************)
(* runtime_manager.deploy, called by POST /runtime/deploy ("deploy") and   *)
(* by an export handoff that triggers the runtime ("handoff").             *)
(***************************************************************************)
Deploy(r, p) ==
    /\ At(r, "idle")
    /\ \E pc \in {"prepare"} \cup (IF ToolsMayFail THEN {"record"} ELSE {}) :
          \/ Begin(r, "deploy", p, pc)
          \/ Handoffs /\ export[p] /\ Begin(r, "handoff", p, pc)
    /\ UNCHANGED <<source, export, dir, activeId, activeDir, handle, process, store, outcome>>

\* The ST files a deploy copies are laid over those of earlier deploys.
Over(new, old) == [n \in Names |-> IF new[n] = None THEN old[n] ELSE new[n]]

\* Mutant: main.st is kept if an earlier deploy left one.
PrepareKeepMain(r) ==
    LET p == req[r].proj
        s == source[p] IN
    /\ At(r, "prepare")
    /\ dir' = IF s.files = NoFiles THEN dir
              ELSE [dir EXCEPT ![p].files = Over(s.files, @), ![p].stub = TRUE,
                               ![p].bundle = IF @ # None THEN @
                                             ELSE IF s.bundled THEN s.files ELSE None]
    /\ req' = [req EXCEPT ![r].pc = "id", ![r].ok = s.files # NoFiles, ![r].took = s]
    /\ UNCHANGED <<source, export, activeId, activeDir, handle, process, store, outcome>>

\* create_runtime_project: copy the ST files, write Makefile and stub main.
Prepare(r) ==
    LET p == req[r].proj
        s == source[p] IN
    /\ At(r, "prepare")
    /\ dir' = IF s.files = NoFiles THEN dir
              ELSE [dir EXCEPT ![p].files = Over(s.files, @), ![p].stub = TRUE,
                               ![p].bundle = IF s.bundled THEN s.files ELSE None]
    /\ req' = [req EXCEPT ![r].pc = "id", ![r].ok = s.files # NoFiles, ![r].took = s]
    /\ UNCHANGED <<source, export, activeId, activeDir, handle, process, store, outcome>>

\* The project becomes the active one, prepared or not.
SetActiveId(r) ==
    /\ At(r, "id")
    /\ activeId' = req[r].proj
    /\ Goto(r, "dir")
    /\ UNCHANGED <<source, export, dir, activeDir, handle, process, store, outcome>>

\* Mutant: a deploy with nothing to prepare leaves no active directory.
ForgetActiveDir(r) ==
    /\ At(r, "dir")
    /\ activeDir' = IF req[r].ok THEN req[r].proj ELSE None
    /\ req' = [req EXCEPT ![r].pc = IF req[r].ok THEN "clear" ELSE "record", ![r].ok = FALSE]
    /\ UNCHANGED <<source, export, dir, activeId, handle, process, store, outcome>>

SetActiveDir(r) ==
    /\ At(r, "dir")
    /\ activeDir' = req[r].proj
    /\ req' = [req EXCEPT ![r].pc = IF req[r].ok THEN "clear" ELSE "record", ![r].ok = FALSE]
    /\ UNCHANGED <<source, export, dir, activeId, handle, process, store, outcome>>

\* compile_st drops the generated C ...
ClearGenerated(r) ==
    /\ At(r, "clear")
    /\ dir' = [dir EXCEPT ![req[r].proj].gen = None]
    /\ Goto(r, "compile")
    /\ UNCHANGED <<source, export, activeId, activeDir, handle, process, store, outcome>>

\* What is compiled: main.st alone if it is a bundle, else every ST file there is.
Bundle(p) == IF dir[p].bundle # None THEN dir[p].bundle ELSE dir[p].files

Compiles(program) == \A n \in Names : program[n] \notin Broken

\* Mutant: the verdict of the check of the externals is dropped.
CompileAnyway(r) ==
    LET p == req[r].proj IN
    /\ At(r, "compile")
    /\ dir' = [dir EXCEPT ![p].gen = Bundle(p)]
    /\ Goto(r, "generate")
    /\ UNCHANGED <<source, export, activeId, activeDir, handle, process, store, outcome>>

\* ... and runs iec2c; a broken program fails there or when its externals are checked.
CompileSt(r) ==
    LET p == req[r].proj
        compiles == Compiles(Bundle(p)) IN
    /\ At(r, "compile")
    /\ \/ /\ dir' = [dir EXCEPT ![p].gen = Bundle(p)]
          /\ IF compiles THEN Goto(r, "generate") ELSE Fail(r)
       \/ (ToolsMayFail \/ ~compiles) /\ UNCHANGED dir /\ Fail(r)
    /\ UNCHANGED <<source, export, activeId, activeDir, handle, process, store, outcome>>

\* generate_c: with no generated C (another deploy dropped it) it takes the stub main.
GenerateC(r) ==
    LET p == req[r].proj IN
    /\ At(r, "generate")
    /\ IF dir[p].gen # None \/ dir[p].stub THEN Goto(r, "clean") ELSE Fail(r)
    /\ dir' = IF dir[p].gen = None THEN [dir EXCEPT ![p].stub = FALSE] ELSE dir
    /\ UNCHANGED <<source, export, activeId, activeDir, handle, process, store, outcome>>

\* build_runtime: make clean removes the binary (or fails, which is only logged) ...
MakeClean(r) ==
    /\ At(r, "clean")
    /\ \/ dir' = [dir EXCEPT ![req[r].proj].bin = None]
       \/ ToolsMayFail /\ UNCHANGED dir
    /\ Goto(r, "make")
    /\ UNCHANGED <<source, export, activeId, activeDir, handle, process, store, outcome>>

\* ... and make builds it.
Make(r) ==
    LET p == req[r].proj IN
    /\ At(r, "make")
    /\ \/ /\ dir[p].gen # None /\ dir[p].stub
          /\ dir' = [dir EXCEPT ![p].bin = dir[p].gen]
          /\ Goto(r, "apply")
       \/ /\ ToolsMayFail \/ dir[p].gen = None \/ ~dir[p].stub
          /\ UNCHANGED dir
          /\ Fail(r)
    /\ UNCHANGED <<source, export, activeId, activeDir, handle, process, store, outcome>>

ApplyIo(r) ==
    /\ At(r, "apply")
    /\ Goto(r, "start") \/ (ToolsMayFail /\ Fail(r))
    /\ UNCHANGED <<source, export, dir, activeId, activeDir, handle, process, store, outcome>>

\* Mutant: start_runtime does not stop the process that runs.
SpawnBeside(r) ==
    /\ At(r, "start")
    /\ IF dir[req[r].proj].bin = None THEN Fail(r) ELSE Goto(r, "spawn")
    /\ UNCHANGED <<source, export, dir, activeId, activeDir, handle, process, store, outcome>>

\* start_runtime: no binary, no start; a running process is told to terminate ...
StopBeforeStart(r) ==
    /\ At(r, "start")
    /\ IF dir[req[r].proj].bin = None
       THEN Fail(r) /\ UNCHANGED process
       ELSE /\ Goto(r, "spawn")
            /\ IF HandleAlive THEN Terminate ELSE UNCHANGED process
    /\ UNCHANGED <<source, export, dir, activeId, activeDir, handle, store, outcome>>

\* ... and Popen replaces the handle.
Spawn(r) ==
    LET p == req[r].proj IN
    /\ At(r, "spawn")
    /\ \/ /\ dir[p].bin # None
          /\ \E x \in Processes :
                /\ ~Alive(x) /\ x # handle
                /\ process' = [process EXCEPT ![x] =
                        [state |-> "running", proj |-> p, program |-> dir[p].bin]]
                /\ handle' = x
          /\ IF req[r].op = "restart" THEN Finish(r)
             ELSE req' = [req EXCEPT ![r].ok = TRUE,
                                     ![r].pc = IF Deploying(r) THEN "record" ELSE "read"]
       \/ /\ dir[p].bin = None \/ ToolsMayFail
          /\ Fail(r)
          /\ UNCHANGED <<process, handle>>
    /\ UNCHANGED <<source, export, dir, activeId, activeDir, store, outcome>>

Said(ok) == IF ok THEN "passed" ELSE "failed"

\* The answer of a deploy; the route also writes the row, the handoff does not.
RecordDeploy(r) ==
    /\ At(r, "record")
    /\ outcome' = [outcome EXCEPT ![req[r].proj] =
                     [verdict |-> Said(req[r].ok),
                      took |-> IF req[r].ok THEN req[r].took ELSE Nothing]]
    /\ store' = IF req[r].op = "deploy"
                THEN [store EXCEPT ![req[r].proj] =
                        [deploy |-> IF req[r].ok THEN "deployed" ELSE "failed",
                         validation |-> Said(req[r].ok)]]
                ELSE store
    /\ Finish(r)
    /\ UNCHANGED <<source, export, dir, activeId, activeDir, handle, process>>

-----------------------------------------------------------------------------
(***************************************************************************)
(* POST /runtime/start, stop and restart.  The row is read and written     *)
(* back whole, with deploy_status replaced if the action passed.           *)
(***************************************************************************)
Start(r) ==
    /\ IF activeDir = None THEN Begin(r, "start", None, "read")
                           ELSE Begin(r, "start", activeDir, "start")
    /\ UNCHANGED <<source, export, dir, activeId, activeDir, handle, process, store, outcome>>

Stop(r) ==
    /\ At(r, "idle")
    /\ req' = [req EXCEPT ![r] =
                [Idle EXCEPT !.pc = "read", !.op = "stop", !.ok = HandleAlive]]
    /\ IF HandleAlive THEN Terminate ELSE UNCHANGED process
    /\ UNCHANGED <<source, export, dir, activeId, activeDir, handle, store, outcome>>

\* restart: a stop that must pass ...
Restart(r) ==
    /\ HandleAlive
    /\ Begin(r, "restart", None, "again")
    /\ Terminate
    /\ UNCHANGED <<source, export, dir, activeId, activeDir, handle, store, outcome>>

\* ... then a start; no row is written.
StartAgain(r) ==
    /\ At(r, "again")
    /\ req' = [req EXCEPT ![r].pc = "start", ![r].proj = activeDir]
    /\ UNCHANGED <<source, export, dir, activeId, activeDir, handle, process, store, outcome>>

ReadRow(r) ==
    /\ At(r, "read")
    /\ IF activeId # None /\ store[activeId] # None
       THEN req' = [req EXCEPT ![r].pc = "write", ![r].proj = activeId,
                               ![r].row = store[activeId]]
       ELSE Finish(r)
    /\ UNCHANGED <<source, export, dir, activeId, activeDir, handle, process, store, outcome>>

\* Mutant: writing the row forgets that the validation failed.
WriteFresh(r) ==
    /\ At(r, "write")
    /\ store' = [store EXCEPT ![req[r].proj] =
            [deploy |-> IF ~req[r].ok THEN req[r].row.deploy
                        ELSE IF req[r].op = "start" THEN "running" ELSE "stopped",
             validation |-> "passed"]]
    /\ Finish(r)
    /\ UNCHANGED <<source, export, dir, activeId, activeDir, handle, process, outcome>>

WriteRow(r) ==
    /\ At(r, "write")
    /\ store' = [store EXCEPT ![req[r].proj] =
            IF ~req[r].ok THEN req[r].row
            ELSE [req[r].row EXCEPT !.deploy =
                    IF req[r].op = "start" THEN "running" ELSE "stopped"]]
    /\ Finish(r)
    /\ UNCHANGED <<source, export, dir, activeId, activeDir, handle, process, outcome>>

-----------------------------------------------------------------------------
\* The engineer generates other ST files: old ones are deleted; a generation that is
\* rejected leaves its files, and main.st not the bundle of them.
Generate(p) ==
    /\ \E files \in Program, bundled \in Bundling :
          source' = [source EXCEPT ![p] = IF files = NoFiles THEN Nothing
                                          ELSE [files |-> files, bundled |-> bundled]]
    /\ UNCHANGED <<export, dir, activeId, activeDir, handle, process, store, outcome, req>>

\* An export packages the ST files of the workspace.
Export(p) ==
    /\ Handoffs
    /\ source[p].files # NoFiles
    /\ export' = [export EXCEPT ![p] = TRUE]
    /\ UNCHANGED <<source, dir, activeId, activeDir, handle, process, store, outcome, req>>

\* A process ends: by SIGTERM, or by itself (the stub main just returns).
End(x) ==
    /\ Alive(x)
    /\ process' = [process EXCEPT ![x] = Ended]
    /\ UNCHANGED <<source, export, dir, activeId, activeDir, handle, store, outcome, req>>

\* The backend dies; the processes it started do not.
Crash ==
    /\ MayCrash
    /\ activeId' = None /\ activeDir' = None /\ handle' = None
    /\ req' = [r \in Requests |-> Idle]
    /\ UNCHANGED <<source, export, dir, process, store, outcome>>

Serve(r) ==
    \/ Prepare(r) \/ SetActiveId(r) \/ SetActiveDir(r) \/ ClearGenerated(r) \/ CompileSt(r)
    \/ GenerateC(r) \/ MakeClean(r) \/ Make(r) \/ ApplyIo(r) \/ StopBeforeStart(r)
    \/ Spawn(r) \/ RecordDeploy(r) \/ StartAgain(r) \/ ReadRow(r) \/ WriteRow(r)

Next ==
    \/ \E r \in Requests :
        \/ \E p \in Projects : Deploy(r, p)
        \/ Start(r) \/ Stop(r) \/ Restart(r) \/ Serve(r)
    \/ \E p \in Projects : Generate(p) \/ Export(p)
    \/ \E x \in Processes : End(x)
    \/ Crash

Spec == Init /\ [][Next]_vars

-----------------------------------------------------------------------------
GoesOn(x) == process[x].state = "running"
Quiet == \A r \in Requests : At(r, "idle")

\* GET /runtime/state of a project.
RuntimeState(p) ==
    CASE activeId = p /\ HandleAlive -> "running"
      [] ~(activeId = p /\ HandleAlive) /\ store[p] = None -> "idle"
      [] OTHER -> IF store[p].deploy = "failed" THEN "failed" ELSE "stopped"

\* With requests one at a time the plant is driven by one process: any other was
\* told to terminate, so stop and the next deploy reach the one that goes on.
OneProcessGoesOn == \A x \in Processes : GoesOn(x) => x = handle

\* A restart that stopped the process finds a project to start, however many requests
\* are at work and wherever the backend died: no restart ends with the plant stopped
\* for want of a project.
RestartFindsAProject == \A r \in Requests : At(r, "again") => activeDir # None

\* With requests one at a time, once a deploy passed the process that goes on runs
\* the program that deploy took from the workspace: exactly it if main.st was the
\* bundle, and at least it if not (files an earlier deploy copied are compiled too) -
\* whatever was generated, built, stopped, started or restarted meanwhile.
RunsWhatWasDeployed ==
    Quiet => \A x \in Processes :
        GoesOn(x) /\ outcome[process[x].proj].verdict = "passed" =>
            LET took == outcome[process[x].proj].took IN
            /\ Over(took.files, process[x].program) = process[x].program
            /\ took.bundled => process[x].program = took.files

\* With requests one at a time no process runs a program that failed to compile or
\* whose externals were refused, though the C generated for it stays behind.
NothingBrokenRuns == \A x \in Processes : Alive(x) => Compiles(process[x].program)

\* With requests one at a time, the row's validation status is the answer of the
\* project's last deploy, whatever start and stop wrote back since.  "Persisted
\* deployment metadata is engineering state-of-record": a handoff breaks it.
RowTellsOutcome ==
    Quiet => \A p \in Projects :
        outcome[p].verdict # None =>
            store[p] # None /\ store[p].validation = outcome[p].verdict

\* "Confirm deployment state reflects actual runtime outcome": a project is reported
\* as running only if the process that runs is its own.
StateReflectsRuntime ==
    Quiet => \A p \in Projects : RuntimeState(p) = "running" => process[handle].proj = p
=============================================================================
