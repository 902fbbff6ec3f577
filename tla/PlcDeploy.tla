------------------------------ MODULE PlcDeploy -------------------------------
(***************************************************************************)
(* The IO mapping of a project (services/io_mapping_engine.py) and its     *)
(* deployment to an OpenPLC runtime (services/runtime_deployer.py).        *)
(*                                                                         *)
(* Saving a mapping is a list of statements, each committed on its own:    *)
(* the files, the old versions made inactive, the new version, its rows    *)
(* one by one.  Any statement may fail, and the request ends where it is.  *)
(* A deployment uploads the bundled program to the PLC, has it compiled,   *)
(* looks for the project's name on the PLC's pages, sends the IO rows and  *)
(* starts the PLC.  Deployments run beside each other and beside a request *)
(* for the IO mapping; those come one at a time.                           *)
(*                                                                         *)
(* The PLC is external: it stores what is uploaded and runs what was       *)
(* compiled last.                                                          *)
(***************************************************************************)
EXTENDS Integers, Sequences, FiniteSets, PythonNone

CONSTANTS
    Plants,      \* projects that deploy to the PLC
    Logics,      \* contents of a project's control logic
    Signals,     \* IO rows a mapping can have
    Deployers,   \* request threads that deploy
    MaxVersions  \* bound: versions of the mapping that are recorded

ASSUME PlcAssumption ==
    /\ MaxVersions \in Nat
    /\ None \notin Plants \cup Logics

VARIABLES
    logic,      \* control_logic/*.st of each project; None when there are no files
    versions,   \* io_mapping_versions with their rows, oldest first (of the one mapped project)
    latestFile, \* io_mapping_latest.json
    ioJob,      \* the IO mapping request under way
    damaged,    \* a save has failed and none has succeeded since
    plc,        \* the PLC
    deployment  \* what each thread deploys, or the report of its last deployment

ioVars == <<versions, latestFile, ioJob, damaged>>
plcVars == <<logic, versions, latestFile, ioJob, damaged, plc, deployment>>

Mapping == SUBSET Signals
Version == [active : BOOLEAN, rows : Mapping]
File == [number : 0..MaxVersions, rows : Mapping]
Program == [of : Plants, code : Logics]

NoJob == [step |-> "none", number |-> 0, rows |-> {}]
NoDeploy == [step |-> "none", of |-> None, code |-> None, io |-> {}]

PlcInit ==
    /\ logic = [p \in Plants |-> None]
    /\ versions = <<>>
    /\ latestFile = [number |-> 0, rows |-> {}]
    /\ ioJob = NoJob
    /\ damaged = FALSE
    /\ plc = [stored |-> {}, upload |-> None, loaded |-> None, io |-> {}, running |-> FALSE]
    /\ deployment = [d \in Deployers |-> NoDeploy]

\* get_latest_io_mapping: the active version, or the newest one when none is.
ServedNumber ==
    IF \E n \in DOMAIN versions : versions[n].active
    THEN CHOOSE n \in DOMAIN versions : versions[n].active
    ELSE Len(versions)

Inactive == [n \in DOMAIN versions |-> [versions[n] EXCEPT !.active = FALSE]]

\* A logic run writes new files.
GenerateLogic(p, code) ==
    /\ logic' = [logic EXCEPT ![p] = code]
    /\ UNCHANGED <<versions, latestFile, ioJob, damaged, plc, deployment>>

-----------------------------------------------------------------------------
(* save_io_mapping and set_active_io_mapping_version. *)

\* The next number is read and the files of the version are written.
SaveFiles(rows) ==
    /\ ioJob = NoJob
    /\ Len(versions) < MaxVersions
    /\ latestFile' = [number |-> Len(versions) + 1, rows |-> rows]
    /\ ioJob' = [step |-> "deactivate", number |-> Len(versions) + 1, rows |-> rows]
    /\ damaged' = TRUE
    /\ UNCHANGED <<logic, versions, plc, deployment>>

ActivateVersion(n) ==
    /\ ioJob = NoJob
    /\ n \in DOMAIN versions
    /\ ioJob' = [step |-> "deactivate", number |-> n, rows |-> {}]
    /\ UNCHANGED <<logic, versions, latestFile, damaged, plc, deployment>>

\* A unique index refuses a second active version; as the requests come one at a time and
\* deactivate first, it never has one to refuse.
Deactivate ==
    /\ ioJob.step = "deactivate"
    /\ versions' = Inactive
    /\ ioJob' = [ioJob EXCEPT !.step = IF ioJob.number > Len(versions) THEN "insert" ELSE "mark"]
    /\ UNCHANGED <<logic, latestFile, damaged, plc, deployment>>

InsertVersion ==
    /\ ioJob.step = "insert"
    /\ versions' = Append(versions, [active |-> TRUE, rows |-> {}])
    /\ ioJob' = [ioJob EXCEPT !.step = "rows"]
    /\ UNCHANGED <<logic, latestFile, damaged, plc, deployment>>

InsertRow ==
    /\ ioJob.step = "rows"
    /\ \E s \in ioJob.rows \ versions[ioJob.number].rows :
        versions' = [versions EXCEPT ![ioJob.number].rows = @ \cup {s}]
    /\ UNCHANGED <<logic, latestFile, ioJob, damaged, plc, deployment>>

SaveEnds ==
    /\ ioJob.step = "rows"
    /\ ioJob.rows = versions[ioJob.number].rows
    /\ ioJob' = NoJob
    /\ damaged' = FALSE
    /\ UNCHANGED <<logic, versions, latestFile, plc, deployment>>

MarkActive ==
    /\ ioJob.step = "mark"
    /\ versions' = [versions EXCEPT ![ioJob.number].active = TRUE]
    /\ ioJob' = [ioJob EXCEPT !.step = "files"]
    /\ UNCHANGED <<logic, latestFile, damaged, plc, deployment>>

\* Mutant: the files stay those of the version saved last.
ServeWithoutFiles ==
    /\ ioJob.step = "files"
    /\ ioJob' = NoJob
    /\ UNCHANGED <<logic, versions, latestFile, damaged, plc, deployment>>

\* The files of the activated version are written again from what is now served.
WriteServed ==
    /\ ioJob.step = "files"
    /\ latestFile' = [number |-> ioJob.number, rows |-> versions[ServedNumber].rows]
    /\ ioJob' = NoJob
    /\ UNCHANGED <<logic, versions, damaged, plc, deployment>>

\* A statement or a write fails, or the process ends.
IoRequestFails ==
    /\ ioJob # NoJob
    /\ ioJob' = NoJob
    /\ damaged' = TRUE
    /\ UNCHANGED <<logic, versions, latestFile, plc, deployment>>

-----------------------------------------------------------------------------
(* deploy_to_runtime: one step after the other, each only without errors. *)

Fail(d) == deployment' = [deployment EXCEPT ![d].step = "failed"]
Pass(d, step) == deployment' = [deployment EXCEPT ![d].step = step]
Bundle(d) == [of |-> deployment[d].of, code |-> deployment[d].code]

\* The PLC is reachable and there are program files, which are bundled.
BeginDeploy(d, p) ==
    /\ deployment[d].step \in {"none", "passed", "failed"}
    /\ deployment' = [deployment EXCEPT ![d] =
            [step |-> IF logic[p] = None THEN "failed" ELSE "upload",
             of |-> p, code |-> logic[p], io |-> {}]]
    /\ UNCHANGED <<logic, ioVars, plc>>

\* Mutant: a failed upload is a warning.
UploadAnyway(d) ==
    /\ deployment[d].step = "upload"
    /\ Pass(d, "compile")
    /\ \/ UNCHANGED plc
       \/ plc' = [plc EXCEPT !.stored = @ \cup {deployment[d].of}, !.upload = Bundle(d)]
    /\ UNCHANGED <<logic, ioVars>>

\* Any page that is neither a login page nor names a failure counts as accepted.
Upload(d) ==
    /\ deployment[d].step = "upload"
    /\ \/ Fail(d) /\ UNCHANGED plc
       \/ /\ Pass(d, "compile")
          /\ plc' = [plc EXCEPT !.stored = @ \cup {deployment[d].of}, !.upload = Bundle(d)]
    /\ UNCHANGED <<logic, ioVars>>

\* The request names no program: the PLC compiles what was uploaded last.
Compile(d) ==
    /\ deployment[d].step = "compile"
    /\ \/ Fail(d) /\ UNCHANGED plc
       \/ Pass(d, "verify") /\ plc' = [plc EXCEPT !.loaded = plc.upload]
    /\ UNCHANGED <<logic, ioVars>>

\* The project's name is looked for on the first pages of the PLC, the list of its
\* programs among them; a blank program is refused.
Verify(d) ==
    /\ deployment[d].step = "verify"
    /\ IF plc.loaded # None /\ deployment[d].of \in plc.stored THEN Pass(d, "io") ELSE Fail(d)
    /\ UNCHANGED <<logic, ioVars, plc>>

\* The rows of the served version, or those of the latest file when no version is
\* recorded; without rows the deployment fails.
BoundRows == IF versions = <<>> THEN latestFile.rows ELSE versions[ServedNumber].rows

ApplyIo(d) ==
    /\ deployment[d].step = "io"
    /\ \/ Fail(d) /\ UNCHANGED plc
       \/ /\ BoundRows # {}
          /\ plc' = [plc EXCEPT !.io = BoundRows]
          /\ deployment' = [deployment EXCEPT ![d].step = "start", ![d].io = BoundRows]
    /\ UNCHANGED <<logic, ioVars>>

StartPlc(d) ==
    /\ deployment[d].step = "start"
    /\ \/ Fail(d) /\ UNCHANGED plc
       \/ Pass(d, "passed") /\ plc' = [plc EXCEPT !.running = TRUE]
    /\ UNCHANGED <<logic, ioVars>>

PlcNext ==
    \/ \E p \in Plants, code \in Logics : GenerateLogic(p, code)
    \/ \E rows \in Mapping \ {{}} : SaveFiles(rows)
    \/ \E n \in 1..MaxVersions : ActivateVersion(n)
    \/ Deactivate \/ InsertVersion \/ InsertRow \/ SaveEnds \/ MarkActive \/ WriteServed
    \/ IoRequestFails
    \/ \E d \in Deployers :
        \/ \E p \in Plants : BeginDeploy(d, p)
        \/ Upload(d) \/ Compile(d) \/ Verify(d) \/ ApplyIo(d) \/ StartPlc(d)

PlcSpec == PlcInit /\ [][PlcNext]_plcVars

-----------------------------------------------------------------------------
PlcTypeOK ==
    /\ logic \in [Plants -> {None} \cup Logics]
    /\ versions \in Seq(Version) /\ Len(versions) <= MaxVersions
    /\ latestFile \in File
    /\ ioJob \in [step : {"none", "deactivate", "insert", "rows", "mark", "files"},
                  number : 0..MaxVersions, rows : Mapping]
    /\ damaged \in BOOLEAN
    /\ plc \in [stored : SUBSET Plants, upload : {None} \cup Program,
                loaded : {None} \cup Program, io : Mapping, running : BOOLEAN]
    /\ deployment \in [Deployers ->
            [step : {"none", "upload", "compile", "verify", "io", "start", "passed", "failed"},
             of : {None} \cup Plants, code : {None} \cup Logics, io : Mapping]]

\* A save that succeeds puts right whatever failed saves and activations left behind:
\* from then on, through every activation, one version is active, and the latest file
\* holds the mapping that is served.
LatestFileIsServed ==
    ioJob = NoJob /\ ~damaged /\ versions # <<>> =>
        /\ Cardinality({n \in DOMAIN versions : versions[n].active}) = 1
        /\ latestFile = [number |-> ServedNumber, rows |-> versions[ServedNumber].rows]

\* "only pass when generated logic is verifiably loaded" (runtime_deployer.py:548): when
\* a deployment passes, the PLC runs the logic it bundled, with the IO rows it bound.
Passes(d) == deployment[d].step # "passed" /\ deployment'[d].step = "passed"

PassedRunsTheLogic ==
    [][\A d \in Deployers : Passes(d) =>
            plc'.loaded = Bundle(d) /\ plc'.running /\ plc'.io = deployment[d].io]_plcVars
===============================================================================
