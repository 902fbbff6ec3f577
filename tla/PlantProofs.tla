------------------------------ MODULE PlantProofs ------------------------------
(***************************************************************************)
(* What is proved of what goes to a plant's PLC and comes from its rows,   *)
(* for any projects, signals, threads and number of versions: types, that  *)
(* the latest file is the mapping that is served, that a deployment with   *)
(* no other beside it passes only when the PLC runs its logic; of the      *)
(* addresses, for any signals and any width of a slot; and for any         *)
(* writers, rows and connections, that a page no message is on its way to  *)
(* has the rows of the unified namespace as they are, unless it was given  *)
(* something newer than what it shows and put something older in its       *)
(* place.                                                                  *)
(***************************************************************************)
EXTENDS PlcDeploy, IoChannels, Namespace, FiniteSetTheorems, SequenceTheorems, TLAPS

(***************************************************************************)
(* Types.  The mapping and the deployments are typed apart.                *)
(***************************************************************************)
VersionsType == versions \in Seq(Version) /\ Len(versions) <= MaxVersions
JobType ==
    /\ ioJob \in [step : {"none", "deactivate", "insert", "rows", "mark", "files"},
                  number : 0..MaxVersions, rows : Mapping]
    /\ damaged \in BOOLEAN
FileType == latestFile \in File
IoType == VersionsType /\ JobType /\ FileType

PlcType == plc \in [stored : SUBSET Plants, upload : {None} \cup Program,
                    loaded : {None} \cup Program, io : Mapping, running : BOOLEAN]
DeploymentType == deployment \in [Deployers ->
            [step : {"none", "upload", "compile", "verify", "io", "start", "passed", "failed"},
             of : {None} \cup Plants, code : {None} \cup Logics, io : Mapping]]
DeployType == logic \in [Plants -> {None} \cup Logics] /\ PlcType /\ DeploymentType

LEMMA TypeParts == PlcTypeOK <=> IoType /\ DeployType
<1>1. IoType <=> VersionsType /\ JobType /\ FileType
  BY DEF IoType
<1>2. PlcTypeOK <=> VersionsType /\ JobType /\ FileType /\ DeployType
  BY DEF PlcTypeOK, DeployType, VersionsType, JobType, FileType, PlcType, DeploymentType
<1>3. QED
  BY <1>1, <1>2

LEMMA VersionFields ==
    ASSUME VersionsType, NEW n \in DOMAIN versions
    PROVE  versions[n] \in Version /\ versions[n].rows \in Mapping /\ n \in 1..Len(versions)
<1>1. versions[n] \in Version /\ n \in 1..Len(versions)
  BY DEF VersionsType
<1>2. versions[n].rows \in Mapping
  BY <1>1 DEF Version
<1>3. QED
  BY <1>1, <1>2

\* The number that is served is a recorded one.
LEMMA ServedRecorded ==
    ASSUME VersionsType, versions # <<>> PROVE ServedNumber \in DOMAIN versions
<1>1. Len(versions) \in Nat /\ Len(versions) # 0 /\ DOMAIN versions = 1..Len(versions)
  BY DEF VersionsType
<1>2. Len(versions) \in DOMAIN versions
  BY <1>1
<1>3. QED
  BY <1>2 DEF ServedNumber

LEMMA IoInitType == PlcInit => IoType
<1> SUFFICES ASSUME PlcInit PROVE IoType
  OBVIOUS
<1>1. 0 \in 0..MaxVersions
  BY PlcAssumption
<1>2. VersionsType
  BY PlcAssumption DEF PlcInit, VersionsType
<1>3. JobType /\ FileType
  BY <1>1 DEF PlcInit, JobType, FileType, NoJob, File, Mapping
<1>4. QED
  BY <1>2, <1>3 DEF IoType

\* A step of the IO mapping request.
IoStep ==
    \/ \E entries \in Mapping \ {{}} : SaveFiles(entries)
    \/ \E n \in 1..MaxVersions : ActivateVersion(n)
    \/ Deactivate \/ InsertVersion \/ InsertRow \/ SaveEnds \/ MarkActive \/ WriteServed
    \/ IoRequestFails

DeployStep(d) ==
    \/ \E p \in Plants : BeginDeploy(d, p)
    \/ Upload(d) \/ Compile(d) \/ Verify(d) \/ ApplyIo(d) \/ StartPlc(d)

\* What is no step of the IO mapping request leaves it alone.
LEMMA NextParts ==
    ASSUME PlcNext
    PROVE  \/ IoStep
           \/ \E p \in Plants, code \in Logics : GenerateLogic(p, code)
           \/ \E d \in Deployers : DeployStep(d)
BY DEF PlcNext, IoStep, DeployStep

LEMMA LeavesIo ==
    ASSUME \/ \E p \in Plants, code \in Logics : GenerateLogic(p, code)
           \/ \E d \in Deployers : DeployStep(d)
    PROVE  UNCHANGED ioVars
BY DEF GenerateLogic, DeployStep, BeginDeploy, Upload, Compile, Verify, ApplyIo, StartPlc, ioVars

LEMMA JobFields ==
    ASSUME JobType
    PROVE  /\ ioJob.number \in 0..MaxVersions
           /\ ioJob.rows \in Mapping
           /\ ioJob.step \in {"none", "deactivate", "insert", "rows", "mark", "files"}
BY DEF JobType

(***************************************************************************)
(* Where a request is, and what its statements have left so far.           *)
(***************************************************************************)
NoneActive == \A n \in DOMAIN versions : ~versions[n].active
OnlyActive(n) ==
    /\ n \in DOMAIN versions
    /\ \A m \in DOMAIN versions : versions[m].active <=> m = n

\* The files hold what the request saves.
FilesOfJob == latestFile = [number |-> ioJob.number, rows |-> ioJob.rows]

JobAt ==
    /\ ioJob.step = "deactivate" =>
            \/ ioJob.number \in DOMAIN versions
            \/ ioJob.number = Len(versions) + 1 /\ damaged /\ FilesOfJob
    /\ ioJob.step = "insert" =>
            ioJob.number = Len(versions) + 1 /\ damaged /\ FilesOfJob /\ NoneActive
    /\ ioJob.step = "rows" =>
            ioJob.number = Len(versions) /\ damaged /\ FilesOfJob /\ OnlyActive(ioJob.number)
    /\ ioJob.step = "mark" => ioJob.number \in DOMAIN versions /\ NoneActive
    /\ ioJob.step = "files" => OnlyActive(ioJob.number)

\* Between requests, unless a save failed since the last that succeeded.
AtRest ==
    ioJob.step = "none" /\ ~damaged /\ versions # <<>> =>
        \E n \in DOMAIN versions :
            OnlyActive(n) /\ latestFile = [number |-> n, rows |-> versions[n].rows]

IoInv == IoType /\ JobAt /\ AtRest

LEMMA IoStepInv == ASSUME IoInv, IoStep PROVE IoInv'
<1> USE DEF IoInv, IoType
<1>l. Len(versions) \in Nat /\ DOMAIN versions = 1..Len(versions)
  BY DEF VersionsType
<1>z. 0 \in 0..MaxVersions /\ {} \in Mapping
  BY PlcAssumption DEF Mapping
<1>1. ASSUME NEW entries \in Mapping \ {{}}, SaveFiles(entries) PROVE IoInv'
  <2>1. Len(versions) + 1 \in 0..MaxVersions
    BY <1>1, <1>l, PlcAssumption DEF SaveFiles
  <2>2. JobType' /\ FileType' /\ VersionsType'
    BY <1>1, <2>1 DEF SaveFiles, JobType, FileType, File, VersionsType
  <2>3. JobAt' /\ AtRest'
    BY <1>1 DEF SaveFiles, JobAt, AtRest, FilesOfJob
  <2>4. QED
    BY <2>2, <2>3
<1>2. ASSUME NEW n \in 1..MaxVersions, ActivateVersion(n) PROVE IoInv'
  <2>1. n \in 0..MaxVersions
    BY PlcAssumption
  <2>2. JobType' /\ FileType' /\ VersionsType'
    BY <1>2, <2>1, <1>z DEF ActivateVersion, JobType, FileType, VersionsType
  <2>3. JobAt' /\ AtRest'
    BY <1>2 DEF ActivateVersion, JobAt, AtRest
  <2>4. QED
    BY <2>2, <2>3
<1>3. CASE Deactivate
  <2>1. Inactive \in Seq(Version) /\ Len(Inactive) = Len(versions)
        /\ DOMAIN Inactive = DOMAIN versions
    <3>1. \A n \in 1..Len(versions) : [versions[n] EXCEPT !.active = FALSE] \in Version
      BY <1>l, VersionFields DEF Version
    <3>2. Inactive \in [1..Len(versions) -> Version]
      BY <1>l, <3>1 DEF Inactive
    <3>3. QED
      BY <1>l, <3>2
  <2>2. \A n \in DOMAIN versions : ~Inactive[n].active
    BY VersionFields DEF Inactive, Version
  <2>3. NoneActive'
    BY <1>3, <2>1, <2>2 DEF Deactivate, NoneActive
  <2>4. JobType' /\ FileType' /\ VersionsType'
    BY <1>3, <2>1 DEF Deactivate, JobType, FileType, VersionsType
  <2>5. ioJob' = [ioJob EXCEPT !.step = IF ioJob.number > Len(versions) THEN "insert" ELSE "mark"]
        /\ latestFile' = latestFile /\ damaged' = damaged /\ Len(versions') = Len(versions)
        /\ DOMAIN versions' = DOMAIN versions
    BY <1>3, <2>1 DEF Deactivate
  <2>6. ioJob'.number = ioJob.number /\ ioJob'.rows = ioJob.rows
        /\ ioJob'.step = IF ioJob.number > Len(versions) THEN "insert" ELSE "mark"
    BY <2>5 DEF JobType
  <2>7. \/ ioJob.number \in DOMAIN versions
        \/ ioJob.number = Len(versions) + 1 /\ damaged /\ FilesOfJob
    BY <1>3 DEF Deactivate, JobAt
  <2>8. JobAt' /\ AtRest'
    BY <1>l, <2>3, <2>5, <2>6, <2>7 DEF JobAt, AtRest, FilesOfJob, JobType
  <2>9. QED
    BY <2>4, <2>8
<1>4. CASE InsertVersion
  <2> DEFINE new == [active |-> TRUE, rows |-> {}]
  <2>1. new \in Version
    BY DEF Version, Mapping
  <2>2. ioJob.number = Len(versions) + 1 /\ damaged /\ FilesOfJob /\ NoneActive
    BY <1>4 DEF InsertVersion, JobAt
  <2>3. versions' = Append(versions, new) /\ latestFile' = latestFile /\ damaged' = damaged
        /\ ioJob' = [ioJob EXCEPT !.step = "rows"]
    BY <1>4 DEF InsertVersion
  <2>4. ioJob'.step = "rows" /\ ioJob'.number = ioJob.number /\ ioJob'.rows = ioJob.rows
    BY <2>3 DEF JobType
  <2>5. versions' \in Seq(Version) /\ Len(versions') = Len(versions) + 1
        /\ DOMAIN versions' = 1..(Len(versions) + 1)
        /\ versions'[Len(versions) + 1] = new
        /\ \A n \in DOMAIN versions : versions'[n] = versions[n]
    BY <1>l, <2>1, <2>3 DEF VersionsType
  <2>6. Len(versions) + 1 <= MaxVersions
    BY <2>2, JobFields, PlcAssumption
  <2>7. OnlyActive(ioJob.number)'
    <3>1. ioJob'.number \in DOMAIN versions'
      BY <1>l, <2>2, <2>4, <2>5
    <3>2. ASSUME NEW m \in DOMAIN versions' PROVE versions'[m].active <=> m = ioJob'.number
      <4>1. CASE m \in DOMAIN versions
        BY <4>1, <1>l, <2>2, <2>4, <2>5 DEF NoneActive
      <4>2. CASE m = Len(versions) + 1
        BY <4>2, <2>2, <2>4, <2>5
      <4>3. QED
        BY <4>1, <4>2, <1>l, <2>5
    <3>3. QED
      BY <3>1, <3>2 DEF OnlyActive
  <2>8. JobType' /\ FileType' /\ VersionsType'
    BY <2>3, <2>5, <2>6 DEF JobType, FileType, VersionsType
  <2>9. JobAt' /\ AtRest'
    BY <2>2, <2>3, <2>4, <2>5, <2>7 DEF JobAt, AtRest, FilesOfJob
  <2>10. QED
    BY <2>8, <2>9
<1>5. CASE InsertRow
  <2>1. PICK s \in ioJob.rows \ versions[ioJob.number].rows :
            versions' = [versions EXCEPT ![ioJob.number].rows = @ \cup {s}]
    BY <1>5 DEF InsertRow
  <2>2. ioJob.step = "rows" /\ latestFile' = latestFile /\ damaged' = damaged /\ ioJob' = ioJob
    BY <1>5 DEF InsertRow
  <2>3. damaged /\ FilesOfJob /\ OnlyActive(ioJob.number) /\ ioJob.number = Len(versions)
    BY <2>2 DEF JobAt
  <2> DEFINE n == ioJob.number
             wider == [versions[n] EXCEPT !.rows = @ \cup {s}]
  <2>4. n \in DOMAIN versions /\ versions[n] \in Version /\ s \in Signals
    BY <2>3, VersionFields, JobFields DEF OnlyActive, Mapping
  <2>5. wider \in Version /\ wider.active = versions[n].active
    BY <2>4 DEF Version, Mapping
  <2>6. versions' = [versions EXCEPT ![n] = wider]
    BY <2>1
  <2> HIDE DEF wider, n
  <2>7. versions' \in Seq(Version) /\ Len(versions') = Len(versions)
        /\ DOMAIN versions' = DOMAIN versions
        /\ \A m \in DOMAIN versions : versions'[m] = IF m = n THEN wider ELSE versions[m]
    BY <1>l, <2>4, <2>5, <2>6 DEF VersionsType
  <2>8. OnlyActive(ioJob.number)'
    BY <2>2, <2>3, <2>5, <2>7 DEF OnlyActive, n
  <2>9. JobType' /\ FileType' /\ VersionsType'
    BY <2>2, <2>7 DEF JobType, FileType, VersionsType
  <2>10. JobAt' /\ AtRest'
    BY <2>2, <2>3, <2>7, <2>8 DEF JobAt, AtRest, FilesOfJob
  <2>11. QED
    BY <2>9, <2>10
<1>6. CASE SaveEnds
  <2>1. JobType' /\ FileType' /\ VersionsType'
    BY <1>6, <1>z DEF SaveEnds, JobType, NoJob, FileType, VersionsType
  <2>2. FilesOfJob /\ OnlyActive(ioJob.number) /\ ioJob.rows = versions[ioJob.number].rows
    BY <1>6 DEF SaveEnds, JobAt
  <2>3. ioJob'.step = "none" /\ versions' = versions /\ latestFile' = latestFile
    BY <1>6 DEF SaveEnds, NoJob
  <2>4. JobAt'
    BY <2>3 DEF JobAt
  <2>5. AtRest'
    BY <2>2, <2>3 DEF AtRest, OnlyActive, FilesOfJob
  <2>6. QED
    BY <2>1, <2>4, <2>5
<1>7. CASE MarkActive
  <2>1. ioJob.number \in DOMAIN versions /\ NoneActive
    BY <1>7 DEF MarkActive, JobAt
  <2>2. latestFile' = latestFile /\ damaged' = damaged
        /\ versions' = [versions EXCEPT ![ioJob.number].active = TRUE]
        /\ ioJob' = [ioJob EXCEPT !.step = "files"]
    BY <1>7 DEF MarkActive
  <2>3. ioJob'.step = "files" /\ ioJob'.number = ioJob.number
    BY <2>2 DEF JobType
  <2> DEFINE n == ioJob.number
             marked == [versions[n] EXCEPT !.active = TRUE]
  <2>4. marked \in Version /\ marked.active
    BY <2>1, VersionFields DEF Version
  <2>5. versions' = [versions EXCEPT ![n] = marked]
    BY <2>2
  <2> HIDE DEF marked, n
  <2>6. versions' \in Seq(Version) /\ Len(versions') = Len(versions)
        /\ DOMAIN versions' = DOMAIN versions
        /\ \A m \in DOMAIN versions : versions'[m] = IF m = n THEN marked ELSE versions[m]
    BY <1>l, <2>1, <2>4, <2>5 DEF VersionsType, n
  <2>7. OnlyActive(ioJob.number)'
    BY <2>1, <2>3, <2>4, <2>6 DEF OnlyActive, NoneActive, n
  <2>8. JobType' /\ FileType' /\ VersionsType'
    BY <2>2, <2>6 DEF JobType, FileType, VersionsType
  <2>9. JobAt' /\ AtRest'
    BY <2>3, <2>7 DEF JobAt, AtRest
  <2>10. QED
    BY <2>8, <2>9
<1>8. CASE WriteServed
  <2>1. OnlyActive(ioJob.number)
    BY <1>8 DEF WriteServed, JobAt
  <2>2. ServedNumber = ioJob.number
    BY <2>1 DEF OnlyActive, ServedNumber
  <2>3. latestFile' = [number |-> ioJob.number, rows |-> versions[ioJob.number].rows]
        /\ ioJob' = NoJob /\ versions' = versions /\ damaged' = damaged
    BY <1>8, <2>2 DEF WriteServed
  <2>4. versions[ioJob.number].rows \in Mapping
    BY <2>1, VersionFields DEF OnlyActive
  <2>5. JobType' /\ FileType' /\ VersionsType'
    BY <2>3, <2>4, <1>z, JobFields DEF JobType, NoJob, FileType, File, VersionsType
  <2>6. ioJob'.step = "none"
    BY <2>3 DEF NoJob
  <2>7. JobAt'
    BY <2>6 DEF JobAt
  <2>8. AtRest'
    BY <2>1, <2>3 DEF AtRest, OnlyActive
  <2>9. QED
    BY <2>5, <2>7, <2>8
<1>9. CASE IoRequestFails
  <2>1. ioJob' = NoJob /\ damaged' = TRUE /\ versions' = versions /\ latestFile' = latestFile
    BY <1>9 DEF IoRequestFails
  <2>2. JobType' /\ FileType' /\ VersionsType'
    BY <2>1, <1>z DEF JobType, NoJob, FileType, VersionsType
  <2>3. JobAt' /\ AtRest'
    BY <2>1 DEF JobAt, NoJob, AtRest
  <2>4. QED
    BY <2>2, <2>3
<1>10. QED
  BY <1>1, <1>2, <1>3, <1>4, <1>5, <1>6, <1>7, <1>8, <1>9 DEF IoStep

LEMMA IoInvHolds == PlcSpec => []IoInv
<1>1. PlcInit => IoInv
  <2> SUFFICES ASSUME PlcInit PROVE IoInv
    OBVIOUS
  <2>1. IoType
    BY IoInitType
  <2>2. JobAt /\ AtRest
    BY DEF PlcInit, NoJob, JobAt, AtRest
  <2>3. QED
    BY <2>1, <2>2 DEF IoInv
<1>2. ASSUME IoInv, UNCHANGED ioVars PROVE IoInv'
  BY <1>2 DEF IoInv, IoType, VersionsType, JobType, FileType, JobAt, AtRest, FilesOfJob,
     NoneActive, OnlyActive, ioVars
<1>3. IoInv /\ [PlcNext]_plcVars => IoInv'
  <2>1. ASSUME UNCHANGED plcVars PROVE UNCHANGED ioVars
    BY <2>1 DEF plcVars, ioVars
  <2>2. QED
    BY <1>2, <2>1, NextParts, LeavesIo, IoStepInv
<1>4. QED
  BY <1>1, <1>3, PTL DEF PlcSpec

\* A save that succeeds leaves one active version and the latest file with its mapping, and
\* so does every activation after it, for any signals and number of versions.
THEOREM FileIsServed == PlcSpec => []LatestFileIsServed
<1>1. IoInv => LatestFileIsServed
  <2> SUFFICES ASSUME IoInv, ioJob = NoJob, ~damaged, versions # <<>>
               PROVE  /\ Cardinality({n \in DOMAIN versions : versions[n].active}) = 1
                      /\ latestFile = [number |-> ServedNumber,
                                       rows |-> versions[ServedNumber].rows]
    BY DEF LatestFileIsServed
  <2>1. ioJob.step = "none"
    BY DEF NoJob
  <2>2. PICK n \in DOMAIN versions :
            OnlyActive(n) /\ latestFile = [number |-> n, rows |-> versions[n].rows]
    BY <2>1 DEF IoInv, AtRest
  <2>3. ServedNumber = n
    BY <2>2 DEF OnlyActive, ServedNumber
  <2>4. {m \in DOMAIN versions : versions[m].active} = {n}
    BY <2>2 DEF OnlyActive
  <2>5. Cardinality({n}) = 1
    BY FS_Singleton
  <2>6. QED
    BY <2>2, <2>3, <2>4, <2>5
<1>2. QED
  BY IoInvHolds, <1>1, PTL

-----------------------------------------------------------------------------
(***************************************************************************)
(* Deployments.                                                            *)
(***************************************************************************)
LEMMA BoundIsMapping == ASSUME VersionsType, FileType PROVE BoundRows \in Mapping
<1>1. CASE versions = <<>>
  BY <1>1 DEF BoundRows, FileType, File
<1>2. CASE versions # <<>>
  BY <1>2, ServedRecorded, VersionFields DEF BoundRows
<1>3. QED
  BY <1>1, <1>2

LEMMA DeployFields ==
    ASSUME DeploymentType, NEW d \in Deployers
    PROVE  /\ deployment[d].of \in {None} \cup Plants
           /\ deployment[d].code \in {None} \cup Logics
           /\ deployment[d].io \in Mapping
BY DEF DeploymentType

\* What is deployed is a program from the moment there is something to upload.
Bundled(d) == deployment[d].step \notin {"none", "failed"} => Bundle(d) \in Program
AllBundled == \A d \in Deployers : Bundled(d)
DeployInv == DeployType /\ AllBundled

LEMMA DeployStepInv ==
    ASSUME DeployInv, VersionsType, FileType, NEW d \in Deployers, DeployStep(d)
    PROVE  DeployInv'
<1> USE DEF DeployInv, DeployType
<1>1. ASSUME NEW p \in Plants, BeginDeploy(d, p) PROVE DeployInv'
  <2>1. PICK s \in {"failed", "upload"} :
            /\ deployment' = [deployment EXCEPT ![d] =
                                [step |-> s, of |-> p, code |-> logic[p], io |-> {}]]
            /\ s = IF logic[p] = None THEN "failed" ELSE "upload"
    BY <1>1 DEF BeginDeploy
  <2>2. UNCHANGED <<logic, plc>>
    BY <1>1 DEF BeginDeploy
  <2>3. DeploymentType'
    BY <2>1 DEF DeploymentType, Mapping
  <2>4. PlcType' /\ logic' \in [Plants -> {None} \cup Logics]
    BY <2>2 DEF PlcType
  <2>5. AllBundled'
    BY <2>1 DEF AllBundled, Bundled, Bundle, Program, DeploymentType
  <2>6. QED
    BY <2>3, <2>4, <2>5
<1>2. CASE Upload(d)
  <2>1. deployment[d].step = "upload" /\ Bundle(d) \in Program
    BY <1>2 DEF Upload, AllBundled, Bundled
  <2>2. deployment[d].of \in Plants
    BY <2>1 DEF Bundle, Program
  <2>3. PlcType'
    <3>1. CASE plc' = plc
      BY <3>1 DEF PlcType
    <3>2. CASE plc' = [plc EXCEPT !.stored = @ \cup {deployment[d].of}, !.upload = Bundle(d)]
      <4>1. plc.stored \cup {deployment[d].of} \in SUBSET Plants
        BY <2>2 DEF PlcType
      <4>2. QED
        BY <3>2, <4>1, <2>1 DEF PlcType
    <3>3. QED
      BY <1>2, <3>1, <3>2 DEF Upload
  <2>4. DeploymentType'
    BY <1>2 DEF Upload, DeploymentType, Fail, Pass
  <2>5. AllBundled'
    BY <1>2, <2>1 DEF Upload, AllBundled, Bundled, Bundle, DeploymentType, Fail, Pass
  <2>6. QED
    BY <1>2, <2>3, <2>4, <2>5 DEF Upload
<1>3. CASE Compile(d)
  <2>1. PlcType'
    BY <1>3 DEF Compile, PlcType
  <2>2. DeploymentType'
    BY <1>3 DEF Compile, DeploymentType, Fail, Pass
  <2>3. AllBundled'
    BY <1>3 DEF Compile, AllBundled, Bundled, Bundle, DeploymentType, Fail, Pass
  <2>4. QED
    BY <1>3, <2>1, <2>2, <2>3 DEF Compile
<1>4. CASE Verify(d)
  <2>1. PlcType'
    BY <1>4 DEF Verify, PlcType
  <2>2. DeploymentType'
    BY <1>4 DEF Verify, DeploymentType, Fail, Pass
  <2>3. AllBundled'
    BY <1>4 DEF Verify, AllBundled, Bundled, Bundle, DeploymentType, Fail, Pass
  <2>4. QED
    BY <1>4, <2>1, <2>2, <2>3 DEF Verify
<1>5. CASE ApplyIo(d)
  <2>1. BoundRows \in Mapping
    BY BoundIsMapping
  <2>2. PlcType'
    BY <1>5, <2>1 DEF ApplyIo, PlcType
  <2>3. DeploymentType'
    BY <1>5, <2>1 DEF ApplyIo, DeploymentType, Fail
  <2>4. AllBundled'
    BY <1>5 DEF ApplyIo, AllBundled, Bundled, Bundle, DeploymentType, Fail
  <2>5. QED
    BY <1>5, <2>2, <2>3, <2>4 DEF ApplyIo
<1>6. CASE StartPlc(d)
  <2>1. PlcType'
    BY <1>6 DEF StartPlc, PlcType
  <2>2. DeploymentType'
    BY <1>6 DEF StartPlc, DeploymentType, Fail, Pass
  <2>3. AllBundled'
    BY <1>6 DEF StartPlc, AllBundled, Bundled, Bundle, DeploymentType, Fail, Pass
  <2>4. QED
    BY <1>6, <2>1, <2>2, <2>3 DEF StartPlc
<1>7. QED
  BY <1>1, <1>2, <1>3, <1>4, <1>5, <1>6 DEF DeployStep

\* The requests for the mapping leave the PLC and the deployments alone.
LEMMA LeavesPlc == ASSUME IoStep PROVE UNCHANGED <<logic, plc, deployment>>
BY DEF IoStep, SaveFiles, ActivateVersion, Deactivate, InsertVersion, InsertRow, SaveEnds,
   MarkActive, WriteServed, IoRequestFails

LEMMA DeployInvHolds == PlcSpec => []DeployInv
<1>1. PlcInit => DeployInv
  BY DEF PlcInit, NoDeploy, Mapping, DeployInv, DeployType, PlcType, DeploymentType,
     AllBundled, Bundled
<1>2. ASSUME DeployInv, UNCHANGED <<logic, plc, deployment>> PROVE DeployInv'
  BY <1>2 DEF DeployInv, DeployType, PlcType, DeploymentType, AllBundled, Bundled, Bundle
<1>3. ASSUME DeployInv, NEW p \in Plants, NEW code \in Logics, GenerateLogic(p, code)
      PROVE  DeployInv'
  BY <1>3 DEF GenerateLogic, DeployInv, DeployType, PlcType, DeploymentType, AllBundled,
     Bundled, Bundle
<1>4. IoInv /\ DeployInv /\ [PlcNext]_plcVars => DeployInv'
  <2> SUFFICES ASSUME IoInv, DeployInv, [PlcNext]_plcVars PROVE DeployInv'
    OBVIOUS
  <2>1. VersionsType /\ FileType
    BY DEF IoInv, IoType
  <2>2. CASE PlcNext
    BY <2>1, <2>2, <1>2, <1>3, NextParts, LeavesPlc, DeployStepInv
  <2>3. CASE UNCHANGED plcVars
    BY <2>3, <1>2 DEF plcVars
  <2>4. QED
    BY <2>2, <2>3
<1>5. QED
  BY <1>1, <1>4, IoInvHolds, PTL DEF PlcSpec

\* Every variable of mappings and deployments keeps its type.
THEOREM PlcTypes == PlcSpec => []PlcTypeOK
<1>1. IoInv /\ DeployInv => PlcTypeOK
  BY TypeParts DEF IoInv, DeployInv
<1>2. QED
  BY IoInvHolds, DeployInvHolds, <1>1, PTL

(***************************************************************************)
(* One thread that deploys: what the PLC holds after each of its steps.    *)
(***************************************************************************)
Holds(d) ==
    /\ deployment[d].step = "compile" => plc.upload = Bundle(d)
    /\ deployment[d].step \in {"verify", "io", "start"} => plc.loaded = Bundle(d)
    /\ deployment[d].step = "start" => plc.io = deployment[d].io

AllHold == \A d \in Deployers : Holds(d)

LEMMA HoldsStep ==
    ASSUME DeployInv, NEW d \in Deployers, Holds(d), DeployStep(d) PROVE Holds(d)'
<1> USE DEF DeployInv, DeployType
<1>1. ASSUME NEW p \in Plants, BeginDeploy(d, p) PROVE Holds(d)'
  <2>1. PICK s \in {"failed", "upload"} :
            deployment' = [deployment EXCEPT ![d] =
                                [step |-> s, of |-> p, code |-> logic[p], io |-> {}]]
    BY <1>1 DEF BeginDeploy
  <2>2. deployment'[d].step \in {"failed", "upload"}
    BY <2>1 DEF DeploymentType
  <2>3. QED
    BY <2>2 DEF Holds
<1>2. CASE Upload(d)
  <2>1. CASE Fail(d)
    BY <2>1 DEF Holds, Fail, DeploymentType
  <2>2. CASE Pass(d, "compile") /\ plc' = [plc EXCEPT !.stored = @ \cup {deployment[d].of},
                                                    !.upload = Bundle(d)]
    <3>1. plc'.upload = Bundle(d)
      BY <2>2 DEF PlcType
    <3>2. deployment'[d].step = "compile" /\ Bundle(d)' = Bundle(d)
      BY <2>2 DEF Pass, Bundle, DeploymentType
    <3>3. QED
      BY <3>1, <3>2 DEF Holds
  <2>3. QED
    BY <1>2, <2>1, <2>2 DEF Upload
<1>3. CASE Compile(d)
  BY <1>3 DEF Compile, Holds, Bundle, Fail, Pass, DeploymentType, PlcType
<1>4. CASE Verify(d)
  BY <1>4 DEF Verify, Holds, Bundle, Fail, Pass, DeploymentType, PlcType
<1>5. CASE ApplyIo(d)
  BY <1>5 DEF ApplyIo, Holds, Bundle, Fail, DeploymentType, PlcType
<1>6. CASE StartPlc(d)
  BY <1>6 DEF StartPlc, Holds, Bundle, Fail, Pass, DeploymentType, PlcType
<1>7. QED
  BY <1>1, <1>2, <1>3, <1>4, <1>5, <1>6 DEF DeployStep

\* Where one thread deploys, whatever the mapping and the logic become meanwhile and
\* whichever step fails, a deployment passes only when the PLC runs the logic it bundled
\* with the rows it bound.  (With two threads it may run the logic of the other one.)
THEOREM AlonePassedRunsTheLogic ==
    ASSUME NEW one \in Deployers, Deployers = {one} PROVE PlcSpec => PassedRunsTheLogic
<1>1. PlcInit => AllHold
  BY DEF PlcInit, NoDeploy, Holds, AllHold
<1>2. ASSUME AllHold, UNCHANGED <<plc, deployment>> PROVE AllHold'
  BY <1>2 DEF Holds, Bundle, AllHold
<1>3. DeployInv /\ AllHold /\ [PlcNext]_plcVars => AllHold'
  <2> SUFFICES ASSUME DeployInv, AllHold, [PlcNext]_plcVars PROVE AllHold'
    OBVIOUS
  <2>1. ASSUME NEW p \in Plants, NEW code \in Logics, GenerateLogic(p, code)
        PROVE  UNCHANGED <<plc, deployment>>
    BY <2>1 DEF GenerateLogic
  <2>2. CASE PlcNext
    BY <2>1, <2>2, <1>2, NextParts, LeavesPlc, HoldsStep DEF AllHold
  <2>3. CASE UNCHANGED plcVars
    BY <2>3, <1>2 DEF plcVars
  <2>4. QED
    BY <2>2, <2>3
<1>4. DeployInv /\ AllHold /\ [PlcNext]_plcVars =>
        [\A d \in Deployers : Passes(d) =>
            plc'.loaded = Bundle(d) /\ plc'.running /\ plc'.io = deployment[d].io]_plcVars
  <2> SUFFICES ASSUME DeployInv, AllHold, PlcNext, Passes(one)
               PROVE  /\ plc'.loaded = Bundle(one) /\ plc'.running
                      /\ plc'.io = deployment[one].io
    OBVIOUS
  <2>1. deployment' # deployment
    BY DEF Passes
  <2>2. DeployStep(one)
    BY <2>1, NextParts, LeavesPlc DEF GenerateLogic
  <2>3. StartPlc(one)
    BY <2>2 DEF Passes, DeployStep, BeginDeploy, Upload, Compile, Verify, ApplyIo, Fail, Pass,
       DeployInv, DeployType, DeploymentType
  <2>4. deployment[one].step = "start" /\ plc' = [plc EXCEPT !.running = TRUE]
    BY <2>3 DEF StartPlc, Fail, Passes, DeployInv, DeployType, DeploymentType
  <2>5. plc'.loaded = plc.loaded /\ plc'.io = plc.io /\ plc'.running
    BY <2>4 DEF DeployInv, DeployType, PlcType
  <2>6. QED
    BY <2>4, <2>5 DEF Holds, AllHold
<1>5. QED
  BY <1>1, <1>3, <1>4, DeployInvHolds, PTL DEF PlcSpec, PassedRunsTheLogic

-----------------------------------------------------------------------------
(***************************************************************************)
(* Addresses.                                                              *)
(***************************************************************************)
LEMMA FirstNamed ==
    ASSUME NEW list \in Seq(Candidates)
    PROVE  /\ IsFiniteSet(RowsOf(list))
           /\ \A r \in RowsOf(list) : r.tag \in Nat /\ r.io \in IoTypes
           /\ \A r, s \in RowsOf(list) : r # s => r.tag # s.tag
<1> DEFINE io(i) == IF list[i].io = None THEN "DI" ELSE list[i].io
           row(i) == [tag |-> list[i].tag, io |-> io(i)]
           first == {i \in DOMAIN list : \A j \in 1..(i - 1) : list[j].tag # list[i].tag}
<1>1. Len(list) \in Nat /\ DOMAIN list = 1..Len(list)
  OBVIOUS
<1>2. RowsOf(list) = {row(i) : i \in first}
  BY DEF RowsOf
<1>3. IsFiniteSet(first)
  <2>1. first \in SUBSET (1..Len(list)) /\ IsFiniteSet(1..Len(list))
    BY <1>1, FS_Interval
  <2>2. QED
    BY <2>1, FS_Subset
<1>4. IsFiniteSet({row(i) : i \in first})
  <2> DEFINE all == {row(i) : i \in first}
             f == [i \in first |-> row(i)]
  <2> HIDE DEF row, first
  <2>1. f \in Surjection(first, all)
    BY DEF Surjection
  <2>2. QED
    BY <1>3, <2>1, FS_Surjection
<1>5. \A i \in first : list[i].tag \in Nat /\ io(i) \in IoTypes /\ i \in 1..Len(list)
  <2> SUFFICES ASSUME NEW i \in first
               PROVE  list[i].tag \in Nat /\ io(i) \in IoTypes /\ i \in 1..Len(list)
    OBVIOUS
  <2>1. list[i] \in Candidates /\ i \in 1..Len(list)
    BY <1>1
  <2>2. list[i].tag \in Nat /\ list[i].io \in IoTypes \cup {None}
    BY <2>1, ChannelsAssumption DEF Candidates
  <2>3. QED
    BY <2>1, <2>2 DEF IoTypes
<1>6. \A i, k \in first : list[i].tag = list[k].tag => i = k
  <2> SUFFICES ASSUME NEW i \in first, NEW k \in first, i < k PROVE list[i].tag # list[k].tag
    BY <1>5
  <2>1. i \in 1..(k - 1)
    BY <1>5
  <2>2. QED
    BY <2>1
<1>7. \A i \in first : row(i).tag = list[i].tag /\ row(i).io = io(i)
  OBVIOUS
<1> HIDE DEF row, first, io
<1>8. \A r \in RowsOf(list) : r.tag \in Nat /\ r.io \in IoTypes
  BY <1>2, <1>5, <1>7
<1>9. \A r, s \in RowsOf(list) : r # s => r.tag # s.tag
  BY <1>2, <1>6, <1>7
<1>10. QED
  BY <1>2, <1>4, <1>8, <1>9

LEMMA CounterBounds ==
    ASSUME NEW entries, IsFiniteSet(entries), \A r \in entries : r.tag \in Nat, NEW s \in entries
    PROVE  /\ Counter(entries, s) \in Nat
           /\ Cardinality(OfType(entries, s.io)) \in Nat
           /\ Counter(entries, s) < Cardinality(OfType(entries, s.io))
<1> DEFINE before == {r \in entries : r.io = s.io /\ r.tag < s.tag}
           all == OfType(entries, s.io)
<1>1. all \in SUBSET entries /\ before \in SUBSET all /\ s \in all /\ s \notin before
  BY DEF OfType
<1>2. IsFiniteSet(all) /\ IsFiniteSet(before)
  BY <1>1, FS_Subset
<1>3. Cardinality(all) \in Nat /\ Cardinality(before) \in Nat
  BY <1>2, FS_CardinalityType
<1>4. Cardinality(before) <= Cardinality(all) /\ Cardinality(before) # Cardinality(all)
  BY <1>1, <1>2, FS_Subset
<1>5. QED
  BY <1>3, <1>4 DEF Counter

\* Of two rows of a type the one whose tag comes first has the smaller counter.
LEMMA CounterOrder ==
    ASSUME NEW entries, IsFiniteSet(entries), \A x \in entries : x.tag \in Nat,
           NEW r \in entries, NEW s \in entries, r.io = s.io, r.tag < s.tag
    PROVE  Counter(entries, r) < Counter(entries, s)
<1> DEFINE below(t) == {x \in entries : x.io = t.io /\ x.tag < t.tag}
<1>1. r.tag \in Nat /\ s.tag \in Nat
  OBVIOUS
<1>2. below(r) \in SUBSET below(s) /\ r \in below(s) /\ r \notin below(r)
        /\ below(s) \in SUBSET entries
  BY <1>1
<1>3. IsFiniteSet(below(s)) /\ IsFiniteSet(below(r))
  BY <1>2, FS_Subset
<1>4. Cardinality(below(r)) <= Cardinality(below(s))
        /\ Cardinality(below(r)) # Cardinality(below(s))
  BY <1>2, <1>3, FS_Subset
<1>5. Cardinality(below(r)) \in Nat /\ Cardinality(below(s)) \in Nat
  BY <1>3, FS_CardinalityType
<1>6. QED
  BY <1>4, <1>5 DEF Counter

LEMMA QuotientAndRest ==
    ASSUME NEW a \in Nat, NEW b \in Nat, a \div Width = b \div Width, a % Width = b % Width
    PROVE  a = b
<1>1. Width \in Nat \ {0}
  BY ChannelsAssumption
<1>2. a = Width * (a \div Width) + (a % Width) /\ b = Width * (b \div Width) + (b % Width)
  BY <1>1
<1>3. QED
  BY <1>2

LEMMA FirstSlot == ASSUME NEW a \in Nat, a < Width PROVE a \div Width = 0
BY ChannelsAssumption

NamedType == named \in Seq(Candidates)

\* Whatever signals are named, in whatever order and however often: one row for each tag,
\* and two rows share an address only across types, past the end of a slot.
THEOREM DistinctChannels == ChannelsSpec => []ChannelsAreDistinct
<1>1. ChannelsInit => NamedType
  BY DEF ChannelsInit, NamedType
<1>2. NamedType /\ [ChannelsNext]_named => NamedType'
  <2> SUFFICES ASSUME NamedType, ChannelsNext PROVE NamedType'
    BY DEF NamedType
  <2>1. PICK tag \in SignalTags, io \in IoTypes \cup {None} :
            named' = Append(named, [tag |-> tag, io |-> io])
    BY DEF ChannelsNext, NameSignal
  <2>2. [tag |-> tag, io |-> io] \in Candidates
    BY DEF Candidates
  <2>3. QED
    BY <2>1, <2>2 DEF NamedType
<1>3. NamedType => ChannelsAreDistinct
  <2> SUFFICES ASSUME NamedType PROVE ChannelsAreDistinct
    OBVIOUS
  <2> DEFINE entries == RowsOf(named)
  <2>1. /\ IsFiniteSet(entries)
        /\ \A r \in entries : r.tag \in Nat /\ r.io \in IoTypes
        /\ \A r, s \in entries : r # s => r.tag # s.tag
    BY FirstNamed DEF NamedType
  <2> HIDE DEF entries
  <2>2. SUFFICES ASSUME NEW r \in entries, NEW s \in entries, r # s,
                        Address(entries, r) = Address(entries, s)
                 PROVE  /\ r.io # s.io
                        /\ \E io \in {r.io, s.io} : Cardinality(OfType(entries, io)) > Width
    BY <2>1 DEF ChannelsAreDistinct, DistinctUnlessOverflow, entries
  <2>3. /\ Counter(entries, r) \in Nat /\ Counter(entries, s) \in Nat
        /\ Counter(entries, r) < Cardinality(OfType(entries, r.io))
        /\ Counter(entries, s) < Cardinality(OfType(entries, s.io))
        /\ Cardinality(OfType(entries, r.io)) \in Nat /\ Cardinality(OfType(entries, s.io)) \in Nat
    BY <2>1, CounterBounds
  <2>4. Slot(entries, r) = Slot(entries, s) /\ Channel(entries, r) = Channel(entries, s)
    BY <2>2 DEF Address
  <2>5. BaseSlot[r.io] \in 1..4 /\ BaseSlot[s.io] \in 1..4
        /\ (BaseSlot[r.io] = BaseSlot[s.io] => r.io = s.io)
    BY <2>1 DEF BaseSlot, IoTypes
  <2>6. /\ Counter(entries, r) \div Width \in Nat /\ Counter(entries, s) \div Width \in Nat
        /\ Counter(entries, r) % Width \in Nat /\ Counter(entries, s) % Width \in Nat
    BY <2>3, ChannelsAssumption
  <2>7. r.io # s.io
    <3> SUFFICES ASSUME r.io = s.io PROVE FALSE
      OBVIOUS
    <3>1. Counter(entries, r) \div Width = Counter(entries, s) \div Width
      BY <2>4, <2>5, <2>6 DEF Slot
    <3>2. Counter(entries, r) % Width = Counter(entries, s) % Width
      BY <2>4, <2>6 DEF Channel
    <3>3. Counter(entries, r) = Counter(entries, s)
      BY <2>3, <3>1, <3>2, QuotientAndRest
    <3>4. r.tag < s.tag \/ s.tag < r.tag
      BY <2>1, <2>2
    <3>5. QED
      BY <2>1, <2>3, <3>3, <3>4, CounterOrder
  <2>8. ASSUME Cardinality(OfType(entries, r.io)) <= Width, Cardinality(OfType(entries, s.io)) <= Width
        PROVE  FALSE
    <3>1. Counter(entries, r) < Width /\ Counter(entries, s) < Width
      BY <2>3, <2>8, ChannelsAssumption
    <3>2. Counter(entries, r) \div Width = 0 /\ Counter(entries, s) \div Width = 0
      BY <2>3, <3>1, FirstSlot
    <3>3. BaseSlot[r.io] = BaseSlot[s.io]
      BY <2>4, <2>5, <3>2 DEF Slot
    <3>4. QED
      BY <2>5, <2>7, <3>3
  <2>9. QED
    BY <2>3, <2>7, <2>8, ChannelsAssumption
<1>4. QED
  BY <1>1, <1>2, <1>3, PTL DEF ChannelsSpec

(***************************************************************************)
(* The rows of the namespace and the page that shows them.                 *)
(***************************************************************************)

\* Throughout, c says of each row a revision since which it is as it now
\* is. What travels to the page is true of the rows from there on, the
\* page is true of those it shows that are as new, and the news it lacks
\* is on its way.

\* What message m tells is of no later revision than the newest, and what it tells of a row
\* since the row's last change is the row as it is.
Truthful(m, c) ==
    /\ m.at <= revision
    /\ \A t \in Told(m) : m.at >= c[t] => m.rows[t] = rows[t]
AllTruthful(seq, c) == \A i \in 1..Len(seq) : Truthful(seq[i], c)

\* A message tells the row of t as of revision x or later.
Brings(m, x, t) == t \in Told(m) /\ m.at >= x
Carries(seq, x, t) == \E i \in 1..Len(seq) : Brings(seq[i], x, t)

\* Whatever was read and is not yet shown is truthful.
InFlight(c) ==
    /\ \A w \in Writers : announcing[w] \notin {None, Unread} => Truthful(announcing[w], c)
    /\ AllTruthful(scheduled, c)
    /\ \A s \in Sockets : AllTruthful(wire[s], c)
    /\ refresh # None => Truthful(refresh, c)

\* The page shows no future, and of what it has since the last change the truth.
OnPage(c) ==
    \A t \in RowNames :
        /\ page.at[t] <= revision
        /\ page.at[t] >= c[t] => PageHas(t, rows[t])

\* News of the row of t from revision x on will reach the page: it is on one of the ways
\* there, or the page is to be sent all rows.
Comes(x, t) ==
    \/ page.socket \notin connections
    \/ greeting = page.socket
    \/ \E w \in Writers :
          \/ announcing[w] = Unread
          \/ announcing[w] # None /\ Brings(announcing[w], x, t)
    \/ Carries(scheduled, x, t)
    \/ Carries(wire[page.socket], x, t)

\* What the page was never given of a row is coming.
NewsComes(c) == \A t \in RowNames : page.newest[t] >= c[t] \/ Comes(c[t], t)

\* When each row changed last.
Changed == [RowNames -> 0..revision]

PageType ==
    [socket : {None} \cup Sockets, rows : Table, hidden : Table,
     at : [RowNames -> Nat], newest : [RowNames -> Nat]]

\* The type of every variable.
NamespaceTypeOK ==
    /\ rows \in Table
    /\ revision \in Nat
    /\ announcing \in [Writers -> {None, Unread} \cup Snapshot]
    /\ connections \subseteq Sockets
    /\ greeting \in {None} \cup Sockets
    /\ scheduled \in Seq(Snapshot)
    /\ wire \in [Sockets -> Seq(Snapshot)]
    /\ page \in PageType
    /\ refresh \in {None} \cup Snapshot
    /\ refresh # None => Told(refresh) = RowNames

LEMMA SnapshotParts ==
    ASSUME NEW m \in Snapshot
    PROVE  /\ m.at \in Nat /\ m.full \in BOOLEAN
           /\ m.full => m.rows \in Table
           /\ ~m.full => DOMAIN m.rows \subseteq RowNames /\ m.rows \in [DOMAIN m.rows -> Values]
           /\ Told(m) \subseteq RowNames
           /\ \A t \in Told(m) : m.rows[t] \in {None} \cup Values
<1>1. CASE m \in [full : {TRUE}, rows : Table, at : Nat]
  BY <1>1 DEF Told, Table
<1>2. CASE m \in [full : {FALSE}, rows : UNION {[changed -> Values] : changed \in SUBSET RowNames}, at : Nat]
  <2>1. PICK S \in SUBSET RowNames : m.rows \in [S -> Values]
    BY <1>2
  <2> QED
    BY <1>2, <2>1 DEF Told
<1> QED
  BY <1>1, <1>2 DEF Snapshot

LEMMA FullMade ==
    ASSUME rows \in Table, revision \in Nat
    PROVE  /\ Full \in Snapshot
           /\ Full.at = revision
           /\ Full.rows = rows
           /\ Told(Full) = RowNames
           /\ Full # None /\ Full # Unread
<1>1. Full \in Snapshot
  BY DEF Full, Snapshot
<1>2. Full.rows # None
  BY NamespaceAssumption DEF Full
<1>3. Full # Unread
  BY <1>2 DEF Unread
<1> QED
  BY <1>1, <1>3, NamespaceAssumption DEF Full, Told

\* What an update announces.
Part(changed, v, a) == [full |-> FALSE, rows |-> [t \in changed |-> v], at |-> a]

LEMMA PartMade ==
    ASSUME NEW changed \in SUBSET RowNames, NEW v \in Values, NEW a \in Nat
    PROVE  /\ Part(changed, v, a) \in Snapshot
           /\ Part(changed, v, a).at = a
           /\ Told(Part(changed, v, a)) = changed
           /\ \A t \in changed : Part(changed, v, a).rows[t] = v
           /\ Part(changed, v, a) # None /\ Part(changed, v, a) # Unread
<1> PICK m : m = Part(changed, v, a)
  OBVIOUS
<1>1. m.rows = [t \in changed |-> v] /\ m.full = FALSE /\ m.at = a
  BY DEF Part
<1>2. [t \in changed |-> v] \in [changed -> Values]
  OBVIOUS
<1>3. [t \in changed |-> v] \in UNION {[S -> Values] : S \in SUBSET RowNames}
  BY <1>2
<1>4. m \in Snapshot
  BY <1>3 DEF Part, Snapshot
<1>5. m # Unread
  BY <1>1 DEF Unread
<1> QED
  BY <1>1, <1>4, <1>5, NamespaceAssumption DEF Told

LEMMA AppendNews ==
    ASSUME NEW s \in Seq(Snapshot), NEW m \in Snapshot
    PROVE  /\ Append(s, m) \in Seq(Snapshot)
           /\ \A x, t : Carries(Append(s, m), x, t) <=> Carries(s, x, t) \/ Brings(m, x, t)
           /\ \A c : AllTruthful(Append(s, m), c) <=> AllTruthful(s, c) /\ Truthful(m, c)
<1> PICK n \in Nat : n = Len(s)
  BY LenProperties
<1> PICK a : a = Append(s, m)
  OBVIOUS
<1>1. /\ a \in Seq(Snapshot) /\ Len(a) = n + 1
      /\ \A i \in 1..n : a[i] = s[i]
      /\ a[n + 1] = m
  BY AppendProperties
<1>2. /\ n + 1 \in 1..(n + 1)
      /\ \A i \in 1..(n + 1) : i \in 1..n \/ i = n + 1
      /\ \A i \in 1..n : i \in 1..(n + 1)
  OBVIOUS
<1>3. ASSUME NEW x, NEW t PROVE Carries(a, x, t) <=> Carries(s, x, t) \/ Brings(m, x, t)
  BY <1>1, <1>2 DEF Carries
<1>4. ASSUME NEW c PROVE AllTruthful(a, c) <=> AllTruthful(s, c) /\ Truthful(m, c)
  BY <1>1, <1>2 DEF AllTruthful
<1> QED
  BY <1>1, <1>3, <1>4

LEMMA TailNews ==
    ASSUME NEW s \in Seq(Snapshot), s # <<>>
    PROVE  /\ Head(s) \in Snapshot
           /\ Tail(s) \in Seq(Snapshot)
           /\ \A x, t : Carries(s, x, t) <=> Brings(Head(s), x, t) \/ Carries(Tail(s), x, t)
           /\ \A c : AllTruthful(s, c) => Truthful(Head(s), c) /\ AllTruthful(Tail(s), c)
<1> PICK n \in Nat : n = Len(s)
  BY LenProperties
<1> PICK h : h = Head(s)
  OBVIOUS
<1> PICK r : r = Tail(s)
  OBVIOUS
<1>1. /\ h \in Snapshot /\ r \in Seq(Snapshot) /\ Len(r) = n - 1 /\ h = s[1]
      /\ \A i \in 1..(n - 1) : r[i] = s[i + 1]
  BY HeadTailProperties
<1>2. n >= 1
  BY EmptySeq, LenProperties
<1>3. /\ 1 \in 1..n
      /\ \A i \in 1..n : i = 1 \/ (i - 1 \in 1..(n - 1) /\ i - 1 + 1 = i)
      /\ \A i \in 1..(n - 1) : i + 1 \in 1..n
  BY <1>2
<1>4. ASSUME NEW x, NEW t PROVE Carries(s, x, t) <=> Brings(h, x, t) \/ Carries(r, x, t)
  <2>1. ASSUME NEW i \in 1..n, Brings(s[i], x, t) PROVE Brings(h, x, t) \/ Carries(r, x, t)
    <3>1. CASE i = 1
      BY <1>1, <2>1, <3>1
    <3>2. CASE i # 1
      <4>1. i - 1 \in 1..(n - 1) /\ r[i - 1] = s[i - 1 + 1] /\ i - 1 + 1 = i
        BY <1>1, <1>3, <3>2
      <4> QED
        BY <1>1, <2>1, <4>1 DEF Carries
    <3> QED
      BY <3>1, <3>2
  <2>2. Brings(h, x, t) => Carries(s, x, t)
    BY <1>1, <1>3 DEF Carries
  <2>3. Carries(r, x, t) => Carries(s, x, t)
    BY <1>1, <1>3 DEF Carries
  <2> QED
    BY <2>1, <2>2, <2>3 DEF Carries
<1>5. ASSUME NEW c, AllTruthful(s, c) PROVE Truthful(h, c) /\ AllTruthful(r, c)
  BY <1>1, <1>3, <1>5 DEF AllTruthful
<1> QED
  BY <1>1, <1>4, <1>5

LEMMA NoNews ==
    ASSUME NEW x, NEW t
    PROVE  <<>> \in Seq(Snapshot) /\ ~Carries(<<>>, x, t) /\ AllTruthful(<<>>, x)
<1>1. Len(<<>>) = 0 /\ <<>> \in Seq(Snapshot)
  BY EmptySeq
<1>2. 1..0 = {}
  OBVIOUS
<1> QED
  BY <1>1, <1>2 DEF Carries, AllTruthful

\* What a snapshot, without the rows of left, does to the page.
Shown(g, m, left) ==
    /\ g.socket = page.socket
    /\ \A t \in RowNames :
          /\ t \in Told(m) =>
               /\ t \notin left => g.rows[t] = m.rows[t]
               /\ t \in left => g.rows[t] = None /\ g.hidden[t] = m.rows[t]
               /\ g.at[t] = m.at /\ g.newest[t] >= m.at /\ g.newest[t] >= page.newest[t]
          /\ t \notin Told(m) =>
               /\ g.rows[t] = page.rows[t] /\ g.hidden[t] = page.hidden[t]
               /\ g.at[t] = page.at[t] /\ g.newest[t] = page.newest[t]

LEMMA ShowsMade ==
    ASSUME page \in PageType, NEW m \in Snapshot, NEW left \in SUBSET Told(m)
    PROVE  \E g \in PageType : Shows(m, left) = g /\ Shown(g, m, left)
<1> PICK q \in PageType : q = page
  OBVIOUS
<1> PICK r : r = [t \in RowNames |-> IF t \in left THEN None ELSE IF t \in Told(m) THEN m.rows[t] ELSE q.rows[t]]
  OBVIOUS
<1> PICK h : h = [t \in RowNames |-> IF t \in left THEN m.rows[t] ELSE IF t \in Told(m) THEN None ELSE q.hidden[t]]
  OBVIOUS
<1> PICK a : a = [t \in RowNames |-> IF t \in Told(m) THEN m.at ELSE q.at[t]]
  OBVIOUS
<1> PICK n : n = [t \in RowNames |-> IF t \in Told(m) /\ m.at > q.newest[t] THEN m.at ELSE q.newest[t]]
  OBVIOUS
<1>1. Shows(m, left) = [q EXCEPT !.rows = r, !.hidden = h, !.at = a, !.newest = n]
  BY DEF Shows
<1>2. r \in Table /\ h \in Table /\ a \in [RowNames -> Nat] /\ n \in [RowNames -> Nat]
  BY SnapshotParts DEF PageType, Table
<1> PICK q1 : q1 = [q EXCEPT !.rows = r]
  OBVIOUS
<1>3. q1 = [socket |-> q.socket, rows |-> r, hidden |-> q.hidden, at |-> q.at, newest |-> q.newest]
  BY DEF PageType
<1> PICK q2 : q2 = [q1 EXCEPT !.hidden = h]
  OBVIOUS
<1>4. q2 = [socket |-> q.socket, rows |-> r, hidden |-> h, at |-> q.at, newest |-> q.newest]
  BY ZenonT(60), <1>3
<1> PICK q3 : q3 = [q2 EXCEPT !.at = a]
  OBVIOUS
<1>5. q3 = [socket |-> q.socket, rows |-> r, hidden |-> h, at |-> a, newest |-> q.newest]
  BY ZenonT(60), <1>4
<1> PICK g : g = [q3 EXCEPT !.newest = n]
  BY ZenonT(60)
<1>6. g = [socket |-> q.socket, rows |-> r, hidden |-> h, at |-> a, newest |-> n]
  BY ZenonT(60), <1>5
<1>7. /\ g \in PageType /\ g.socket = q.socket
      /\ g.rows = r /\ g.hidden = h /\ g.at = a /\ g.newest = n
  BY <1>2, <1>6 DEF PageType
<1>8. Shows(m, left) = g
  BY <1>1
<1>9. ASSUME NEW t \in RowNames
      PROVE  /\ t \in Told(m) => g.newest[t] >= m.at /\ g.newest[t] >= q.newest[t]
             /\ t \notin Told(m) => g.newest[t] = q.newest[t]
  <2>1. PICK k \in Nat : k = m.at
    BY SnapshotParts
  <2>2. q.newest[t] \in Nat
    BY DEF PageType
  <2>3. PICK old \in Nat : old = q.newest[t]
    BY <2>2
  <2>4. n[t] = IF t \in Told(m) /\ k > old THEN k ELSE old
    BY <2>1, <2>3
  <2>5. t \in Told(m) => n[t] >= k /\ n[t] >= old
    BY <2>4
  <2>6. t \notin Told(m) => n[t] = old
    BY <2>4
  <2> QED
    BY <1>7, <2>1, <2>3, <2>5, <2>6
<1>10. ASSUME NEW t \in RowNames
       PROVE  /\ t \in Told(m) =>
                   /\ t \notin left => g.rows[t] = m.rows[t]
                   /\ t \in left => g.rows[t] = None /\ g.hidden[t] = m.rows[t]
                   /\ g.at[t] = m.at
              /\ t \notin Told(m) =>
                   g.rows[t] = q.rows[t] /\ g.hidden[t] = q.hidden[t] /\ g.at[t] = q.at[t]
  BY <1>7
<1>11. Shown(g, m, left)
  BY <1>7, <1>9, <1>10 DEF Shown
<1> QED
  BY ZenonT(60), <1>7, <1>8, <1>11

LEMMA ShownEffect ==
    ASSUME NamespaceTypeOK, NEW m \in Snapshot, NEW left \in SUBSET Told(m), page' = Shows(m, left)
    PROVE  page' \in PageType /\ Shown(page', m, left)
  BY ShowsMade DEF NamespaceTypeOK

\* What a step of a writer that changes rows does.
LEMMA WriteEffect ==
    ASSUME NamespaceTypeOK, NEW w \in Writers, NEW tags \in SUBSET RowNames, NEW v \in Values,
           LoadModel(w, tags, v) \/ Update(w, tags, v)
    PROVE  /\ revision' = revision + 1
           /\ rows' \in Table
           /\ UNCHANGED <<connections, greeting, scheduled, wire, page, refresh>>
           /\ announcing[w] = None
           /\ \E m \in {Unread} \cup Snapshot :
                /\ announcing' = [announcing EXCEPT ![w] = m]
                /\ \/ m = Unread
                   \/ /\ m \in Snapshot /\ m # None /\ m # Unread
                      /\ m.at = revision + 1
                      /\ \A t \in Told(m) : m.rows[t] = rows'[t]
                      /\ \A t \in RowNames : t \in Told(m) \/ rows'[t] = rows[t]
<1>1. CASE LoadModel(w, tags, v)
  BY <1>1 DEF LoadModel, hubVars, NamespaceTypeOK, Table
<1>2. CASE Update(w, tags, v)
  <2> PICK changed \in SUBSET RowNames : changed = {t \in tags : rows[t] \notin {None, v}}
    OBVIOUS
  <2> PICK a \in Nat : a = revision + 1
    BY DEF NamespaceTypeOK
  <2> PICK m : m = Part(changed, v, a)
    OBVIOUS
  <2>1. m \in Snapshot /\ m.at = a /\ Told(m) = changed /\ (\A t \in changed : m.rows[t] = v) /\ m # None /\ m # Unread
    <3>1. /\ Part(changed, v, a) \in Snapshot
          /\ Part(changed, v, a).at = a
          /\ Told(Part(changed, v, a)) = changed
          /\ \A t \in changed : Part(changed, v, a).rows[t] = v
          /\ Part(changed, v, a) # None /\ Part(changed, v, a) # Unread
      BY ONLY PartMade, changed \in SUBSET RowNames, v \in Values, a \in Nat, Zenon
    <3> QED
      BY <3>1
  <2>2. announcing' = [announcing EXCEPT ![w] = m]
    BY <1>2 DEF Update, Part
  <2>3. rows' = [t \in RowNames |-> IF t \in changed THEN v ELSE rows[t]]
    BY <1>2 DEF Update
  <2>4. rows' \in Table
    BY <2>3 DEF NamespaceTypeOK, Table
  <2>5. revision' = a /\ announcing[w] = None /\ UNCHANGED <<connections, greeting, scheduled, wire, page, refresh>>
    BY <1>2 DEF Update, hubVars
  <2>6. (\A t \in Told(m) : m.rows[t] = rows'[t]) /\ \A t \in RowNames : t \in Told(m) \/ rows'[t] = rows[t]
    BY <2>1, <2>3
  <2> QED
    BY <2>1, <2>2, <2>4, <2>5, <2>6
<1> QED
  BY <1>1, <1>2

LEMMA NamespaceInitType == NamespaceInit => NamespaceTypeOK
<1> SUFFICES ASSUME NamespaceInit PROVE NamespaceTypeOK
  OBVIOUS
<1>1. rows \in Table
  BY DEF NamespaceInit, Table
<1>2. page \in PageType
  BY <1>1 DEF NamespaceInit, PageType
<1>3. <<>> \in Seq(Snapshot)
  BY NoNews
<1> QED
  BY <1>1, <1>2, <1>3 DEF NamespaceInit, NamespaceTypeOK

LEMMA BroadcastEffect ==
    ASSUME NamespaceTypeOK, Broadcast
    PROVE  /\ scheduled # <<>> /\ greeting = None
           /\ scheduled' = Tail(scheduled) /\ scheduled' \in Seq(Snapshot)
           /\ Head(scheduled) \in Snapshot
           /\ connections' \subseteq connections
           /\ page.socket \in connections => page.socket \in connections'
           /\ wire' \in [Sockets -> Seq(Snapshot)]
           /\ \A s \in Sockets : wire'[s] = wire[s] \/ wire'[s] = Append(wire[s], Head(scheduled))
           /\ page.socket \in connections => wire'[page.socket] = Append(wire[page.socket], Head(scheduled))
           /\ UNCHANGED <<rows, revision, announcing, greeting, page, refresh>>
<1>1. PICK dead \in SUBSET {s \in connections : Broken(s)} :
        /\ connections' = connections \ dead
        /\ wire' = [s \in Sockets |-> IF s \in connections /\ ~Broken(s)
                                      THEN Append(wire[s], Head(scheduled)) ELSE wire[s]]
  BY DEF Broadcast
<1>2. scheduled # <<>> /\ greeting = None /\ scheduled' = Tail(scheduled)
      /\ UNCHANGED <<rows, revision, announcing, greeting, page, refresh>>
  BY DEF Broadcast, coreVars
<1>3. scheduled' \in Seq(Snapshot) /\ Head(scheduled) \in Snapshot
  BY <1>2, TailNews DEF NamespaceTypeOK
<1>4. \A s \in Sockets : wire[s] \in Seq(Snapshot) /\ Append(wire[s], Head(scheduled)) \in Seq(Snapshot)
  BY <1>3, AppendNews DEF NamespaceTypeOK
<1>5. page.socket \in connections =>
         page.socket \in connections' /\ wire'[page.socket] = Append(wire[page.socket], Head(scheduled))
  BY <1>1 DEF Broken, NamespaceTypeOK
<1> QED
  BY <1>1, <1>2, <1>3, <1>4, <1>5

LEMMA GreetEffect ==
    ASSUME NamespaceTypeOK, SendInitial
    PROVE  /\ greeting # None /\ greeting' = None
           /\ connections' \subseteq connections
           /\ wire' \in [Sockets -> Seq(Snapshot)]
           /\ \A s \in Sockets : wire'[s] = wire[s] \/ wire'[s] = Append(wire[s], Full)
           /\ greeting = page.socket =>
                connections' = connections /\ wire'[page.socket] = Append(wire[page.socket], Full)
           /\ greeting # page.socket =>
                wire' = wire /\ (page.socket \in connections => page.socket \in connections')
           /\ UNCHANGED <<rows, revision, announcing, scheduled, page, refresh>>
<1>1. greeting \in Sockets /\ greeting' = None /\ UNCHANGED <<rows, revision, announcing, scheduled, page, refresh>>
  BY DEF SendInitial, coreVars, NamespaceTypeOK
<1>2. wire \in [Sockets -> Seq(Snapshot)] /\ Append(wire[greeting], Full) \in Seq(Snapshot)
  BY <1>1, FullMade, AppendNews DEF NamespaceTypeOK
<1>3. CASE page.socket # greeting
  BY <1>1, <1>2, <1>3 DEF SendInitial, Broken
<1>4. CASE page.socket = greeting
  BY <1>1, <1>2, <1>4 DEF SendInitial, Broken
<1>5. greeting # None
  BY DEF SendInitial
<1> QED
  BY <1>1, <1>3, <1>4, <1>5

LEMMA NamespaceTypeStep == NamespaceTypeOK /\ [NamespaceNext]_namespaceVars => NamespaceTypeOK'
<1> SUFFICES ASSUME NamespaceTypeOK, [NamespaceNext]_namespaceVars PROVE NamespaceTypeOK'
  OBVIOUS
<1>0. /\ rows \in Table /\ revision \in Nat /\ announcing \in [Writers -> {None, Unread} \cup Snapshot]
      /\ connections \subseteq Sockets /\ greeting \in {None} \cup Sockets /\ scheduled \in Seq(Snapshot)
      /\ wire \in [Sockets -> Seq(Snapshot)] /\ page \in PageType /\ refresh \in {None} \cup Snapshot
      /\ refresh # None => Told(refresh) = RowNames
  BY DEF NamespaceTypeOK
<1>00. Full \in Snapshot /\ Told(Full) = RowNames
  BY <1>0, FullMade
<1>1. ASSUME NEW w \in Writers, NEW tags \in SUBSET RowNames, NEW v \in Values,
             LoadModel(w, tags, v) \/ Update(w, tags, v)
      PROVE  NamespaceTypeOK'
  <2>1. PICK m \in {Unread} \cup Snapshot : announcing' = [announcing EXCEPT ![w] = m]
    BY <1>1, WriteEffect
  <2>2. /\ revision' = revision + 1 /\ rows' \in Table
        /\ UNCHANGED <<connections, greeting, scheduled, wire, page, refresh>>
    BY <1>1, WriteEffect
  <2> QED
    BY <1>0, <2>1, <2>2 DEF NamespaceTypeOK
<1>2. ASSUME NEW w \in Writers, ReadBack(w) PROVE NamespaceTypeOK'
  BY <1>0, <1>00, <1>2 DEF ReadBack, hubVars, NamespaceTypeOK
<1>3. ASSUME NEW w \in Writers, Publish(w) PROVE NamespaceTypeOK'
  <2>1. Append(scheduled, announcing[w]) \in Seq(Snapshot)
    BY <1>0, <1>3, AppendNews DEF Publish
  <2> QED
    BY <1>0, <1>3, <2>1 DEF Publish, NamespaceTypeOK
<1>4. ASSUME NEW s \in Sockets, Connect(s) \/ Disconnect(s) PROVE NamespaceTypeOK'
  BY <1>0, <1>4 DEF Connect, Disconnect, coreVars, NamespaceTypeOK
<1>5. ASSUME NEW s \in Sockets, OpenSocket(s) PROVE NamespaceTypeOK'
  <2>1. page' \in PageType
    BY <1>0, <1>5 DEF OpenSocket, PageType
  <2> QED
    BY <1>0, <1>5, <2>1 DEF OpenSocket, coreVars, hubVars, NamespaceTypeOK
<1>6. ASSUME SendInitial PROVE NamespaceTypeOK'
  BY <1>0, <1>6, GreetEffect DEF NamespaceTypeOK
<1>7. ASSUME Broadcast PROVE NamespaceTypeOK'
  BY <1>0, <1>7, BroadcastEffect DEF NamespaceTypeOK
<1>8. ASSUME SocketCloses PROVE NamespaceTypeOK'
  <2>1. page' \in PageType
    BY <1>0, <1>8 DEF SocketCloses, PageType
  <2>2. wire' \in [Sockets -> Seq(Snapshot)]
    BY <1>0, <1>8, NoNews DEF SocketCloses
  <2> QED
    BY <1>0, <1>8, <2>1, <2>2 DEF SocketCloses, coreVars, NamespaceTypeOK
<1>9. ASSUME OnMessage PROVE NamespaceTypeOK'
  <2>1. page.socket \in Sockets
    BY <1>0, <1>9 DEF OnMessage, PageType
  <2>2. Head(wire[page.socket]) \in Snapshot /\ Tail(wire[page.socket]) \in Seq(Snapshot)
    BY <1>0, <1>9, <2>1, TailNews DEF OnMessage
  <2>3. page' \in PageType
    BY <1>9, <2>2, ShownEffect DEF OnMessage
  <2> QED
    BY <1>0, <1>9, <2>2, <2>3 DEF OnMessage, coreVars, NamespaceTypeOK
<1>10. ASSUME ReadRows PROVE NamespaceTypeOK'
  BY <1>0, <1>00, <1>10 DEF ReadRows, coreVars, hubVars, NamespaceTypeOK
<1>11. ASSUME NEW left \in SUBSET RowNames, RowsArrive(left) PROVE NamespaceTypeOK'
  <2>1. page' \in PageType
    BY <1>0, <1>11, ShownEffect DEF RowsArrive
  <2> QED
    BY <1>0, <1>11, <2>1 DEF RowsArrive, coreVars, hubVars, NamespaceTypeOK
<1>14. ASSUME RequestFails PROVE NamespaceTypeOK'
  BY <1>0, <1>14 DEF RequestFails, coreVars, hubVars, NamespaceTypeOK
<1>12. CASE UNCHANGED namespaceVars
  BY <1>0, <1>12 DEF namespaceVars, NamespaceTypeOK
<1>13. CASE NamespaceNext
  BY <1>1, <1>2, <1>3, <1>4, <1>5, <1>6, <1>7, <1>8, <1>9, <1>10, <1>11, <1>13, <1>14 DEF NamespaceNext
<1> QED
  BY <1>12, <1>13

----------------------------------------
News(c) == InFlight(c) /\ OnPage(c) /\ NewsComes(c)

\* A snapshot of all rows is truthful, and news of every row.
LEMMA FullTells ==
    ASSUME NamespaceTypeOK, NEW c \in Changed
    PROVE  Truthful(Full, c) /\ \A t \in RowNames : Brings(Full, c[t], t)
<1>1. rows \in Table /\ revision \in Nat
  BY DEF NamespaceTypeOK
<1> PICK m : m = Full
  OBVIOUS
<1>2. m.at = revision /\ m.rows = rows /\ Told(m) = RowNames
  BY <1>1, FullMade
<1>3. Truthful(m, c)
  BY <1>1, <1>2 DEF Truthful
<1>4. \A t \in RowNames : c[t] \in 0..revision
  BY DEF Changed
<1>5. \A t \in RowNames : Brings(m, c[t], t)
  BY <1>1, <1>2, <1>4 DEF Brings
<1> QED
  BY <1>3, <1>5

\* A step that leaves the rows: what is truthful stays so.
LEMMA TruthKept ==
    ASSUME UNCHANGED <<rows, revision>>, NEW c
    PROVE  /\ \A m : Truthful(m, c)' <=> Truthful(m, c)
           /\ \A s : AllTruthful(s, c)' <=> AllTruthful(s, c)
<1>1. \A m : Truthful(m, c)' <=> Truthful(m, c)
  BY DEF Truthful
<1>2. \A s : AllTruthful(s, c)' <=> AllTruthful(s, c)
  BY <1>1 DEF AllTruthful
<1> QED
  BY <1>1, <1>2

LEMMA WriteKeeps ==
    ASSUME NamespaceTypeOK, NEW c \in Changed, News(c),
           NEW w \in Writers, NEW tags \in SUBSET RowNames, NEW v \in Values,
           LoadModel(w, tags, v) \/ Update(w, tags, v)
    PROVE  \E d \in Changed' : News(d)'
<1>0. /\ revision \in Nat /\ revision' = revision + 1 /\ announcing[w] = None
      /\ UNCHANGED <<connections, greeting, scheduled, wire, page, refresh>>
  BY WriteEffect DEF NamespaceTypeOK
<1>1. PICK m \in {Unread} \cup Snapshot :
                /\ announcing' = [announcing EXCEPT ![w] = m]
                /\ \/ m = Unread
                   \/ /\ m \in Snapshot /\ m # None /\ m # Unread
                      /\ m.at = revision + 1
                      /\ \A t \in Told(m) : m.rows[t] = rows'[t]
                      /\ \A t \in RowNames : t \in Told(m) \/ rows'[t] = rows[t]
  BY WriteEffect
<1> PICK r \in Nat : r = revision + 1
  BY <1>0
<1> PICK told \in SUBSET RowNames : told = Told(m)
  <2>1. Told(Unread) = RowNames
    BY DEF Unread, Told
  <2> QED
    BY <1>1, <2>1, SnapshotParts
<1>2. m = Unread => told = RowNames
  BY DEF Unread, Told
<1>3. \A t \in RowNames : t \in told \/ rows'[t] = rows[t]
  BY <1>1, <1>2
<1> PICK d : d = [t \in RowNames |-> IF t \in told THEN r ELSE c[t]]
  OBVIOUS
<1>4. d \in [RowNames -> 0..r]
  BY <1>0 DEF Changed
<1>5. d \in Changed'
  BY <1>0, <1>4 DEF Changed
<1>6. ASSUME NEW n \in Snapshot, Truthful(n, c) PROVE Truthful(n, d)'
  <2>1. n.at \in Nat /\ n.at <= revision
    BY <1>6, SnapshotParts DEF Truthful
  <2>2. n.at <= revision'
    BY <1>0, <2>1
  <2>3. ASSUME NEW t \in Told(n), n.at >= d[t] PROVE n.rows[t] = rows'[t]
    <3>0. t \in RowNames
      BY SnapshotParts
    <3>1. t \notin told
      BY <1>0, <2>1, <2>3, <3>0
    <3>2. d[t] = c[t] /\ rows'[t] = rows[t]
      BY <1>3, <3>0, <3>1
    <3> QED
      BY <1>6, <2>3, <3>2 DEF Truthful
  <2> QED
    BY <2>2, <2>3 DEF Truthful
<1>7. ASSUME NEW s \in Seq(Snapshot), AllTruthful(s, c) PROVE AllTruthful(s, d)'
  <2>1. \A i \in 1..Len(s) : s[i] \in Snapshot
    BY ElementOfSeq
  <2>2. \A i \in 1..Len(s) : Truthful(s[i], d)'
    BY <1>6, <1>7, <2>1 DEF AllTruthful
  <2> QED
    BY <2>2 DEF AllTruthful
<1>8. InFlight(d)'
  <2>1. ASSUME NEW u \in Writers, announcing'[u] \notin {None, Unread} PROVE Truthful(announcing[u], d)'
    <3>1. CASE u = w
      <4>1. announcing'[u] = m /\ m \in Snapshot
        BY <1>1, <2>1, <3>1 DEF NamespaceTypeOK
      <4>2. Truthful(m, d)'
        BY <1>0, <1>1, <2>1, <4>1 DEF Truthful
      <4> QED
        BY <4>1, <4>2
    <3>2. CASE u # w
      <4> PICK n : n = announcing[u]
        OBVIOUS
      <4>1. announcing'[u] = n
        BY <1>1, <3>2 DEF NamespaceTypeOK
      <4>2. n \in Snapshot /\ Truthful(n, c)
        BY <2>1, <4>1 DEF NamespaceTypeOK, News, InFlight
      <4> QED
        BY <1>6, <4>1, <4>2
    <3> QED
      BY <3>1, <3>2
  <2>2. AllTruthful(scheduled, d)'
    <3> PICK s \in Seq(Snapshot) : s = scheduled
      BY DEF NamespaceTypeOK
    <3>1. AllTruthful(s, d)' /\ scheduled' = s
      BY <1>0, <1>7 DEF News, InFlight
    <3> QED
      BY <3>1
  <2>3. ASSUME NEW x \in Sockets PROVE AllTruthful(wire[x], d)'
    <3> PICK s \in Seq(Snapshot) : s = wire[x]
      BY DEF NamespaceTypeOK
    <3>1. AllTruthful(s, d)' /\ wire'[x] = s
      BY <1>0, <1>7 DEF News, InFlight
    <3> QED
      BY <3>1
  <2>4. ASSUME refresh' # None PROVE Truthful(refresh, d)'
    <3> PICK n : n = refresh
      OBVIOUS
    <3>1. n \in Snapshot /\ Truthful(n, c) /\ refresh' = n
      BY <1>0, <2>4 DEF NamespaceTypeOK, News, InFlight
    <3>2. Truthful(n, d)'
      BY <1>6, <3>1
    <3> QED
      BY <3>1, <3>2
  <2> QED
    BY <2>1, <2>2, <2>3, <2>4 DEF InFlight
<1>9. OnPage(d)'
  <2> SUFFICES ASSUME NEW t \in RowNames
               PROVE  page.at[t] <= revision' /\ (page.at[t] >= d[t] => PageHas(t, rows'[t]))
    BY <1>0 DEF OnPage, PageHas
  <2>1. page.at[t] \in Nat /\ page.at[t] <= revision
    BY DEF NamespaceTypeOK, PageType, News, OnPage
  <2>2. t \in told => ~(page.at[t] >= d[t])
    BY <1>0, <2>1
  <2>3. t \notin told => d[t] = c[t] /\ rows'[t] = rows[t]
    BY <1>3
  <2> QED
    BY <1>0, <2>1, <2>2, <2>3 DEF News, OnPage
<1>10. NewsComes(d)'
  <2> SUFFICES ASSUME NEW t \in RowNames PROVE page.newest[t] >= d[t] \/ Comes(d[t], t)'
    BY <1>0 DEF NewsComes
  <2>1. CASE t \in told
    <3>1. d[t] = r
      BY <2>1
    <3>2. announcing'[w] = m
      BY <1>1 DEF NamespaceTypeOK
    <3>3. m # Unread => m # None /\ Brings(m, r, t)
      BY <1>0, <1>1, <2>1 DEF Brings
    <3> QED
      BY <3>1, <3>2, <3>3 DEF Comes
  <2>2. CASE t \notin told
    <3>1. d[t] = c[t] /\ m # Unread
      BY <1>2, <2>2
    <3>2. page.newest[t] >= c[t] \/ Comes(c[t], t)
      BY DEF News, NewsComes
    <3>3. \A u \in Writers : announcing[u] # None => announcing'[u] = announcing[u]
      BY <1>0, <1>1 DEF NamespaceTypeOK
    <3>4. (\E u \in Writers : announcing[u] = Unread \/ (announcing[u] # None /\ Brings(announcing[u], c[t], t)))
             => \E u \in Writers : announcing'[u] = Unread \/ (announcing'[u] # None /\ Brings(announcing'[u], c[t], t))
      BY <3>3, NamespaceAssumption
    <3> QED
      BY <1>0, <3>1, <3>2, <3>4 DEF Comes
  <2> QED
    BY <2>1, <2>2
<1> QED
  BY <1>5, <1>8, <1>9, <1>10 DEF News

\* A step that leaves the rows, from its three effects.
LEMMA StillChanged ==
    ASSUME UNCHANGED revision, NEW c \in Changed
    PROVE  c \in Changed'
  BY DEF Changed

LEMMA ReadBackKeeps ==
    ASSUME NamespaceTypeOK, NEW c \in Changed, News(c), NEW w \in Writers, ReadBack(w)
    PROVE  News(c)'
<1>0. UNCHANGED <<rows, revision, connections, greeting, scheduled, wire, page, refresh>>
  BY DEF ReadBack, hubVars
<1> PICK m : m = Full
  OBVIOUS
<1>1. m \in Snapshot /\ m # None /\ Truthful(m, c) /\ \A t \in RowNames : Brings(m, c[t], t)
  BY FullMade, FullTells DEF NamespaceTypeOK
<1>2. announcing' = [announcing EXCEPT ![w] = m] /\ announcing \in [Writers -> {None, Unread} \cup Snapshot]
  BY DEF ReadBack, NamespaceTypeOK
<1>3. InFlight(c)'
  <2>1. ASSUME NEW u \in Writers, announcing'[u] \notin {None, Unread} PROVE Truthful(announcing[u], c)'
    <3> PICK n : n = announcing'[u]
      OBVIOUS
    <3>1. Truthful(n, c)
      BY <1>1, <1>2, <2>1 DEF News, InFlight
    <3>2. Truthful(n, c)'
      BY <1>0, <3>1, TruthKept
    <3> QED
      BY <3>2
  <2> QED
    BY <1>0, <2>1, TruthKept DEF News, InFlight
<1>4. OnPage(c)'
  BY <1>0 DEF News, OnPage, PageHas
<1>5. NewsComes(c)'
  <2>1. announcing'[w] = m
    BY <1>2
  <2>2. \A t \in RowNames : Comes(c[t], t)'
    BY <1>1, <2>1 DEF Comes
  <2> QED
    BY <2>2 DEF NewsComes
<1> QED
  BY <1>3, <1>4, <1>5 DEF News

LEMMA PublishKeeps ==
    ASSUME NamespaceTypeOK, NEW c \in Changed, News(c), NEW w \in Writers, Publish(w)
    PROVE  News(c)'
<1>0. UNCHANGED <<rows, revision, connections, greeting, wire, page, refresh>>
  BY DEF Publish
<1> PICK m : m = announcing[w]
  OBVIOUS
<1>1. m \in Snapshot /\ m \notin {None, Unread} /\ Truthful(m, c)
  BY DEF Publish, NamespaceTypeOK, News, InFlight
<1>2. announcing' = [announcing EXCEPT ![w] = None] /\ announcing \in [Writers -> {None, Unread} \cup Snapshot]
  BY DEF Publish, NamespaceTypeOK
<1>3. scheduled' = IF connections = {} THEN scheduled ELSE Append(scheduled, m)
  BY DEF Publish
<1> PICK s \in Seq(Snapshot) : s = scheduled
  BY DEF NamespaceTypeOK
<1>4. InFlight(c)'
  <2>1. ASSUME NEW u \in Writers, announcing'[u] \notin {None, Unread} PROVE Truthful(announcing[u], c)'
    <3> PICK n : n = announcing'[u]
      OBVIOUS
    <3>1. Truthful(n, c)
      BY <1>2, <2>1 DEF News, InFlight
    <3>2. Truthful(n, c)'
      BY <1>0, <3>1, TruthKept
    <3> QED
      BY <3>2
  <2>2. AllTruthful(scheduled, c)'
    <3>1. AllTruthful(s, c) /\ AllTruthful(Append(s, m), c)
      BY <1>1, AppendNews DEF News, InFlight
    <3>2. PICK x : x = scheduled'
      OBVIOUS
    <3>3. AllTruthful(x, c)
      BY <1>3, <3>1, <3>2
    <3> QED
      BY <1>0, <3>2, <3>3, TruthKept
  <2> QED
    BY <1>0, <2>1, <2>2, TruthKept DEF News, InFlight
<1>5. OnPage(c)'
  BY <1>0 DEF News, OnPage, PageHas
<1>6. ASSUME NEW t \in RowNames, Comes(c[t], t) PROVE Comes(c[t], t)'
  <2> PICK x : x = c[t]
    OBVIOUS
  <2>1. CASE page.socket \notin connections
    BY <1>0, <2>1 DEF Comes
  <2>2. CASE page.socket \in connections
    <3>1. scheduled' = Append(s, m)
      BY <1>3, <2>2
    <3>2. Carries(scheduled', x, t) <=> Carries(s, x, t) \/ Brings(m, x, t)
      BY <1>1, <3>1, AppendNews
    <3>3. \A u \in Writers : u # w => announcing'[u] = announcing[u]
      BY <1>2
    <3> QED
      BY <1>0, <1>1, <1>6, <3>2, <3>3 DEF Comes
  <2> QED
    BY <2>1, <2>2
<1>7. NewsComes(c)'
  BY <1>0, <1>6 DEF News, NewsComes
<1> QED
  BY <1>4, <1>5, <1>7 DEF News

\* Steps of the hub and the page that move no message.
LEMMA SocketKeeps ==
    ASSUME NamespaceTypeOK, NEW c \in Changed, News(c),
           NEW s \in Sockets, Connect(s) \/ Disconnect(s) \/ OpenSocket(s)
    PROVE  News(c)'
<1>0. UNCHANGED <<rows, revision, announcing, scheduled, wire, refresh>>
      /\ page'.rows = page.rows /\ page'.hidden = page.hidden
      /\ page'.at = page.at /\ page'.newest = page.newest
  BY DEF Connect, Disconnect, OpenSocket, coreVars, hubVars, NamespaceTypeOK, PageType
<1>1. InFlight(c)'
  BY <1>0, TruthKept DEF News, InFlight
<1>2. OnPage(c)'
  BY <1>0 DEF News, OnPage, PageHas
<1>3. \/ page'.socket \notin connections'
      \/ greeting' = page'.socket
      \/ UNCHANGED <<page, greeting>> /\ (page.socket \in connections' => page.socket \in connections)
  <2>1. Connect(s) => greeting' = page'.socket
    BY DEF Connect
  <2>2. Disconnect(s) => UNCHANGED <<page, greeting>> /\ (page.socket \in connections' => page.socket \in connections)
    BY DEF Disconnect
  <2>3. OpenSocket(s) => page'.socket \notin connections'
    BY DEF OpenSocket, hubVars, NamespaceTypeOK, PageType
  <2> QED
    BY <2>1, <2>2, <2>3
<1>4. \A t \in RowNames : Comes(c[t], t) => Comes(c[t], t)'
  BY <1>0, <1>3 DEF Comes
<1>5. \A t \in RowNames : page.newest[t] >= c[t] \/ Comes(c[t], t)'
  BY <1>4 DEF News, NewsComes
<1>6. NewsComes(c)'
  BY <1>0, <1>5 DEF NewsComes
<1> QED
  BY <1>1, <1>2, <1>6 DEF News

LEMMA GreetKeeps ==
    ASSUME NamespaceTypeOK, NEW c \in Changed, News(c), SendInitial
    PROVE  News(c)'
<1>0. UNCHANGED <<rows, revision, announcing, scheduled, page, refresh>>
  BY GreetEffect
<1> PICK m : m = Full
  OBVIOUS
<1>1. m \in Snapshot /\ Truthful(m, c) /\ \A t \in RowNames : Brings(m, c[t], t)
  BY FullMade, FullTells DEF NamespaceTypeOK
<1>2. InFlight(c)'
  <2>1. ASSUME NEW x \in Sockets PROVE AllTruthful(wire[x], c)'
    <3> PICK s \in Seq(Snapshot) : s = wire[x]
      BY DEF NamespaceTypeOK
    <3>1. AllTruthful(s, c) /\ AllTruthful(Append(s, m), c)
      BY <1>1, AppendNews DEF News, InFlight
    <3> PICK y : y = wire'[x]
      OBVIOUS
    <3>2. y = s \/ y = Append(s, m)
      BY GreetEffect
    <3>3. AllTruthful(y, c)
      BY <3>1, <3>2
    <3> QED
      BY <1>0, <3>3, TruthKept
  <2> QED
    BY <1>0, <2>1, TruthKept DEF News, InFlight
<1>3. OnPage(c)'
  BY <1>0 DEF News, OnPage, PageHas
<1>4. ASSUME NEW t \in RowNames, Comes(c[t], t) PROVE Comes(c[t], t)'
  <2>1. CASE page.socket \notin connections
    BY <1>0, <2>1, GreetEffect DEF Comes
  <2>2. CASE greeting = page.socket
    <3> PICK s \in Seq(Snapshot) : s = wire[page.socket]
      BY <2>2, GreetEffect DEF NamespaceTypeOK
    <3> PICK x : x = c[t]
      OBVIOUS
    <3>1. wire'[page.socket] = Append(s, m)
      BY <2>2, GreetEffect
    <3>2. Carries(wire'[page.socket], x, t)
      BY <1>1, <3>1, AppendNews
    <3> QED
      BY <1>0, <3>2 DEF Comes
  <2>3. CASE greeting # page.socket
    <3>1. wire' = wire
      BY <2>3, GreetEffect
    <3> QED
      BY <1>0, <1>4, <2>1, <2>3, <3>1 DEF Comes
  <2> QED
    BY <2>1, <2>2, <2>3
<1>5. NewsComes(c)'
  BY <1>0, <1>4 DEF News, NewsComes
<1> QED
  BY <1>2, <1>3, <1>5 DEF News

LEMMA BroadcastKeeps ==
    ASSUME NamespaceTypeOK, NEW c \in Changed, News(c), Broadcast
    PROVE  News(c)'
<1>0. UNCHANGED <<rows, revision, announcing, greeting, page, refresh>>
  BY BroadcastEffect
<1> PICK b \in Seq(Snapshot) : b = scheduled
  BY DEF NamespaceTypeOK
<1> PICK m \in Snapshot : m = Head(b)
  BY BroadcastEffect
<1>1. b # <<>> /\ Truthful(m, c) /\ AllTruthful(Tail(b), c) /\ scheduled' = Tail(b)
  BY BroadcastEffect, TailNews DEF News, InFlight
<1>2. InFlight(c)'
  <2>1. ASSUME NEW x \in Sockets PROVE AllTruthful(wire[x], c)'
    <3> PICK s \in Seq(Snapshot) : s = wire[x]
      BY DEF NamespaceTypeOK
    <3>1. AllTruthful(s, c) /\ AllTruthful(Append(s, m), c)
      BY <1>1, AppendNews DEF News, InFlight
    <3> PICK y : y = wire'[x]
      OBVIOUS
    <3>2. y = s \/ y = Append(s, m)
      BY BroadcastEffect
    <3>3. AllTruthful(y, c)
      BY <3>1, <3>2
    <3> QED
      BY <1>0, <3>3, TruthKept
  <2>2. AllTruthful(scheduled, c)'
    <3> PICK y : y = scheduled'
      OBVIOUS
    <3>1. AllTruthful(y, c)
      BY <1>1
    <3> QED
      BY <1>0, <3>1, TruthKept
  <2> QED
    BY <1>0, <2>1, <2>2, TruthKept DEF News, InFlight
<1>3. OnPage(c)'
  BY <1>0 DEF News, OnPage, PageHas
<1>4. ASSUME NEW t \in RowNames, Comes(c[t], t) PROVE Comes(c[t], t)'
  <2>1. CASE page.socket \notin connections
    BY <1>0, <2>1, BroadcastEffect DEF Comes
  <2>2. CASE page.socket \in connections
    <3> PICK s \in Seq(Snapshot) : s = wire[page.socket]
      BY <2>2 DEF NamespaceTypeOK
    <3> PICK x : x = c[t]
      OBVIOUS
    <3>1. wire'[page.socket] = Append(s, m)
      BY <2>2, BroadcastEffect
    <3>2. Carries(wire'[page.socket], x, t) <=> Carries(s, x, t) \/ Brings(m, x, t)
      BY <3>1, AppendNews
    <3>3. Carries(b, x, t) <=> Brings(m, x, t) \/ Carries(scheduled', x, t)
      BY <1>1, TailNews
    <3> QED
      BY <1>0, <1>4, <2>2, <3>2, <3>3 DEF Comes
  <2> QED
    BY <2>1, <2>2
<1>5. NewsComes(c)'
  BY <1>0, <1>4 DEF News, NewsComes
<1> QED
  BY <1>2, <1>3, <1>5 DEF News

LEMMA ClosesKeeps ==
    ASSUME NamespaceTypeOK, NEW c \in Changed, News(c), SocketCloses
    PROVE  News(c)'
<1>0. UNCHANGED <<rows, revision, announcing, connections, greeting, scheduled, refresh>>
      /\ page'.socket = None /\ page'.rows = page.rows /\ page'.hidden = page.hidden
      /\ page'.at = page.at /\ page'.newest = page.newest
  BY DEF SocketCloses, coreVars, NamespaceTypeOK, PageType
<1>1. None \notin connections
  BY NamespaceAssumption DEF NamespaceTypeOK
<1>2. InFlight(c)'
  <2>1. ASSUME NEW x \in Sockets PROVE AllTruthful(wire[x], c)'
    <3> PICK y : y = wire'[x]
      OBVIOUS
    <3>1. y = <<>> \/ y = wire[x]
      BY DEF SocketCloses, NamespaceTypeOK
    <3>2. AllTruthful(y, c)
      BY <3>1, NoNews DEF News, InFlight
    <3> QED
      BY <1>0, <3>2, TruthKept
  <2> QED
    BY <1>0, <2>1, TruthKept DEF News, InFlight
<1>3. OnPage(c)'
  BY <1>0 DEF News, OnPage, PageHas
<1>4. NewsComes(c)'
  BY <1>0, <1>1 DEF NewsComes, Comes
<1> QED
  BY <1>2, <1>3, <1>4 DEF News

\* The page shows a truthful message: it is right about every row that is told.
LEMMA ShownIsTrue ==
    ASSUME NamespaceTypeOK, NEW c \in Changed, News(c), NEW m \in Snapshot, Truthful(m, c),
           NEW left \in SUBSET Told(m), page' = Shows(m, left), UNCHANGED <<rows, revision>>
    PROVE  /\ OnPage(c)'
           /\ \A t \in RowNames : page.newest[t] >= c[t] \/ Brings(m, c[t], t) => page'.newest[t] >= c[t]
<1>0. /\ m.at \in Nat /\ page.newest \in [RowNames -> Nat] /\ page'.newest \in [RowNames -> Nat]
      /\ c \in [RowNames -> Nat]
  BY SnapshotParts, ShownEffect DEF NamespaceTypeOK, PageType, Changed
<1>00. Shown(page', m, left)
  BY ShownEffect
<1>1. ASSUME NEW t \in RowNames
      PROVE  page'.at[t] <= revision /\ (page'.at[t] >= c[t] => PageHas(t, rows[t])')
  <2>1. CASE t \in Told(m)
    BY <1>00, <2>1 DEF Truthful, Shown, PageHas
  <2>2. CASE t \notin Told(m)
    BY <1>00, <2>2 DEF Shown, News, OnPage, PageHas
  <2> QED
    BY <2>1, <2>2
<1>2. ASSUME NEW t \in RowNames, page.newest[t] >= c[t] \/ Brings(m, c[t], t) PROVE page'.newest[t] >= c[t]
  <2>1. /\ page'.newest[t] \in Nat /\ page.newest[t] \in Nat /\ c[t] \in Nat
    BY <1>0
  <2>2. CASE t \in Told(m)
    <3>1. page'.newest[t] >= m.at /\ page'.newest[t] >= page.newest[t]
      BY <1>00, <2>2 DEF Shown
    <3> QED
      BY <1>0, <1>2, <2>1, <3>1 DEF Brings
  <2>3. CASE t \notin Told(m)
    BY <1>00, <1>2, <2>3 DEF Shown, Brings
  <2> QED
    BY <2>2, <2>3
<1> QED
  BY <1>1, <1>2 DEF OnPage, PageHas

LEMMA MessageKeeps ==
    ASSUME NamespaceTypeOK, NEW c \in Changed, News(c), OnMessage
    PROVE  News(c)'
<1>0. UNCHANGED <<rows, revision, announcing, connections, greeting, scheduled, refresh>>
  BY DEF OnMessage, coreVars
<1>1. page.socket \in Sockets
  BY DEF OnMessage, NamespaceTypeOK, PageType
<1> PICK s \in Seq(Snapshot) : s = wire[page.socket]
  BY <1>1 DEF NamespaceTypeOK
<1>2. s # <<>>
  BY DEF OnMessage
<1> PICK m \in Snapshot : m = Head(s)
  BY <1>2, TailNews
<1>3. AllTruthful(s, c) /\ Truthful(m, c) /\ AllTruthful(Tail(s), c)
  BY <1>1, <1>2, TailNews DEF News, InFlight
<1>4. page' = Shows(m, {}) /\ wire' = [wire EXCEPT ![page.socket] = Tail(s)] /\ page'.socket = page.socket
  BY ShownEffect DEF OnMessage, Shown
<1>5. InFlight(c)'
  <2>1. ASSUME NEW x \in Sockets PROVE AllTruthful(wire[x], c)'
    <3> PICK y : y = wire'[x]
      OBVIOUS
    <3>1. y = Tail(s) \/ y = wire[x]
      BY <1>4 DEF NamespaceTypeOK
    <3>2. AllTruthful(y, c)
      BY <1>3, <3>1 DEF News, InFlight
    <3> QED
      BY <1>0, <3>2, TruthKept
  <2> QED
    BY <1>0, <2>1, TruthKept DEF News, InFlight
<1>6. OnPage(c)'
  BY <1>0, <1>3, <1>4, ShownIsTrue
<1>7. ASSUME NEW t \in RowNames PROVE page'.newest[t] >= c[t] \/ Comes(c[t], t)'
  <2> PICK x : x = c[t]
    OBVIOUS
  <2>1. page.newest[t] >= x \/ Brings(m, x, t) => page'.newest[t] >= x
    BY <1>0, <1>3, <1>4, ShownIsTrue
  <2>2. wire'[page.socket] = Tail(s)
    BY <1>1, <1>4 DEF NamespaceTypeOK
  <2>3. Carries(s, x, t) <=> Brings(m, x, t) \/ Carries(wire'[page.socket], x, t)
    BY <1>2, <2>2, TailNews
  <2>4. page.newest[t] >= x \/ Comes(x, t)
    BY DEF News, NewsComes
  <2> QED
    BY <1>0, <1>4, <2>1, <2>3, <2>4 DEF Comes
<1>8. NewsComes(c)'
  BY <1>7 DEF NewsComes
<1> QED
  BY <1>5, <1>6, <1>8 DEF News

LEMMA RefreshKeeps ==
    ASSUME NamespaceTypeOK, NEW c \in Changed, News(c), NEW left \in SUBSET RowNames,
           ReadRows \/ RowsArrive(left) \/ RequestFails
    PROVE  News(c)'
<1>1. ASSUME ReadRows PROVE News(c)'
  <2>0. UNCHANGED <<rows, revision, announcing, connections, greeting, scheduled, wire, page>>
    BY <1>1 DEF ReadRows, coreVars, hubVars
  <2> PICK m : m = Full
    OBVIOUS
  <2>1. refresh' = m /\ Truthful(m, c)
    BY <1>1, FullTells DEF ReadRows
  <2>2. Truthful(refresh, c)'
    <3>1. Truthful(m, c)'
      BY <2>0, <2>1, TruthKept
    <3> QED
      BY <2>1, <3>1
  <2>3. InFlight(c)'
    BY <2>0, <2>2, TruthKept DEF News, InFlight
  <2>4. OnPage(c)'
    BY <2>0 DEF News, OnPage, PageHas
  <2>5. NewsComes(c)'
    BY <2>0 DEF News, NewsComes, Comes
  <2> QED
    BY <2>3, <2>4, <2>5 DEF News
<1>2. ASSUME RowsArrive(left) PROVE News(c)'
  <2>0. UNCHANGED <<rows, revision, announcing, connections, greeting, scheduled, wire>>
    BY <1>2 DEF RowsArrive, coreVars, hubVars
  <2> PICK m \in Snapshot : m = refresh
    BY <1>2 DEF RowsArrive, NamespaceTypeOK
  <2>1. refresh' = None /\ page' = Shows(m, left) /\ Truthful(m, c) /\ left \subseteq Told(m)
    BY <1>2 DEF RowsArrive, News, InFlight, NamespaceTypeOK
  <2>2. page'.socket = page.socket
    BY <2>1, ShownEffect DEF Shown
  <2>3. InFlight(c)'
    BY <2>0, <2>1, TruthKept DEF News, InFlight
  <2>4. OnPage(c)' /\ \A t \in RowNames : page.newest[t] >= c[t] => page'.newest[t] >= c[t]
    BY <2>0, <2>1, ShownIsTrue
  <2>5. NewsComes(c)'
    BY <2>0, <2>2, <2>4 DEF News, NewsComes, Comes
  <2> QED
    BY <2>3, <2>4, <2>5 DEF News
<1>3. ASSUME RequestFails PROVE News(c)'
  <2>0. UNCHANGED <<rows, revision, announcing, connections, greeting, scheduled, wire, page>> /\ refresh' = None
    BY <1>3 DEF RequestFails, coreVars, hubVars
  <2>1. InFlight(c)'
    BY <2>0, TruthKept DEF News, InFlight
  <2>2. OnPage(c)' /\ NewsComes(c)'
    BY <2>0 DEF News, OnPage, NewsComes, Comes, PageHas
  <2> QED
    BY <2>1, <2>2 DEF News
<1> QED
  BY <1>1, <1>2, <1>3

\* The inductive invariant.
NewsInv == NamespaceTypeOK /\ \E c \in Changed : News(c)

LEMMA NewsInvInit == NamespaceInit => NewsInv
<1> SUFFICES ASSUME NamespaceInit PROVE NewsInv
  OBVIOUS
<1>1. NamespaceTypeOK
  BY NamespaceInitType
<1> PICK c : c = [t \in RowNames |-> 0]
  OBVIOUS
<1>2. c \in Changed
  BY DEF Changed, NamespaceInit
<1>3. InFlight(c)
  BY NoNews DEF InFlight, NamespaceInit
<1>4. OnPage(c)
  BY DEF OnPage, PageHas, NamespaceInit
<1>5. NewsComes(c)
  BY DEF NewsComes, NamespaceInit
<1> QED
  BY <1>1, <1>2, <1>3, <1>4, <1>5 DEF NewsInv, News

LEMMA NewsInvStep == NewsInv /\ [NamespaceNext]_namespaceVars => NewsInv'
<1> SUFFICES ASSUME NewsInv, [NamespaceNext]_namespaceVars PROVE NewsInv'
  OBVIOUS
<1>1. NamespaceTypeOK /\ NamespaceTypeOK'
  BY NamespaceTypeStep DEF NewsInv
<1> PICK c \in Changed : News(c)
  BY DEF NewsInv
<1>2. ASSUME UNCHANGED revision, News(c)' PROVE \E d \in Changed' : News(d)'
  BY <1>2, StillChanged
<1>3. CASE UNCHANGED namespaceVars
  <2>1. UNCHANGED <<rows, revision, announcing, connections, greeting, scheduled, wire, page, refresh>>
    BY <1>3 DEF namespaceVars
  <2>2. InFlight(c)'
    BY <2>1, TruthKept DEF News, InFlight
  <2>3. OnPage(c)' /\ NewsComes(c)'
    BY <2>1 DEF News, OnPage, NewsComes, Comes, PageHas
  <2> QED
    BY <1>1, <1>2, <2>1, <2>2, <2>3 DEF News, NewsInv
<1>4. ASSUME NEW w \in Writers, NEW tags \in SUBSET RowNames, NEW v \in Values,
             LoadModel(w, tags, v) \/ Update(w, tags, v)
      PROVE  NewsInv'
  BY <1>1, <1>4, WriteKeeps DEF NewsInv
<1>5. ASSUME NEW w \in Writers, ReadBack(w) \/ Publish(w) PROVE NewsInv'
  <2>1. UNCHANGED revision
    BY <1>5 DEF ReadBack, Publish
  <2>2. News(c)'
    BY <1>1, <1>5, ReadBackKeeps, PublishKeeps
  <2> QED
    BY <1>1, <1>2, <2>1, <2>2 DEF NewsInv
<1>6. ASSUME NEW s \in Sockets, Connect(s) \/ Disconnect(s) \/ OpenSocket(s) PROVE NewsInv'
  <2>1. UNCHANGED revision
    BY <1>6 DEF Connect, Disconnect, OpenSocket, coreVars
  <2>2. News(c)'
    BY <1>1, <1>6, SocketKeeps
  <2> QED
    BY <1>1, <1>2, <2>1, <2>2 DEF NewsInv
<1>7. ASSUME NEW left \in SUBSET RowNames,
             \/ SendInitial \/ Broadcast \/ SocketCloses \/ OnMessage
             \/ ReadRows \/ RowsArrive(left) \/ RequestFails
      PROVE  NewsInv'
  <2>1. UNCHANGED revision
    BY <1>7 DEF SendInitial, Broadcast, SocketCloses, OnMessage, ReadRows, RowsArrive, RequestFails, coreVars
  <2>2. News(c)'
    BY <1>1, <1>7, GreetKeeps, BroadcastKeeps, ClosesKeeps, MessageKeeps, RefreshKeeps
  <2> QED
    BY <1>1, <1>2, <2>1, <2>2 DEF NewsInv
<1>8. CASE NamespaceNext
  BY <1>4, <1>5, <1>6, <1>7, <1>8 DEF NamespaceNext
<1> QED
  BY <1>3, <1>8

LEMMA NewsCatchesUp == NewsInv => PageCatchesUp
<1> SUFFICES ASSUME NewsInv, PageAtRest, NEW t \in RowNames, page.at[t] = page.newest[t]
             PROVE  PageHas(t, rows[t])
  BY DEF PageCatchesUp
<1> PICK c \in Changed : News(c)
  BY DEF NewsInv
<1>1. ~Comes(c[t], t)
  <2> PICK x : x = c[t]
    OBVIOUS
  <2>1. ~Carries(scheduled, x, t) /\ ~Carries(wire[page.socket], x, t)
    BY NoNews DEF PageAtRest
  <2>2. page.socket \in connections /\ page.socket # None
    BY NamespaceAssumption DEF PageAtRest, NewsInv, NamespaceTypeOK
  <2>3. None # Unread
    BY NamespaceAssumption
  <2> QED
    BY <2>1, <2>2, <2>3 DEF PageAtRest, Comes
<1>2. page.newest[t] >= c[t]
  BY <1>1 DEF News, NewsComes
<1> QED
  BY <1>2 DEF News, OnPage

\* Whatever threads load and update the namespace, and however announcements, joins,
\* broken sockets, refreshes and queries fall together: when nothing is on its way to the page
\* any more, it has each row as the namespace has it, or lacks it since a query left it out
\* and it has not changed, unless older news of it came after newer.
THEOREM PageFollows == NamespaceSpec => []PageCatchesUp
<1>1. NamespaceInit => NewsInv
  BY NewsInvInit
<1>2. NewsInv /\ [NamespaceNext]_namespaceVars => NewsInv'
  BY NewsInvStep
<1>3. NewsInv => PageCatchesUp
  BY NewsCatchesUp
<1> QED
  BY <1>1, <1>2, <1>3, PTL DEF NamespaceSpec
===============================================================================
