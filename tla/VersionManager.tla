--------------------------- MODULE VersionManager ---------------------------
(***************************************************************************)
(* The versions of one project: auto_commit, the deployment tag and        *)
(* rollback_to_version of VersionManager, called by any number of API      *)
(* threads that share a workspace, the snapshot directories, a Git         *)
(* repository with its index, and the table version_records.  Nothing      *)
(* takes a lock, and every store is changed in a step of its own.          *)
(*                                                                         *)
(* Two kinds of artifact stand for the five: the control logic, a tree     *)
(* that is replaced whole, and a report (runtime state, simulation result) *)
(* that is read from its preferred file or else the plain one, and         *)
(* restored into the plain one.  The plant graph and the IO mapping are    *)
(* reports that have only the plain file.                                  *)
(***************************************************************************)
EXTENDS Naturals, PythonNone

CONSTANTS
    Requests,   \* API threads
    Contents,   \* what an artifact may hold
    MaxVersion, \* bound: the versions v1, v2, ... that are looked at
    Edited      \* the artifacts other services write

Versions == 1 .. MaxVersion

ASSUME BoundAssumption == MaxVersion \in Nat
ASSUME EditedAssumption == Edited \subseteq {"logic", "preferred", "plain"}

VARIABLES
    work,   \* the artifacts in the workspace
    snap,   \* snapshots/<tag>: the directory of a version
    repo,   \* repo/snapshots/<tag>: its copy in the work tree of the repository
    index,  \* the index of the repository, named by its tree
    head,   \* the commit HEAD names, named by its tree
    tag,    \* the Git tag of a version: a commit
    deploy, \* the Git tag deployed_<tag>: a commit
    row,    \* version_records
    shared, \* two requests have taken the tag (history)
    req     \* every API thread

vars == <<work, snap, repo, index, head, tag, deploy, row, shared, req>>

Maybe(S) == {None} \cup S

\* A control logic directory with no files is "empty", one that only says that there
\* was no logic is "status".
Logic == Contents \cup {"status"}
Work == [logic: Maybe(Logic), preferred: Maybe(Contents), plain: Maybe(Contents)]
Snapshot == [logic: Maybe(Logic \cup {"empty"}), report: Maybe(Contents)]
Tree == [Versions -> Maybe(Snapshot)]
Record == [hash: Tree, deployed: BOOLEAN]

ASSUME NoneAssumption ==
    /\ None \notin Logic \cup {"empty"} /\ None \notin Snapshot /\ None \notin Tree
    /\ None \notin Record
ASSUME MarkAssumption == "empty" \notin Logic

NoVersions == [v \in Versions |-> None]
NewSnapshot == [logic |-> "empty", report |-> None]

Pc == {"idle", "files", "drop", "put", "history", "allocate", "mkdir", "logic", "tree",
       "report", "copy", "again", "add", "commit", "head", "tag", "insert", "mark",
       "update"}
RequestType ==
    [pc: Pc, op: {"none", "commit", "rollback"},
     from: Maybe(Versions),    \* the version to restore
     seen: SUBSET Versions,    \* the history it read
     version: Maybe(Versions), \* the tag it took
     tree: Tree,               \* its commit, then the one it found at HEAD
     restored: Maybe(Versions)] \* the version restored, if nobody was or came to be at
                               \* work meanwhile (history)
Idle == [pc |-> "idle", op |-> "none", from |-> None, seen |-> {}, version |-> None,
         tree |-> NoVersions, restored |-> None]

TypeOK ==
    /\ work \in Work
    /\ snap \in Tree /\ repo \in Tree /\ index \in Tree /\ head \in Tree
    /\ tag \in [Versions -> Maybe(Tree)] /\ deploy \in [Versions -> Maybe(Tree)]
    /\ row \in [Versions -> Maybe(Record)]
    /\ shared \in [Versions -> BOOLEAN]
    /\ req \in [Requests -> RequestType]

Init ==
    /\ work \in [logic: Maybe(Contents), preferred: {None}, plain: {None}]
    /\ snap = NoVersions /\ repo = NoVersions /\ index = NoVersions /\ head = NoVersions
    /\ tag = NoVersions /\ deploy = NoVersions /\ row = NoVersions
    /\ shared = [v \in Versions |-> FALSE]
    /\ req = [r \in Requests |-> Idle]

-----------------------------------------------------------------------------
At(r, pc) == req[r].pc = pc
Goto(r, pc) == req' = [req EXCEPT ![r].pc = pc]
Finish(r) == req' = [req EXCEPT ![r] = Idle]

\* Bound: requests come as long as there is a version left to make.
Room == \E v \in Versions : snap[v] = None

\* A request comes, and disturbs whoever is at work.
Begin(r, q) ==
    /\ At(r, "idle") /\ Room
    /\ req' = [s \in Requests |-> IF s = r THEN q ELSE [req[s] EXCEPT !.restored = None]]
    /\ UNCHANGED <<work, snap, repo, index, head, tag, deploy, row, shared>>

\* Any other service writes an artifact.
Edit ==
    /\ \E a \in Edited, k \in Maybe(Contents) : work' = [work EXCEPT ![a] = k]
    /\ req' = [s \in Requests |-> [req[s] EXCEPT !.restored = None]]
    /\ UNCHANGED <<snap, repo, index, head, tag, deploy, row, shared>>

\* A step raises, or the backend dies: what was done stays.
Stop(r) ==
    /\ ~At(r, "idle")
    /\ Finish(r)
    /\ UNCHANGED <<work, snap, repo, index, head, tag, deploy, row, shared>>

-----------------------------------------------------------------------------
(***************************************************************************)
(* rollback_to_version, up to the commit it ends with.                     *)
(***************************************************************************)
\* Any directory of that name will do, recorded or not, finished or not.
Rollback(r, v) ==
    /\ snap[v] # None
    /\ Begin(r, [Idle EXCEPT !.pc = "files", !.op = "rollback", !.from = v,
                             !.restored = IF \A q \in Requests : At(q, "idle")
                                          THEN v ELSE None])

\* Mutant: a file that is there is left alone.
RestoreMissing(r) ==
    LET old == snap[req[r].from].report IN
    /\ At(r, "files")
    /\ work' = IF work.plain # None THEN work ELSE [work EXCEPT !.plain = old]
    /\ Goto(r, "drop")
    /\ UNCHANGED <<snap, repo, index, head, tag, deploy, row, shared>>

\* What the version does not have stays as it is.
RestoreFiles(r) ==
    LET old == snap[req[r].from].report IN
    /\ At(r, "files")
    /\ work' = IF old = None THEN work ELSE [work EXCEPT !.plain = old]
    /\ Goto(r, "drop")
    /\ UNCHANGED <<snap, repo, index, head, tag, deploy, row, shared>>

DropLogic(r) ==
    /\ At(r, "drop")
    /\ IF snap[req[r].from].logic = None
       THEN UNCHANGED work /\ Goto(r, "history")
       ELSE work' = [work EXCEPT !.logic = None] /\ Goto(r, "put")
    /\ UNCHANGED <<snap, repo, index, head, tag, deploy, row, shared>>

\* copytree raises if somebody else has brought logic, or taken the version's away.
RestoreLogic(r) ==
    LET old == snap[req[r].from].logic IN
    /\ At(r, "put")
    /\ work.logic = None /\ old # None
    /\ work' = [work EXCEPT !.logic = IF old = "empty" THEN None ELSE old]
    /\ Goto(r, "history")
    /\ UNCHANGED <<snap, repo, index, head, tag, deploy, row, shared>>

-----------------------------------------------------------------------------
(***************************************************************************)
(* create_snapshot: the tag, the directory, the artifacts, the copy.       *)
(***************************************************************************)
Commit(r) == Begin(r, [Idle EXCEPT !.pc = "history", !.op = "commit"])

ReadHistory(r) ==
    /\ At(r, "history")
    /\ req' = [req EXCEPT ![r].pc = "allocate", ![r].from = None,
                          ![r].seen = {v \in Versions : row[v] # None}]
    /\ UNCHANGED <<work, snap, repo, index, head, tag, deploy, row, shared>>

\* Mutant: the directories are not looked at.
NextFromHistory(r, v) ==
    /\ v \notin req[r].seen
    /\ \A w \in Versions : w \in req[r].seen <=> w < v

\* The first version after those of the history and those that have a directory.
NextVersionTag(r, v) ==
    /\ v \notin req[r].seen /\ snap[v] = None
    /\ \A w \in Versions : w \in req[r].seen \/ snap[w] # None => w < v
    /\ \A w \in Versions : w < v =>
         \E u \in Versions : (u \in req[r].seen \/ snap[u] # None) /\ w <= u

Allocate(r) ==
    /\ At(r, "allocate")
    /\ \E v \in Versions :
         /\ NextVersionTag(r, v)
         /\ req' = [req EXCEPT ![r].pc = "mkdir", ![r].version = v,
                                ![r].seen = {}]
         /\ shared' = [shared EXCEPT ![v] =
                         @ \/ \E q \in Requests : At(q, "mkdir") /\ req[q].version = v]
    /\ UNCHANGED <<work, snap, repo, index, head, tag, deploy, row>>

\* mkdir(exist_ok): nothing tells a request that somebody else has made the directory.
MakeDirectories(r) ==
    LET v == req[r].version IN
    /\ At(r, "mkdir")
    /\ snap' = IF snap[v] = None THEN [snap EXCEPT ![v] = NewSnapshot]
               ELSE IF snap[v].logic = None THEN [snap EXCEPT ![v].logic = "empty"]
               ELSE snap
    /\ Goto(r, "logic")
    /\ UNCHANGED <<work, repo, index, head, tag, deploy, row, shared>>

\* Without logic a status file is put there; otherwise the directory goes ...
DropSnapshotLogic(r) ==
    LET v == req[r].version IN
    /\ At(r, "logic")
    /\ IF work.logic = None
       THEN /\ snap' = [snap EXCEPT ![v].logic = IF @ \in Contents THEN @ ELSE "status"]
            /\ Goto(r, "report")
       ELSE snap' = [snap EXCEPT ![v].logic = None] /\ Goto(r, "tree")
    /\ UNCHANGED <<work, repo, index, head, tag, deploy, row, shared>>

\* ... and comes back as a copy; copytree raises if somebody else has made it again.
CopyLogic(r) ==
    LET v == req[r].version IN
    /\ At(r, "tree")
    /\ snap[v].logic = None
    /\ snap' = [snap EXCEPT ![v].logic = IF work.logic = None THEN "empty" ELSE work.logic]
    /\ Goto(r, "report")
    /\ UNCHANGED <<work, repo, index, head, tag, deploy, row, shared>>

CopyReport(r) ==
    LET new == IF work.preferred # None THEN work.preferred ELSE work.plain IN
    /\ At(r, "report")
    /\ snap' = IF new = None THEN snap ELSE [snap EXCEPT ![req[r].version].report = new]
    /\ Goto(r, "copy")
    /\ UNCHANGED <<work, repo, index, head, tag, deploy, row, shared>>

\* An older copy goes first; copytree raises if somebody else has made it again.
ClearCopy(r) ==
    LET v == req[r].version IN
    /\ At(r, "copy")
    /\ repo[v] # None
    /\ repo' = [repo EXCEPT ![v] = None]
    /\ Goto(r, "again")
    /\ UNCHANGED <<work, snap, index, head, tag, deploy, row, shared>>

CopyToRepo(r) ==
    LET v == req[r].version IN
    /\ At(r, "copy") \/ At(r, "again")
    /\ repo[v] = None
    /\ repo' = [repo EXCEPT ![v] = snap[v]]
    /\ Goto(r, "add")
    /\ UNCHANGED <<work, snap, index, head, tag, deploy, row, shared>>

-----------------------------------------------------------------------------
(***************************************************************************)
(* auto_commit: the rest of it, and the deployment tag.                    *)
(***************************************************************************)
\* Mutant: only what the repository knows is added, as by git add -u.
GitAddKnown(r) ==
    /\ At(r, "add")
    /\ index' = [v \in Versions |-> IF index[v] = None THEN None ELSE repo[v]]
    /\ Goto(r, "commit")
    /\ UNCHANGED <<work, snap, repo, head, tag, deploy, row, shared>>

GitAdd(r) ==
    /\ At(r, "add")
    /\ index' = repo
    /\ Goto(r, "commit")
    /\ UNCHANGED <<work, snap, repo, head, tag, deploy, row, shared>>

\* The index is one for all: a commit holds whatever anybody has added.
WriteTree(r) ==
    /\ At(r, "commit")
    /\ req' = [req EXCEPT ![r].pc = "head", ![r].tree = index]
    /\ UNCHANGED <<work, snap, repo, index, head, tag, deploy, row, shared>>

\* Mutant: index.commit(..., head=False).
LeaveHead(r) ==
    /\ At(r, "head")
    /\ Goto(r, "tag")
    /\ UNCHANGED <<work, snap, repo, index, head, tag, deploy, row, shared>>

\* HEAD moves to a tree that was written before, whatever was committed since.
SetHead(r) ==
    /\ At(r, "head")
    /\ head' = req[r].tree
    /\ Goto(r, "tag")
    /\ UNCHANGED <<work, snap, repo, index, tag, deploy, row, shared>>

\* A tag that exists stays; the hash recorded is the one HEAD has by now.
CreateTag(r) ==
    LET v == req[r].version IN
    /\ At(r, "tag")
    /\ tag' = [tag EXCEPT ![v] = IF @ = None THEN req[r].tree ELSE @]
    /\ req' = [req EXCEPT ![r].pc = "insert", ![r].tree = head]
    /\ UNCHANGED <<work, snap, repo, index, head, deploy, row, shared>>

\* UNIQUE (project_id, version_tag): a second INSERT raises.  A commit that was triggered
\* by a deployment that succeeded goes on with the deployment tag.
WriteMetadata(r) ==
    LET v == req[r].version IN
    /\ At(r, "insert")
    /\ row[v] = None
    /\ row' = [row EXCEPT ![v] = [hash |-> req[r].tree, deployed |-> FALSE]]
    /\ \/ Finish(r)
       \/ req[r].op = "commit" /\ req' = [req EXCEPT ![r] = [Idle EXCEPT !.pc = "mark",
                                                                      !.version = v]]
    /\ UNCHANGED <<work, snap, repo, index, head, tag, deploy, shared>>

CreateDeploymentTag(r) ==
    LET v == req[r].version IN
    /\ At(r, "mark")
    /\ deploy' = [deploy EXCEPT ![v] = IF @ = None THEN head ELSE @]
    /\ Goto(r, "update")
    /\ UNCHANGED <<work, snap, repo, index, head, tag, row, shared>>

MarkDeployed(r) ==
    /\ At(r, "update")
    /\ row' = [row EXCEPT ![req[r].version].deployed = TRUE]
    /\ Finish(r)
    /\ UNCHANGED <<work, snap, repo, index, head, tag, deploy, shared>>

Serve(r) ==
    \/ RestoreFiles(r) \/ DropLogic(r) \/ RestoreLogic(r)
    \/ ReadHistory(r) \/ Allocate(r) \/ MakeDirectories(r) \/ DropSnapshotLogic(r)
    \/ CopyLogic(r) \/ CopyReport(r) \/ ClearCopy(r) \/ CopyToRepo(r)
    \/ GitAdd(r) \/ WriteTree(r) \/ SetHead(r) \/ CreateTag(r) \/ WriteMetadata(r)
    \/ CreateDeploymentTag(r) \/ MarkDeployed(r)

Next ==
    \/ \E r \in Requests :
        \/ Commit(r)
        \/ \E v \in Versions : Rollback(r, v)
        \/ Serve(r) \/ Stop(r)
    \/ Edit

Spec == Init /\ [][Next]_vars

-----------------------------------------------------------------------------
\* Whatever interleaves, fails or dies: a version that is recorded, unless two requests
\* took its tag, is whole in its directory, in the copy in the repository, and in the
\* commit its Git tag names.
RecordsAreWhole ==
    \A v \in Versions : row[v] # None /\ ~shared[v] =>
        /\ snap[v] # None /\ snap[v].logic # None
        /\ repo[v] = snap[v]
        /\ tag[v] # None /\ tag[v][v] = snap[v]

\* With one request at a time, whatever failed before: the commit_hash of a record and the
\* tag of its deployment name commits that hold the version.  Of two requests at once one
\* may move HEAD to a tree it wrote before the other added its files, and the other
\* records that.
CommitsHoldTheVersion ==
    \A v \in Versions : row[v] # None =>
        /\ row[v].hash[v] = snap[v]
        /\ row[v].deployed => deploy[v] # None /\ deploy[v][v] = snap[v]

\* Nobody ever writes again into a version that is recorded, unless two requests took
\* its tag: tags are not given twice, although they are chosen from the table, which
\* knows nothing of the versions still being made.
RecordsAreFinal ==
    [][\A v \in Versions : row[v] # None /\ ~shared[v] =>
          /\ snap'[v] = snap[v] /\ repo'[v] = repo[v]
          /\ row'[v] # None /\ row'[v].hash = row[v].hash]_vars

\* A rollback nobody disturbs records a version with the logic of the one restored, and
\* with its report if it had one and no preferred file hides it.
RollbackBringsBack ==
    [][\A r \in Requests :
         At(r, "insert") /\ req[r].restored # None /\ row' # row =>
            LET old == snap[req[r].restored]
                new == snap[req[r].version] IN
            /\ old.logic \in Logic => new.logic = old.logic
            /\ old.report # None /\ work.preferred = None => new.report = old.report]_vars
=============================================================================
