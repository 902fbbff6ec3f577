------------------------ MODULE VersionManagerProofs ------------------------
(***************************************************************************)
(* Proofs about VersionManager, for any number of requests, versions and   *)
(* artifacts: types; a recorded version whose tag only one request took is *)
(* whole and final; with one request at a time the hashes recorded and the *)
(* deployment tags name commits that hold the version; and a rollback that *)
(* nobody disturbs brings back what it restores.                           *)
(***************************************************************************)
EXTENDS VersionManager, TLAPS

Restoring == {"files", "drop", "put"}
Copying == {"report", "copy", "again"}
Committing == {"add", "commit", "head", "tag"}
Filling == {"logic", "tree", "insert"} \cup Copying \cup Committing
Making == {"mkdir"} \cup Filling
Done == {"mark", "update"}

StoresOK ==
    /\ work \in Work
    /\ snap \in Tree /\ repo \in Tree /\ index \in Tree /\ head \in Tree
    /\ tag \in [Versions -> Maybe(Tree)] /\ deploy \in [Versions -> Maybe(Tree)]
    /\ row \in [Versions -> Maybe(Record)]
    /\ shared \in [Versions -> BOOLEAN]

\* A request that restores has a version to restore, one past its allocation has a tag,
\* one past mkdir a directory, one past the INSERT a record.
RequestOK(q, dirs, rows) ==
    /\ q.pc \in Restoring => q.from \in Versions /\ dirs[q.from] # None
    /\ q.pc \in Making \cup Done => q.version \in Versions
    /\ q.pc \in Filling \cup Done => dirs[q.version] # None
    /\ q.pc \in Done => rows[q.version] # None

\* Without a directory there is nothing of a version.
NothingBefore == \A v \in Versions : snap[v] = None => row[v] = None /\ tag[v] = None

TypeInv ==
    /\ StoresOK /\ req \in [Requests -> RequestType]
    /\ \A r \in Requests : RequestOK(req[r], snap, row)
    /\ NothingBefore

-----------------------------------------------------------------------------
(***************************************************************************)
(* The data.                                                               *)
(***************************************************************************)
LEMMA MaybeFacts ==
    ASSUME NEW S
    PROVE  None \in Maybe(S) /\ (\A x \in S : x \in Maybe(S))
           /\ (\A x \in Maybe(S) : x # None => x \in S)
  BY DEF Maybe

LEMMA Blank == NoVersions \in Tree /\ Idle \in RequestType /\ Idle.pc = "idle"
<1>1. NoVersions \in Tree
  BY MaybeFacts DEF NoVersions, Tree
<1>2. Idle.pc = "idle"
  BY DEF Idle
<1>3. QED
  BY <1>1, <1>2, MaybeFacts DEF Idle, RequestType, Pc

LEMMA RequestFields ==
    ASSUME NEW q \in RequestType
    PROVE  /\ q.pc \in Pc /\ q.from \in Maybe(Versions) /\ q.seen \in SUBSET Versions
           /\ q.version \in Maybe(Versions) /\ q.tree \in Tree
           /\ [q EXCEPT !.restored = None] \in RequestType
           /\ [q EXCEPT !.restored = None].pc = q.pc
           /\ [q EXCEPT !.restored = None].from = q.from
           /\ [q EXCEPT !.restored = None].version = q.version
           /\ [q EXCEPT !.restored = None].tree = q.tree
  BY MaybeFacts DEF RequestType

\* A directory after a part of it was written.
LEMMA SnapshotFields ==
    ASSUME NEW s \in Snapshot
    PROVE  /\ s.logic \in Maybe(Logic \cup {"empty"}) /\ s.report \in Maybe(Contents)
           /\ \A l \in Maybe(Logic \cup {"empty"}) :
                [s EXCEPT !.logic = l] \in Snapshot /\ [s EXCEPT !.logic = l].logic = l
           /\ \A k \in Maybe(Contents) :
                [s EXCEPT !.report = k] \in Snapshot
                /\ [s EXCEPT !.report = k].logic = s.logic
  BY DEF Snapshot

LEMMA NewSnapshotOK == NewSnapshot \in Snapshot /\ NewSnapshot # None
<1>1. NewSnapshot \in Snapshot
  BY MaybeFacts DEF NewSnapshot, Snapshot
<1>2. QED
  BY <1>1, NoneAssumption

LEMMA WorkFields ==
    ASSUME NEW w \in Work
    PROVE  /\ w.logic \in Maybe(Logic) /\ w.preferred \in Maybe(Contents)
           /\ w.plain \in Maybe(Contents)
           /\ \A l \in Maybe(Logic) : [w EXCEPT !.logic = l] \in Work
           /\ \A k \in Maybe(Contents) : [w EXCEPT !.plain = k] \in Work
           /\ \A k \in Maybe(Contents) : [w EXCEPT !.preferred = k] \in Work
  BY DEF Work

\* A version of a tree.
LEMMA TreeFields ==
    ASSUME NEW t \in Tree
    PROVE  /\ t # None
           /\ \A v \in Versions : t[v] # None => t[v] \in Snapshot
  BY MaybeFacts, NoneAssumption DEF Tree

\* A request that goes on, as it was but for its place.
LEMMA GotoFacts ==
    ASSUME req \in [Requests -> RequestType], NEW r \in Requests, NEW pc \in Pc, Goto(r, pc)
    PROVE  \E q \in RequestType :
             /\ req' = [req EXCEPT ![r] = q]
             /\ q.pc = pc /\ q.from = req[r].from /\ q.version = req[r].version
             /\ q.tree = req[r].tree
<1> DEFINE q == [req[r] EXCEPT !.pc = pc]
<1>1. q \in RequestType
  BY DEF RequestType
<1>2. req' = [req EXCEPT ![r] = q]
  BY DEF Goto
<1>3. /\ q.pc = pc /\ q.from = req[r].from /\ q.version = req[r].version
      /\ q.tree = req[r].tree
  BY DEF RequestType
<1>4. QED
  BY <1>1, <1>2, <1>3

LEMMA InitType == Init => TypeInv
<1> SUFFICES ASSUME Init PROVE TypeInv
  OBVIOUS
<1>1. work \in Work
  BY MaybeFacts DEF Init, Work, Maybe, Logic
<1>2. /\ snap \in Tree /\ repo \in Tree /\ index \in Tree /\ head \in Tree
      /\ tag \in [Versions -> Maybe(Tree)] /\ deploy \in [Versions -> Maybe(Tree)]
      /\ row \in [Versions -> Maybe(Record)] /\ shared \in [Versions -> BOOLEAN]
  BY Blank, MaybeFacts DEF Init, NoVersions
<1>3. req \in [Requests -> RequestType] /\ \A r \in Requests : req[r].pc = "idle"
  BY Blank DEF Init
<1>4. \A r \in Requests : RequestOK(req[r], snap, row)
  BY <1>3 DEF RequestOK, Restoring, Making, Filling, Done, Copying, Committing
<1>5. NothingBefore
  BY DEF NothingBefore, Init, NoVersions
<1>6. QED
  BY <1>1, <1>2, <1>3, <1>4, <1>5 DEF TypeInv, StoresOK

\* What a step of one request has to keep: directories and records stay.
LEMMA StepType ==
    ASSUME TypeInv, NEW r \in Requests, NEW q \in RequestType,
           req' = [req EXCEPT ![r] = q], StoresOK', NothingBefore',
           \A v \in Versions : snap[v] # None => snap'[v] # None,
           \A v \in Versions : row[v] # None => row'[v] # None,
           RequestOK(q, snap', row')
    PROVE  TypeInv'
<1>1. req' \in [Requests -> RequestType]
  BY DEF TypeInv
<1>2. ASSUME NEW s \in Requests PROVE RequestOK(req'[s], snap', row')
  <2>1. CASE s = r
    BY <2>1 DEF TypeInv
  <2>2. CASE s # r
    <3>1. req'[s] = req[s] /\ RequestOK(req[s], snap, row)
      BY <2>2 DEF TypeInv
    <3>2. QED
      BY <3>1 DEF RequestOK, Making
  <2>3. QED
    BY <2>1, <2>2
<1>3. QED
  BY <1>1, <1>2 DEF TypeInv
-----------------------------------------------------------------------------
(***************************************************************************)
(* Type correctness, one lemma per group of actions.                       *)
(***************************************************************************)
\* The stores as they were.
LEMMA SameStores ==
    ASSUME TypeInv, UNCHANGED <<snap, repo, index, head, tag, deploy, row, shared>>,
           work' \in Work
    PROVE  StoresOK' /\ NothingBefore'
  BY DEF TypeInv, StoresOK, NothingBefore

LEMMA BeginType ==
    ASSUME TypeInv, NEW r \in Requests, NEW q \in RequestType, Begin(r, q),
           RequestOK(q, snap, row)
    PROVE  TypeInv'
<1>1. StoresOK' /\ NothingBefore'
  BY SameStores DEF Begin, TypeInv, StoresOK
<1>2. req' \in [Requests -> RequestType]
  BY RequestFields DEF TypeInv, Begin
<1>3. ASSUME NEW s \in Requests PROVE RequestOK(req'[s], snap', row')
  <2>1. req[s] \in RequestType /\ RequestOK(req[s], snap, row)
    BY DEF TypeInv
  <2>2. snap' = snap /\ row' = row
    BY DEF Begin
  <2>3. CASE s = r
    BY <2>2, <2>3 DEF Begin
  <2>4. CASE s # r
    <3>1. req'[s] = [req[s] EXCEPT !.restored = None]
      BY <2>4 DEF Begin
    <3>2. QED
      BY <2>1, <2>2, <3>1, RequestFields DEF RequestOK
  <2>5. QED
    BY <2>3, <2>4
<1>4. QED
  BY <1>1, <1>2, <1>3 DEF TypeInv

LEMMA EditType == TypeInv /\ Edit => TypeInv'
<1> SUFFICES ASSUME TypeInv, Edit PROVE TypeInv'
  OBVIOUS
<1>1. PICK a \in Edited, k \in Maybe(Contents) : work' = [work EXCEPT ![a] = k]
  BY DEF Edit
<1>2. work' \in Work
  <2>1. k \in Maybe(Logic)
    BY <1>1 DEF Maybe, Logic
  <2>2. a \in {"logic", "preferred", "plain"}
    BY EditedAssumption
  <2>3. QED
    BY <1>1, <2>1, <2>2 DEF TypeInv, StoresOK, Work
<1>3. StoresOK' /\ NothingBefore'
  BY <1>2, SameStores DEF Edit
<1>4. req' \in [Requests -> RequestType]
  BY RequestFields DEF TypeInv, Edit
<1>5. ASSUME NEW s \in Requests PROVE RequestOK(req'[s], snap', row')
  <2>1. req[s] \in RequestType /\ RequestOK(req[s], snap, row)
    BY DEF TypeInv
  <2>2. snap' = snap /\ row' = row /\ req'[s] = [req[s] EXCEPT !.restored = None]
    BY DEF Edit
  <2>3. QED
    BY <2>1, <2>2, RequestFields DEF RequestOK
<1>6. QED
  BY <1>3, <1>4, <1>5 DEF TypeInv

LEMMA StopType == ASSUME TypeInv, NEW r \in Requests, Stop(r) PROVE TypeInv'
<1>1. StoresOK' /\ NothingBefore'
  BY SameStores DEF Stop, TypeInv, StoresOK
<1>2. RequestOK(Idle, snap', row')
  BY Blank DEF RequestOK, Restoring, Making, Filling, Done, Copying, Committing
<1>3. QED
  BY <1>1, <1>2, Blank, StepType DEF Stop, Finish

\* A commit or a rollback begins.
LEMMA BeginningsType ==
    ASSUME TypeInv, NEW r \in Requests, Commit(r) \/ \E v \in Versions : Rollback(r, v)
    PROVE  TypeInv'
<1>1. CASE Commit(r)
  <2> DEFINE q == [Idle EXCEPT !.pc = "history", !.op = "commit"]
  <2>1. q \in RequestType /\ q.pc = "history"
    BY MaybeFacts, Blank DEF RequestType, Idle, Pc
  <2>2. RequestOK(q, snap, row)
    BY <2>1 DEF RequestOK, Restoring, Making, Filling, Done, Copying, Committing
  <2>3. QED
    BY <1>1, <2>1, <2>2, BeginType DEF Commit
<1>2. ASSUME NEW v \in Versions, Rollback(r, v) PROVE TypeInv'
  <2> DEFINE w == IF \A s \in Requests : At(s, "idle") THEN v ELSE None
             q == [Idle EXCEPT !.pc = "files", !.op = "rollback", !.from = v,
                               !.restored = w]
  <2>1. w \in Maybe(Versions)
    BY MaybeFacts
  <2>2. q \in RequestType /\ q.pc = "files" /\ q.from = v
    <3> HIDE DEF w
    <3>1. QED
      BY <2>1, MaybeFacts, Blank DEF RequestType, Idle, Pc
  <2>3. RequestOK(q, snap, row)
    <3> HIDE DEF q
    <3>1. QED
      BY <1>2, <2>2 DEF RequestOK, Restoring, Making, Filling, Done, Copying, Committing,
                        Rollback
  <2>4. QED
    BY <1>2, <2>2, <2>3, BeginType DEF Rollback
<1>3. QED
  BY <1>1, <1>2
\* What a request is known by at its place.
LEMMA PlaceFacts ==
    ASSUME TypeInv, NEW r \in Requests
    PROVE  /\ req[r] \in RequestType
           /\ req[r].pc \in Restoring =>
                req[r].from \in Versions /\ snap[req[r].from] \in Snapshot
           /\ req[r].pc \in Making \cup Done => req[r].version \in Versions
           /\ req[r].pc \in Filling \cup Done => snap[req[r].version] \in Snapshot
           /\ req[r].pc \in Done => row[req[r].version] \in Record
<1>1. req[r] \in RequestType /\ RequestOK(req[r], snap, row)
  BY DEF TypeInv
<1>2. \A v \in Versions : (snap[v] # None => snap[v] \in Snapshot)
                          /\ (row[v] # None => row[v] \in Record)
  BY TreeFields, MaybeFacts DEF TypeInv, StoresOK
<1>3. QED
  BY <1>1, <1>2 DEF RequestOK, Making

\* A request that goes on after a step that changed the workspace only.
LEMMA WorkStepType ==
    ASSUME TypeInv, NEW r \in Requests, NEW pc \in Pc, Goto(r, pc),
           work' \in Work,
           UNCHANGED <<snap, repo, index, head, tag, deploy, row, shared>>,
           pc \in Restoring => req[r].pc \in Restoring,
           pc \in Making \cup Done => req[r].pc \in Making \cup Done,
           pc \in Filling \cup Done => req[r].pc \in Filling \cup Done,
           pc \in Done => req[r].pc \in Done
    PROVE  TypeInv'
<1>1. StoresOK' /\ NothingBefore'
  BY SameStores
<1>2. PICK q \in RequestType :
        /\ req' = [req EXCEPT ![r] = q]
        /\ q.pc = pc /\ q.from = req[r].from /\ q.version = req[r].version
  BY GotoFacts DEF TypeInv
<1>3. RequestOK(q, snap', row')
  BY <1>2 DEF RequestOK, TypeInv
<1>4. QED
  BY <1>1, <1>2, <1>3, StepType

LEMMA RestoreType ==
    ASSUME TypeInv, NEW r \in Requests,
           RestoreFiles(r) \/ DropLogic(r) \/ RestoreLogic(r)
    PROVE  TypeInv'
<1> DEFINE old == snap[req[r].from]
<1>1. req[r].pc \in Restoring /\ old \in Snapshot
  BY PlaceFacts DEF RestoreFiles, DropLogic, RestoreLogic, At, Restoring
<1>2. work \in Work /\ old.report \in Maybe(Contents)
      /\ old.logic \in Maybe(Logic \cup {"empty"})
  BY <1>1, SnapshotFields DEF TypeInv, StoresOK
<1>3. PICK pc \in {"drop", "put", "history"} : Goto(r, pc)
  BY DEF RestoreFiles, DropLogic, RestoreLogic
<1>4. pc \in Pc /\ pc \notin Making \cup Done /\ pc \notin Filling \cup Done /\ pc \notin Done
  BY <1>3 DEF Pc, Making, Filling, Done, Copying, Committing
<1>5. work' \in Work
  <2>1. CASE RestoreFiles(r)
    BY <1>2, <2>1, WorkFields DEF RestoreFiles
  <2>2. CASE DropLogic(r)
    BY <1>2, <2>2, WorkFields, MaybeFacts DEF DropLogic
  <2>3. CASE RestoreLogic(r)
    <3>1. (IF old.logic = "empty" THEN None ELSE old.logic) \in Maybe(Logic)
      BY <1>2 DEF Maybe
    <3>2. QED
      BY <1>2, <2>3, <3>1, WorkFields DEF RestoreLogic
  <2>4. QED
    BY <2>1, <2>2, <2>3
<1>6. UNCHANGED <<snap, repo, index, head, tag, deploy, row, shared>>
  BY DEF RestoreFiles, DropLogic, RestoreLogic
<1>7. QED
  BY <1>1, <1>3, <1>4, <1>5, <1>6, WorkStepType

LEMMA ReadHistoryType == ASSUME TypeInv, NEW r \in Requests, ReadHistory(r) PROVE TypeInv'
<1> DEFINE seen == {v \in Versions : row[v] # None}
           q == [req[r] EXCEPT !.pc = "allocate", !.from = None, !.seen = seen]
<1>1. StoresOK' /\ NothingBefore'
  BY SameStores DEF ReadHistory, TypeInv, StoresOK
<1>2. q \in RequestType /\ q.pc = "allocate"
  <2>1. req[r] \in RequestType /\ None \in Maybe(Versions) /\ seen \in SUBSET Versions
    BY PlaceFacts, MaybeFacts
  <2> HIDE DEF seen
  <2>2. QED
    BY <2>1 DEF RequestType, Pc
<1>3. req' = [req EXCEPT ![r] = q]
  BY DEF ReadHistory
<1>4. RequestOK(q, snap', row')
  <2> HIDE DEF q
  <2>1. QED
    BY <1>2 DEF RequestOK, Restoring, Making, Filling, Done, Copying, Committing
<1>5. UNCHANGED <<snap, row>>
  BY DEF ReadHistory
<1> HIDE DEF q
<1>6. QED
  BY <1>1, <1>2, <1>3, <1>4, <1>5, StepType

LEMMA AllocateType == ASSUME TypeInv, NEW r \in Requests, Allocate(r) PROVE TypeInv'
<1>1. PICK v \in Versions :
        /\ NextVersionTag(r, v)
        /\ req' = [req EXCEPT ![r].pc = "mkdir", ![r].version = v, ![r].seen = {}]
        /\ shared' = [shared EXCEPT ![v] =
                        @ \/ \E q \in Requests : At(q, "mkdir") /\ req[q].version = v]
  BY DEF Allocate
<1> DEFINE q == [req[r] EXCEPT !.pc = "mkdir", !.version = v, !.seen = {}]
<1>2. q \in RequestType /\ q.pc = "mkdir" /\ q.version = v
  <2>1. req[r] \in RequestType /\ v \in Maybe(Versions)
    BY PlaceFacts, MaybeFacts
  <2>2. QED
    BY <2>1 DEF RequestType, Pc
<1>3. req' = [req EXCEPT ![r] = q]
  BY <1>1
<1>4. shared' \in [Versions -> BOOLEAN]
  <2> DEFINE taken == shared[v] \/ \E p \in Requests : At(p, "mkdir") /\ req[p].version = v
  <2>1. taken \in BOOLEAN /\ shared' = [shared EXCEPT ![v] = taken]
    BY <1>1
  <2> HIDE DEF taken
  <2>2. QED
    BY <2>1 DEF TypeInv, StoresOK
<1>5. StoresOK' /\ NothingBefore' /\ UNCHANGED <<snap, row>>
  BY <1>4 DEF TypeInv, StoresOK, NothingBefore, Allocate
<1> HIDE DEF q
<1>6. RequestOK(q, snap', row')
  BY <1>2 DEF RequestOK, Restoring, Making, Filling, Done, Copying, Committing
<1>7. QED
  BY <1>2, <1>3, <1>5, <1>6, StepType
\* A request that writes into the directory of its version and goes on.
LEMMA SnapStepType ==
    ASSUME TypeInv, NEW r \in Requests, NEW pc \in Pc, Goto(r, pc),
           NEW s \in Snapshot,
           req[r].pc \in Making, snap' = [snap EXCEPT ![req[r].version] = s],
           UNCHANGED <<work, repo, index, head, tag, deploy, row, shared>>,
           pc \in Filling \ {"insert"}
    PROVE  TypeInv'
<1> DEFINE v == req[r].version
<1>1. v \in Versions
  BY PlaceFacts
<1>2. s # None
  BY NoneAssumption
<1>3. snap' \in Tree /\ snap'[v] = s /\ \A u \in Versions : u # v => snap'[u] = snap[u]
  <2>1. snap \in Tree /\ s \in Maybe(Snapshot)
    BY MaybeFacts DEF TypeInv, StoresOK
  <2>2. QED
    BY <1>1, <2>1 DEF Tree
<1>4. StoresOK' /\ NothingBefore' /\ \A u \in Versions : snap[u] # None => snap'[u] # None
  BY <1>2, <1>3 DEF TypeInv, StoresOK, NothingBefore
<1>5. PICK q \in RequestType :
        req' = [req EXCEPT ![r] = q] /\ q.pc = pc /\ q.version = v
  BY GotoFacts DEF TypeInv
<1>6. RequestOK(q, snap', row')
  BY <1>1, <1>2, <1>3, <1>5
  DEF RequestOK, Restoring, Making, Filling, Done, Copying, Committing
<1>7. QED
  BY <1>4, <1>5, <1>6, StepType

LEMMA MakeDirectoriesType ==
    ASSUME TypeInv, NEW r \in Requests, MakeDirectories(r) PROVE TypeInv'
<1> DEFINE v == req[r].version
<1>1. /\ req[r].pc \in Making /\ v \in Versions
      /\ snap \in [Versions -> Maybe(Snapshot)]
  BY PlaceFacts DEF MakeDirectories, At, Making, TypeInv, StoresOK, Tree
<1>2. \E s \in Snapshot : snap' = [snap EXCEPT ![v] = s]
  <2>1. CASE snap[v] = None
    BY <2>1, NewSnapshotOK DEF MakeDirectories
  <2>2. CASE snap[v] # None /\ snap[v].logic = None
    <3> DEFINE s == [snap[v] EXCEPT !.logic = "empty"]
    <3>1. snap[v] \in Snapshot /\ "empty" \in Maybe(Logic \cup {"empty"})
      BY <1>1, <2>2, MaybeFacts
    <3>2. s \in Snapshot
      BY <3>1, SnapshotFields
    <3>3. snap' = [snap EXCEPT ![v] = s]
      BY <2>2 DEF MakeDirectories
    <3>4. QED
      BY <3>2, <3>3
  <2>3. CASE snap[v] # None /\ snap[v].logic # None
    <3>1. snap[v] \in Snapshot /\ snap' = [snap EXCEPT ![v] = snap[v]]
      BY <1>1, <2>3, MaybeFacts DEF MakeDirectories
    <3>2. QED
      BY <3>1
  <2>4. QED
    BY <2>1, <2>2, <2>3
<1>3. "logic" \in Pc /\ "logic" \in Filling \ {"insert"}
  BY DEF Pc, Filling
<1>4. QED
  BY <1>1, <1>2, <1>3, SnapStepType DEF MakeDirectories

LEMMA FillType ==
    ASSUME TypeInv, NEW r \in Requests,
           DropSnapshotLogic(r) \/ CopyLogic(r) \/ CopyReport(r)
    PROVE  TypeInv'
<1> DEFINE v == req[r].version
           new == IF work.preferred # None THEN work.preferred ELSE work.plain
<1>1. /\ req[r].pc \in Making /\ v \in Versions /\ snap[v] \in Snapshot
      /\ snap \in [Versions -> Maybe(Snapshot)] /\ work \in Work
  BY PlaceFacts
  DEF DropSnapshotLogic, CopyLogic, CopyReport, At, Making, Filling, Copying,
                    TypeInv, StoresOK, Tree
<1>2. /\ {None, "status", "empty"} \cup Contents \subseteq Maybe(Logic \cup {"empty"})
      /\ snap[v].logic \in Maybe(Logic \cup {"empty"})
      /\ work.logic \in Maybe(Logic \cup {"empty"})
  BY <1>1, SnapshotFields, WorkFields DEF Maybe, Logic
<1>3. new \in Maybe(Contents)
  BY <1>1, WorkFields
<1>4. PICK pc \in {"tree", "report", "copy"} : Goto(r, pc)
  BY DEF DropSnapshotLogic, CopyLogic, CopyReport
<1>5. pc \in Pc /\ pc \in Filling \ {"insert"}
  BY <1>4 DEF Pc, Filling, Copying
<1>6. UNCHANGED <<work, repo, index, head, tag, deploy, row, shared>>
  BY DEF DropSnapshotLogic, CopyLogic, CopyReport
<1>7. \E s \in Snapshot : snap' = [snap EXCEPT ![v] = s]
  <2>1. CASE DropSnapshotLogic(r)
    <3> DEFINE l == IF work.logic = None
                    THEN IF snap[v].logic \in Contents THEN snap[v].logic ELSE "status"
                    ELSE None
               s == [snap[v] EXCEPT !.logic = l]
    <3>1. l \in Maybe(Logic \cup {"empty"})
      BY <1>2
    <3>2. snap' = [snap EXCEPT ![v] = s]
      BY <2>1 DEF DropSnapshotLogic
    <3>3. s \in Snapshot
      BY <1>1, <3>1, SnapshotFields
    <3>4. QED
      BY <3>2, <3>3
  <2>2. CASE CopyLogic(r)
    <3> DEFINE l == IF work.logic = None THEN "empty" ELSE work.logic
               s == [snap[v] EXCEPT !.logic = l]
    <3>1. l \in Maybe(Logic \cup {"empty"})
      BY <1>2
    <3>2. snap' = [snap EXCEPT ![v] = s]
      BY <2>2 DEF CopyLogic
    <3>3. s \in Snapshot
      BY <1>1, <3>1, SnapshotFields
    <3>4. QED
      BY <3>2, <3>3
  <2>3. CASE CopyReport(r)
    <3> DEFINE s == [snap[v] EXCEPT !.report = new]
    <3>1. s \in Snapshot
      BY <1>1, <1>3, SnapshotFields
    <3>2. CASE new = None
      <4>1. snap' = [snap EXCEPT ![v] = snap[v]]
        BY <1>1, <2>3, <3>2 DEF CopyReport
      <4>2. QED
        BY <1>1, <4>1
    <3>3. CASE new # None
      <4>1. snap' = [snap EXCEPT ![v] = s]
        BY <2>3, <3>3 DEF CopyReport
      <4>2. QED
        BY <3>1, <4>1
    <3>4. QED
      BY <3>2, <3>3
  <2>4. QED
    BY <2>1, <2>2, <2>3
<1>8. QED
  BY <1>1, <1>4, <1>5, <1>6, <1>7, SnapStepType
\* A step into the repository: directories and records are left alone.
LEMMA RepoStepType ==
    ASSUME TypeInv, NEW r \in Requests, NEW q \in RequestType, req' = [req EXCEPT ![r] = q],
           q.version = req[r].version, req[r].pc \in Filling, q.pc \in Filling,
           repo' \in Tree, index' \in Tree, head' \in Tree,
           UNCHANGED <<work, snap, tag, deploy, row, shared>>
    PROVE  TypeInv'
<1>1. StoresOK' /\ NothingBefore'
  BY DEF TypeInv, StoresOK, NothingBefore
<1>2. RequestOK(q, snap', row')
  BY DEF RequestOK, TypeInv, Restoring, Making, Filling, Done, Copying, Committing
<1>3. QED
  BY <1>1, <1>2, StepType

LEMMA RepoType ==
    ASSUME TypeInv, NEW r \in Requests,
           ClearCopy(r) \/ CopyToRepo(r) \/ GitAdd(r) \/ WriteTree(r) \/ SetHead(r)
    PROVE  TypeInv'
<1> DEFINE v == req[r].version
<1>1. /\ req[r] \in RequestType /\ req[r].pc \in Filling /\ v \in Versions
      /\ snap[v] \in Maybe(Snapshot) /\ req[r].tree \in Tree
  <2>1. req[r] \in RequestType /\ req[r].pc \in Filling
    BY PlaceFacts
    DEF ClearCopy, CopyToRepo, GitAdd, WriteTree, SetHead, At, Filling, Copying,
                      Committing
  <2>2. QED
    BY <2>1, PlaceFacts, RequestFields, MaybeFacts DEF Making
<1>2. repo \in Tree /\ index \in Tree /\ head \in Tree
  BY DEF TypeInv, StoresOK
<1>3. /\ repo' \in Tree /\ index' \in Tree /\ head' \in Tree
      /\ UNCHANGED <<work, snap, tag, deploy, row, shared>>
  <2>1. CASE ClearCopy(r)
    BY <1>1, <1>2, <2>1, MaybeFacts DEF ClearCopy, Tree
  <2>2. CASE CopyToRepo(r)
    BY <1>1, <1>2, <2>2 DEF CopyToRepo, Tree
  <2>3. CASE GitAdd(r)
    BY <1>2, <2>3 DEF GitAdd
  <2>4. CASE WriteTree(r)
    BY <1>2, <2>4 DEF WriteTree
  <2>5. CASE SetHead(r)
    BY <1>1, <1>2, <2>5 DEF SetHead
  <2>6. QED
    BY <2>1, <2>2, <2>3, <2>4, <2>5
<1>4. \E q \in RequestType :
        req' = [req EXCEPT ![r] = q] /\ q.version = v /\ q.pc \in Filling
  <2>1. CASE WriteTree(r)
    <3> DEFINE q == [req[r] EXCEPT !.pc = "head", !.tree = index]
    <3>1. q \in RequestType /\ q.version = v /\ q.pc = "head"
      BY <1>1, <1>2 DEF RequestType, Pc
    <3>2. req' = [req EXCEPT ![r] = q]
      BY <2>1 DEF WriteTree
    <3>3. QED
      BY <3>1, <3>2 DEF Filling, Committing
  <2>2. CASE ~WriteTree(r)
    <3>1. PICK pc \in {"again", "add", "commit", "tag"} : Goto(r, pc)
      BY <2>2 DEF ClearCopy, CopyToRepo, GitAdd, SetHead
    <3>2. pc \in Pc /\ pc \in Filling
      BY <3>1 DEF Pc, Filling, Copying, Committing
    <3>3. QED
      BY <3>1, <3>2, GotoFacts DEF TypeInv
  <2>3. QED
    BY <2>1, <2>2
<1>5. QED
  BY <1>1, <1>3, <1>4, RepoStepType

LEMMA CreateTagType == ASSUME TypeInv, NEW r \in Requests, CreateTag(r) PROVE TypeInv'
<1> DEFINE v == req[r].version
           q == [req[r] EXCEPT !.pc = "insert", !.tree = head]
           t == IF tag[v] = None THEN req[r].tree ELSE tag[v]
<1>1. /\ req[r] \in RequestType /\ v \in Versions /\ snap[v] # None
      /\ req[r].tree \in Tree
  BY PlaceFacts, RequestFields, NoneAssumption
  DEF CreateTag, At, Making, Filling, Copying, Committing
<1>2. q \in RequestType /\ q.pc = "insert" /\ q.version = v
  BY <1>1 DEF RequestType, Pc, TypeInv, StoresOK
<1>3. tag' = [tag EXCEPT ![v] = t] /\ req' = [req EXCEPT ![r] = q]
  BY DEF CreateTag
<1>4. t \in Maybe(Tree)
  BY <1>1, MaybeFacts DEF TypeInv, StoresOK
<1>5. UNCHANGED <<work, snap, repo, index, head, deploy, row, shared>>
  BY DEF CreateTag
<1> HIDE DEF q, t
<1>6. StoresOK' /\ NothingBefore'
  BY <1>1, <1>3, <1>4, <1>5 DEF TypeInv, StoresOK, NothingBefore
<1>7. RequestOK(q, snap', row')
  BY <1>1, <1>2, <1>5 DEF RequestOK, Restoring, Making, Filling, Done, Copying, Committing
<1>8. QED
  BY <1>2, <1>3, <1>5, <1>6, <1>7, StepType
LEMMA RecordFields ==
    /\ \A t \in Tree : [hash |-> t, deployed |-> FALSE] \in Record
    /\ \A d \in Record : [d EXCEPT !.deployed = TRUE] \in Record
                        /\ [d EXCEPT !.deployed = TRUE].hash = d.hash
  BY DEF Record

LEMMA WriteMetadataType == ASSUME TypeInv, NEW r \in Requests, WriteMetadata(r) PROVE TypeInv'
<1> DEFINE v == req[r].version
           d == [hash |-> req[r].tree, deployed |-> FALSE]
           m == [Idle EXCEPT !.pc = "mark", !.version = v]
<1>1. /\ req[r] \in RequestType /\ v \in Versions /\ snap[v] # None
      /\ req[r].tree \in Tree
  BY PlaceFacts, RequestFields, NoneAssumption DEF WriteMetadata, At, Making, Filling
<1>2. d \in Record /\ d # None
  BY <1>1, RecordFields, NoneAssumption
<1>3. row' = [row EXCEPT ![v] = d]
      /\ UNCHANGED <<work, snap, repo, index, head, tag, deploy, shared>>
  BY DEF WriteMetadata
<1> HIDE DEF d
<1>4. /\ StoresOK' /\ NothingBefore' /\ row'[v] # None
      /\ \A u \in Versions : row[u] # None => row'[u] # None
  BY <1>1, <1>2, <1>3, MaybeFacts DEF TypeInv, StoresOK, NothingBefore
<1>5. CASE Finish(r)
  <2>1. RequestOK(Idle, snap', row')
    BY Blank DEF RequestOK, Restoring, Making, Filling, Done, Copying, Committing
  <2>2. QED
    BY <1>3, <1>4, <1>5, <2>1, Blank, StepType DEF Finish
<1>6. CASE req' = [req EXCEPT ![r] = m]
  <2>1. m \in RequestType /\ m.pc = "mark" /\ m.version = v
    <3>1. v \in Maybe(Versions)
      BY <1>1, MaybeFacts
    <3>2. QED
      BY <3>1, Blank DEF RequestType, Pc
  <2> HIDE DEF m
  <2>2. RequestOK(m, snap', row')
    BY <1>1, <1>3, <1>4, <2>1
    DEF RequestOK, Restoring, Making, Filling, Done, Copying, Committing
  <2>3. QED
    BY <1>3, <1>4, <1>6, <2>1, <2>2, StepType
<1>7. QED
  BY <1>5, <1>6 DEF WriteMetadata

LEMMA DeployType ==
    ASSUME TypeInv, NEW r \in Requests, CreateDeploymentTag(r) \/ MarkDeployed(r)
    PROVE  TypeInv'
<1> DEFINE v == req[r].version
<1>1. /\ req[r].pc \in Done /\ v \in Versions /\ snap[v] # None /\ row[v] \in Record
      /\ head \in Tree
  BY PlaceFacts, NoneAssumption DEF CreateDeploymentTag, MarkDeployed, At, Done,
                                    TypeInv, StoresOK
<1>2. CASE CreateDeploymentTag(r)
  <2> DEFINE t == IF deploy[v] = None THEN head ELSE deploy[v]
  <2>1. t \in Maybe(Tree) /\ deploy' = [deploy EXCEPT ![v] = t]
    BY <1>1, <1>2, MaybeFacts DEF CreateDeploymentTag, TypeInv, StoresOK
  <2> HIDE DEF t
  <2>2. UNCHANGED <<work, snap, repo, index, head, tag, row, shared>> /\ Goto(r, "update")
    BY <1>2 DEF CreateDeploymentTag
  <2>3. StoresOK' /\ NothingBefore'
    BY <1>1, <2>1, <2>2 DEF TypeInv, StoresOK, NothingBefore
  <2>4. PICK q \in RequestType :
          req' = [req EXCEPT ![r] = q] /\ q.pc = "update" /\ q.version = v
    BY <2>2, GotoFacts DEF TypeInv, Pc
  <2>5. RequestOK(q, snap', row')
    BY <1>1, <2>2, <2>4, NoneAssumption
    DEF RequestOK, Restoring, Making, Filling, Done, Copying, Committing
  <2>6. QED
    BY <2>2, <2>3, <2>4, <2>5, StepType
<1>3. CASE MarkDeployed(r)
  <2> DEFINE d == [row[v] EXCEPT !.deployed = TRUE]
  <2>1. d \in Record /\ d # None /\ row' = [row EXCEPT ![v] = d]
    BY <1>1, <1>3, RecordFields, NoneAssumption DEF MarkDeployed
  <2> HIDE DEF d
  <2>2. UNCHANGED <<work, snap, repo, index, head, tag, deploy, shared>> /\ Finish(r)
    BY <1>3 DEF MarkDeployed
  <2>3. /\ StoresOK' /\ NothingBefore'
        /\ \A u \in Versions : row[u] # None => row'[u] # None
    BY <1>1, <2>1, <2>2, MaybeFacts DEF TypeInv, StoresOK, NothingBefore
  <2>4. RequestOK(Idle, snap', row')
    BY Blank DEF RequestOK, Restoring, Making, Filling, Done, Copying, Committing
  <2>5. QED
    BY <2>2, <2>3, <2>4, Blank, StepType DEF Finish
<1>4. QED
  BY <1>2, <1>3

LEMMA NextType == TypeInv /\ [Next]_vars => TypeInv'
<1> SUFFICES ASSUME TypeInv, [Next]_vars PROVE TypeInv'
  OBVIOUS
<1>1. ASSUME NEW r \in Requests, Serve(r) PROVE TypeInv'
  <2>1. CASE RestoreFiles(r) \/ DropLogic(r) \/ RestoreLogic(r)
    BY <2>1, RestoreType
  <2>2. CASE ReadHistory(r) \/ Allocate(r) \/ MakeDirectories(r)
    BY <2>2, ReadHistoryType, AllocateType, MakeDirectoriesType
  <2>3. CASE DropSnapshotLogic(r) \/ CopyLogic(r) \/ CopyReport(r)
    BY <2>3, FillType
  <2>4. CASE ClearCopy(r) \/ CopyToRepo(r) \/ GitAdd(r) \/ WriteTree(r) \/ SetHead(r)
    BY <2>4, RepoType
  <2>5. CASE CreateTag(r) \/ WriteMetadata(r)
    BY <2>5, CreateTagType, WriteMetadataType
  <2>6. CASE CreateDeploymentTag(r) \/ MarkDeployed(r)
    BY <2>6, DeployType
  <2>7. QED
    BY <1>1, <2>1, <2>2, <2>3, <2>4, <2>5, <2>6 DEF Serve
<1>2. CASE UNCHANGED vars
  <2>1. StoresOK' /\ NothingBefore' /\ UNCHANGED <<snap, row, req>>
    BY <1>2, SameStores DEF vars, TypeInv, StoresOK
  <2>2. QED
    BY <2>1 DEF TypeInv
<1>3. QED
  BY <1>1, <1>2, BeginningsType, StopType, EditType DEF Next

\* In every run, of any number of requests, versions and artifacts, every store and every
\* request has its type: whichever step of whichever request is next, the version it works
\* on has a directory and the record it completes exists.
THEOREM TypeCorrect == Spec => []TypeOK
<1>1. TypeInv => TypeOK
  BY DEF TypeInv, TypeOK, StoresOK
<1>2. QED
  BY <1>1, InitType, NextType, PTL DEF Spec
-----------------------------------------------------------------------------
(***************************************************************************)
(* A version whose tag one request took belongs to that request until it   *)
(* is recorded, and what the request has done of it is still there.        *)
(***************************************************************************)
Owns(r, v) == req[r].pc \in Making /\ req[r].version = v

\* How far a request has come with its version.
Progress(q, v) ==
    /\ row[v] = None
    /\ q.pc # "insert" => tag[v] = None
    /\ q.pc = "mkdir" => snap[v] = None
    /\ q.pc \in Copying \cup Committing \cup {"insert"} => snap[v].logic # None
    /\ q.pc \in Committing \cup {"insert"} => repo[v] = snap[v]
    /\ q.pc = "commit" => index[v] = snap[v]
    /\ q.pc \in {"head", "tag"} => q.tree[v] = snap[v]
    /\ q.pc = "insert" => tag[v] # None /\ tag[v][v] = snap[v]

Whole(v) ==
    row[v] # None => /\ snap[v] # None /\ snap[v].logic # None
                     /\ repo[v] = snap[v]
                     /\ tag[v] # None /\ tag[v][v] = snap[v]

Own(v) ==
    ~shared[v] => /\ \A r, s \in Requests : Owns(r, v) /\ Owns(s, v) => r = s
                  /\ \A r \in Requests : Owns(r, v) => Progress(req[r], v)
                  /\ Whole(v)

OwnInv == \A v \in Versions : Own(v)

\* What a step may do to a version that is not the request's own.
Spared(v) ==
    /\ snap'[v] = snap[v] /\ repo'[v] = repo[v] /\ tag'[v] = tag[v]
    /\ index'[v] = index[v] \/ index'[v] = repo[v]
    /\ row'[v] = row[v] \/ (row[v] # None /\ row'[v] # None /\ row'[v].hash = row[v].hash)

LEMMA SparedByServe ==
    ASSUME TypeInv, NEW r \in Requests, Serve(r), NEW v \in Versions, ~Owns(r, v)
    PROVE  Spared(v)
<1>1. CASE RestoreFiles(r) \/ DropLogic(r) \/ RestoreLogic(r) \/ ReadHistory(r) \/ Allocate(r)
  BY <1>1 DEF Spared, RestoreFiles, DropLogic, RestoreLogic, ReadHistory, Allocate
<1>2. CASE MakeDirectories(r) \/ DropSnapshotLogic(r) \/ CopyLogic(r) \/ CopyReport(r)
  <2>1. req[r].version # v
    BY <1>2
    DEF MakeDirectories, DropSnapshotLogic, CopyLogic, CopyReport, At, Owns, Making,
        Filling, Copying, Committing
  <2>2. snap'[v] = snap[v]
    <3>1. snap \in [Versions -> Maybe(Snapshot)]
      BY DEF TypeInv, StoresOK, Tree
    <3>2. QED
      BY <1>2, <2>1, <3>1 DEF MakeDirectories, DropSnapshotLogic, CopyLogic, CopyReport
  <2>3. UNCHANGED <<repo, index, tag, row>>
    BY <1>2 DEF MakeDirectories, DropSnapshotLogic, CopyLogic, CopyReport
  <2>4. QED
    BY <2>2, <2>3 DEF Spared
<1>3. CASE ClearCopy(r) \/ CopyToRepo(r)
  <2>1. req[r].version # v
    BY <1>3 DEF ClearCopy, CopyToRepo, At, Owns, Making, Filling, Copying, Committing
  <2>2. repo'[v] = repo[v] /\ UNCHANGED <<snap, index, tag, row>>
    BY <1>3, <2>1 DEF ClearCopy, CopyToRepo, TypeInv, StoresOK, Tree
  <2>3. QED
    BY <2>2 DEF Spared
<1>4. CASE GitAdd(r) \/ WriteTree(r) \/ SetHead(r)
  BY <1>4 DEF GitAdd, WriteTree, SetHead, Spared
<1>5. CASE CreateTag(r)
  <2>1. req[r].version # v
    BY <1>5 DEF CreateTag, At, Owns, Making, Filling, Copying, Committing
  <2>2. tag'[v] = tag[v] /\ UNCHANGED <<snap, repo, index, row>>
    BY <1>5, <2>1 DEF CreateTag, TypeInv, StoresOK
  <2>3. QED
    BY <2>2 DEF Spared
<1>6. CASE WriteMetadata(r)
  <2>1. req[r].version # v
    BY <1>6 DEF WriteMetadata, At, Owns, Making, Filling, Copying, Committing
  <2>2. row'[v] = row[v] /\ UNCHANGED <<snap, repo, index, tag>>
    BY <1>6, <2>1 DEF WriteMetadata, TypeInv, StoresOK
  <2>3. QED
    BY <2>2 DEF Spared
<1>7. CASE CreateDeploymentTag(r)
  BY <1>7 DEF CreateDeploymentTag, Spared
<1>8. CASE MarkDeployed(r)
  <2> DEFINE w == req[r].version
             d == [row[w] EXCEPT !.deployed = TRUE]
  <2>1. row[w] \in Record /\ row \in [Versions -> Maybe(Record)]
    BY <1>8, PlaceFacts DEF MarkDeployed, At, Done, TypeInv, StoresOK
  <2>2. d \in Record /\ d.hash = row[w].hash /\ d # None /\ row[w] # None
    BY <2>1, RecordFields, NoneAssumption
  <2>3. row' = [row EXCEPT ![w] = d] /\ UNCHANGED <<snap, repo, index, tag>>
    BY <1>8 DEF MarkDeployed
  <2> HIDE DEF d
  <2>4. QED
    BY <2>1, <2>2, <2>3 DEF Spared
<1>9. QED
  BY <1>1, <1>2, <1>3, <1>4, <1>5, <1>6, <1>7, <1>8 DEF Serve
\* What a step spares stays whole, and as far as its request has come with it.
LEMMA SparedStays ==
    ASSUME NEW v \in Versions, Spared(v)
    PROVE  /\ Whole(v) => Whole(v)'
           /\ \A q \in RequestType : Progress(q, v) => Progress(q, v)'
<1>1. Whole(v) => Whole(v)'
  BY DEF Whole, Spared
<1>2. ASSUME NEW q \in RequestType, Progress(q, v) PROVE Progress(q, v)'
  BY <1>2 DEF Progress, Spared, Committing
<1>3. QED
  BY <1>1, <1>2

\* A step in which no request gets ahead: those that own a version are where they were.
LEMMA FrameOwn ==
    ASSUME TypeInv, OwnInv, UNCHANGED shared,
           \A v \in Versions : Spared(v),
           \A s \in Requests : req'[s].pc \in Making =>
             /\ req'[s].pc = req[s].pc /\ req'[s].version = req[s].version
             /\ req'[s].tree = req[s].tree
    PROVE  OwnInv'
<1> SUFFICES ASSUME NEW v \in Versions, ~shared[v] PROVE Own(v)'
  BY DEF OwnInv, Own
<1>1. Own(v) /\ Spared(v)
  BY DEF OwnInv
<1>2. \A s \in Requests : Owns(s, v)' => Owns(s, v)
  BY DEF Owns
<1>3. ASSUME NEW s \in Requests, Owns(s, v)' PROVE Progress(req[s], v)'
  <2>1. PICK q \in RequestType : q = req[s]
    BY DEF TypeInv
  <2>2. Progress(q, v)
    BY <1>1, <1>2, <1>3, <2>1 DEF Own
  <2>3. Progress(q, v)'
    BY <1>1, <2>2, SparedStays
  <2>4. req'[s].pc = q.pc /\ req'[s].tree = q.tree
    BY <1>3, <2>1 DEF Owns
  <2>5. QED
    BY <2>3, <2>4 DEF Progress
<1>4. Whole(v)'
  BY <1>1, SparedStays DEF Own
<1>5. QED
  BY <1>1, <1>2, <1>3, <1>4 DEF Own

\* A step of the owner of a version: only that version has to be looked at.
LEMMA OwnerStep ==
    ASSUME TypeInv, OwnInv, NEW r \in Requests, Serve(r), UNCHANGED shared,
           NEW w \in Versions, Owns(r, w),
           NEW q \in RequestType, req' = [req EXCEPT ![r] = q],
           q.pc \in Making => q.version = w,
           ~shared[w] /\ q.pc \in Making => Progress(q, w)',
           ~shared[w] => Whole(w)'
    PROVE  OwnInv'
<1> SUFFICES ASSUME NEW v \in Versions, ~shared[v] PROVE Own(v)'
  BY DEF OwnInv, Own
<1>1. Own(v)
  BY DEF OwnInv
<1>2. \A s \in Requests : req'[s] = IF s = r THEN q ELSE req[s]
  BY DEF TypeInv
<1>3. \A s \in Requests : Owns(s, v)' => Owns(s, v)
  BY <1>2 DEF Owns
<1>4. CASE v = w
  <2>1. \A s \in Requests : Owns(s, v)' => s = r
    BY <1>1, <1>3, <1>4 DEF Own
  <2>2. req'[r] = q
    BY <1>2
  <2>3. Owns(r, v)' => Progress(req[r], v)'
    BY <1>4, <2>2 DEF Owns, Progress
  <2>4. QED
    BY <1>4, <2>1, <2>3 DEF Own
<1>5. CASE v # w
  <2>1. Spared(v)
    BY <1>5, SparedByServe DEF Owns
  <2>2. ASSUME NEW s \in Requests, Owns(s, v)' PROVE Progress(req[s], v)'
    <3>1. s # r
      BY <1>3, <1>5, <2>2 DEF Owns
    <3>2. PICK p \in RequestType : p = req[s] /\ p = req'[s]
      BY <1>2, <3>1 DEF TypeInv
    <3>3. Progress(p, v)
      BY <1>1, <1>3, <2>2, <3>2 DEF Own
    <3>4. Progress(p, v)'
      BY <2>1, <3>3, SparedStays
    <3>5. QED
      BY <3>2, <3>4 DEF Progress
  <2>3. Whole(v)'
    BY <1>1, <2>1, SparedStays DEF Own
  <2>4. QED
    BY <1>1, <1>3, <2>2, <2>3 DEF Own
<1>6. QED
  BY <1>4, <1>5
LEMMA InitOwn == Init => OwnInv
<1> SUFFICES ASSUME Init PROVE OwnInv
  OBVIOUS
<1>1. \A r \in Requests : req[r].pc = "idle"
  BY Blank DEF Init
<1>2. \A v \in Versions : row[v] = None
  BY DEF Init, NoVersions
<1>3. QED
  BY <1>1, <1>2 DEF OwnInv, Own, Owns, Whole, Making, Filling, Copying, Committing

\* Requests that come, go, restore, read or mark, and other services.
LEMMA OthersOwn ==
    ASSUME TypeInv, OwnInv, NEW r \in Requests,
           \/ Commit(r) \/ (\E v \in Versions : Rollback(r, v)) \/ Stop(r) \/ Edit
           \/ UNCHANGED vars
    PROVE  OwnInv'
<1>1. UNCHANGED <<snap, repo, index, tag, row, shared>>
  BY DEF Commit, Rollback, Begin, Stop, Edit, vars
<1>2. \A v \in Versions : Spared(v)
  BY <1>1 DEF Spared
<1>3. ASSUME NEW s \in Requests, req'[s].pc \in Making
      PROVE  /\ req'[s].pc = req[s].pc /\ req'[s].version = req[s].version
             /\ req'[s].tree = req[s].tree
  <2>1. req[s] \in RequestType
    BY DEF TypeInv
  <2>2. CASE UNCHANGED vars
    BY <2>2 DEF vars
  <2>3. CASE Edit
    BY <2>1, <2>3, RequestFields DEF Edit
  <2>4. CASE Stop(r)
    BY <1>3, <2>4, Blank DEF Stop, Finish, TypeInv, Making, Filling, Copying, Committing
  <2>5. ASSUME NEW q, Begin(r, q), q.pc \notin Making
        PROVE  /\ req'[s].pc = req[s].pc /\ req'[s].version = req[s].version
               /\ req'[s].tree = req[s].tree
    <3>1. s # r
      BY <1>3, <2>5 DEF Begin
    <3>2. req'[s] = [req[s] EXCEPT !.restored = None]
      BY <2>5, <3>1 DEF Begin
    <3>3. QED
      BY <2>1, <3>2, RequestFields
  <2>6. CASE Commit(r)
    <3> DEFINE q == [Idle EXCEPT !.pc = "history", !.op = "commit"]
    <3>1. Begin(r, q) /\ q.pc = "history"
      BY <2>6 DEF Commit, Idle
    <3>2. q.pc \notin Making
      BY <3>1 DEF Making, Filling, Copying, Committing
    <3> HIDE DEF q
    <3>3. QED
      BY <2>5, <3>1, <3>2
  <2>7. ASSUME NEW v \in Versions, Rollback(r, v)
        PROVE  /\ req'[s].pc = req[s].pc /\ req'[s].version = req[s].version
               /\ req'[s].tree = req[s].tree
    <3> DEFINE w == IF \A p \in Requests : At(p, "idle") THEN v ELSE None
               q == [Idle EXCEPT !.pc = "files", !.op = "rollback", !.from = v,
                                 !.restored = w]
    <3>1. Begin(r, q)
      BY <2>7 DEF Rollback
    <3>2. q.pc = "files"
      <4> HIDE DEF w
      <4>1. QED
        BY DEF Idle
    <3> HIDE DEF q
    <3>3. q.pc \notin Making
      BY <3>2 DEF Making, Filling, Copying, Committing
    <3>4. QED
      BY <2>5, <3>1, <3>3
  <2>8. QED
    BY <2>2, <2>3, <2>4, <2>6, <2>7
<1>4. QED
  BY <1>1, <1>2, <1>3, FrameOwn

LEMMA OutsideOwn ==
    ASSUME TypeInv, OwnInv, NEW r \in Requests, Serve(r),
           \/ RestoreFiles(r) \/ DropLogic(r) \/ RestoreLogic(r) \/ ReadHistory(r)
           \/ CreateDeploymentTag(r) \/ MarkDeployed(r)
    PROVE  OwnInv'
<1>1. req[r].pc \notin Making /\ UNCHANGED shared
  BY DEF RestoreFiles, DropLogic, RestoreLogic, ReadHistory, CreateDeploymentTag,
         MarkDeployed, At, Making, Filling, Copying, Committing
<1>2. \A v \in Versions : Spared(v)
  BY <1>1, SparedByServe DEF Owns
<1>3. \E q : req' = [req EXCEPT ![r] = q] /\ q.pc \notin Making
  <2>1. CASE ReadHistory(r)
    <3> DEFINE q == [req[r] EXCEPT !.pc = "allocate", !.from = None,
                                   !.seen = {v \in Versions : row[v] # None}]
    <3>1. req[r] \in RequestType
      BY DEF TypeInv
    <3>2. q.pc = "allocate"
      BY <3>1 DEF RequestType
    <3>3. req' = [req EXCEPT ![r] = q]
      BY <2>1 DEF ReadHistory
    <3> HIDE DEF q
    <3>4. QED
      BY <3>2, <3>3 DEF Making, Filling, Copying, Committing
  <2>2. CASE MarkDeployed(r)
    BY <2>2, Blank DEF MarkDeployed, Finish, Making, Filling, Copying, Committing
  <2>3. CASE ~ReadHistory(r) /\ ~MarkDeployed(r)
    <3>1. PICK pc \in {"drop", "put", "history", "update"} : Goto(r, pc)
      BY <2>3 DEF RestoreFiles, DropLogic, RestoreLogic, CreateDeploymentTag
    <3>2. pc \in Pc /\ pc \notin Making
      BY <3>1 DEF Pc, Making, Filling, Copying, Committing
    <3>3. QED
      BY <3>1, <3>2, GotoFacts DEF TypeInv
  <2>4. QED
    BY <2>1, <2>2, <2>3
<1>4. \A s \in Requests : req'[s].pc \in Making => req'[s] = req[s]
  BY <1>3 DEF TypeInv
<1>5. QED
  BY <1>1, <1>2, <1>4, FrameOwn

\* A tag that is taken: nothing of the version exists, and a request that took it before
\* is still on its way to make the directory, which is what shared remembers.
LEMMA AllocateOwn == ASSUME TypeInv, OwnInv, NEW r \in Requests, Allocate(r) PROVE OwnInv'
<1>1. PICK w \in Versions :
        /\ NextVersionTag(r, w)
        /\ req' = [req EXCEPT ![r].pc = "mkdir", ![r].version = w, ![r].seen = {}]
        /\ shared' = [shared EXCEPT ![w] =
                        @ \/ \E q \in Requests : At(q, "mkdir") /\ req[q].version = w]
  BY DEF Allocate
<1>2. snap[w] = None /\ row[w] = None /\ tag[w] = None
  BY <1>1 DEF NextVersionTag, TypeInv, NothingBefore
<1>3. UNCHANGED <<work, snap, repo, index, head, tag, deploy, row>>
  BY DEF Allocate
<1>4. req'[r].pc = "mkdir" /\ req'[r].version = w
  <2>1. req[r] \in RequestType
    BY DEF TypeInv
  <2>2. req'[r] = [req[r] EXCEPT !.pc = "mkdir", !.version = w, !.seen = {}]
    BY <1>1 DEF TypeInv
  <2>3. QED
    BY <2>1, <2>2 DEF RequestType
<1>5. \A s \in Requests : s # r => req'[s] = req[s]
  BY <1>1 DEF TypeInv
<1>6. \A v \in Versions : ~shared'[v] => ~shared[v]
  <2>1. \A v \in Versions : v # w => shared'[v] = shared[v]
    BY <1>1 DEF TypeInv, StoresOK
  <2>2. shared[w] => shared'[w]
    BY <1>1 DEF TypeInv, StoresOK
  <2>3. QED
    BY <2>1, <2>2
<1>7. ~shared'[w] => \A s \in Requests : ~Owns(s, w)
  <2> SUFFICES ASSUME ~shared'[w], NEW s \in Requests, Owns(s, w) PROVE FALSE
    OBVIOUS
  <2>1. ~(At(s, "mkdir") /\ req[s].version = w)
    BY <1>1 DEF TypeInv, StoresOK
  <2>2. req[s].pc \in Filling
    BY <2>1 DEF Owns, At, Making
  <2>3. QED
    BY <1>2, <2>2 DEF Owns, TypeInv, RequestOK
<1> SUFFICES ASSUME NEW v \in Versions, ~shared'[v] PROVE Own(v)'
  BY DEF OwnInv, Own
<1>8. Own(v) /\ ~shared[v]
  BY <1>6 DEF OwnInv
<1>9. Whole(v)'
  BY <1>3, <1>8 DEF Own, Whole
<1>10. CASE v = w
  <2>1. \A s \in Requests : Owns(s, v)' => s = r
    BY <1>5, <1>7, <1>10 DEF Owns
  <2>2. Progress(req[r], v)'
    BY <1>2, <1>3, <1>4, <1>10 DEF Progress, Making, Filling, Copying, Committing
  <2>3. QED
    BY <1>9, <2>1, <2>2 DEF Own
<1>11. CASE v # w
  <2>1. \A s \in Requests : Owns(s, v)' => s # r /\ req'[s] = req[s] /\ Owns(s, v)
    BY <1>4, <1>5, <1>11 DEF Owns
  <2>2. ASSUME NEW s \in Requests, Owns(s, v)' PROVE Progress(req[s], v)'
    <3>1. Progress(req[s], v) /\ req'[s] = req[s]
      BY <1>8, <2>1, <2>2 DEF Own
    <3>2. QED
      BY <1>3, <3>1 DEF Progress
  <2>3. QED
    BY <1>8, <1>9, <2>1, <2>2 DEF Own
<1>12. QED
  BY <1>10, <1>11
\* The owner of a version goes on.
LEMMA OwnerGoto ==
    ASSUME TypeInv, OwnInv, NEW r \in Requests, Serve(r), UNCHANGED <<row, shared>>,
           NEW w \in Versions, Owns(r, w), NEW pc \in Making \cap Pc, Goto(r, pc),
           ~shared[w] /\ Progress(req[r], w) =>
             \A q \in RequestType : q.pc = pc /\ q.tree = req[r].tree => Progress(q, w)'
    PROVE  OwnInv'
<1>1. ~shared[w] => Progress(req[r], w)
  BY DEF OwnInv, Own
<1>2. PICK q \in RequestType :
        /\ req' = [req EXCEPT ![r] = q]
        /\ q.pc = pc /\ q.version = req[r].version /\ q.tree = req[r].tree
  BY GotoFacts DEF TypeInv
<1>3. ~shared[w] => Progress(q, w)'
  BY <1>1, <1>2
<1>4. ~shared[w] => Whole(w)'
  BY <1>1 DEF Progress, Whole
<1>5. QED
  BY <1>2, <1>3, <1>4, OwnerStep DEF Owns

LEMMA LogicWritten ==
    ASSUME TypeInv, NEW w \in Versions, snap[w] \in Snapshot,
           NEW l \in Logic \cup {"empty"}, snap' = [snap EXCEPT ![w].logic = l]
    PROVE  snap'[w].logic # None
<1>1. l \in Maybe(Logic \cup {"empty"}) /\ l # None
  BY MaybeFacts, NoneAssumption
<1>2. [snap[w] EXCEPT !.logic = l].logic = l
  BY <1>1, SnapshotFields
<1>3. snap \in [Versions -> Maybe(Snapshot)]
  BY DEF TypeInv, StoresOK, Tree
<1>4. snap'[w] = [snap[w] EXCEPT !.logic = l]
  BY <1>3
<1>5. QED
  BY <1>1, <1>2, <1>4

LEMMA MakeOwn ==
    ASSUME TypeInv, OwnInv, NEW r \in Requests, Serve(r), MakeDirectories(r)
    PROVE  OwnInv'
<1>1. Goto(r, "logic") /\ UNCHANGED <<tag, row, shared>> /\ req[r].pc = "mkdir"
  BY DEF MakeDirectories, At
<1>2. PICK w \in Versions : w = req[r].version /\ Owns(r, w)
  BY <1>1, PlaceFacts DEF Owns, Making
<1>3. "logic" \in Making \cap Pc
  BY DEF Pc, Making, Filling, Copying, Committing
<1>4. ASSUME Progress(req[r], w), NEW q \in RequestType, q.pc = "logic"
      PROVE  Progress(q, w)'
  BY <1>1, <1>4 DEF Progress, Copying, Committing
<1>5. QED
  BY <1>1, <1>2, <1>3, <1>4, OwnerGoto

LEMMA DropOwn ==
    ASSUME TypeInv, OwnInv, NEW r \in Requests, Serve(r), DropSnapshotLogic(r)
    PROVE  OwnInv'
<1>1. UNCHANGED <<tag, row, shared>> /\ req[r].pc = "logic"
  BY DEF DropSnapshotLogic, At
<1>2. PICK w \in Versions : w = req[r].version /\ Owns(r, w) /\ snap[w] \in Snapshot
  BY <1>1, PlaceFacts DEF Owns, Making, Filling
<1>3. CASE work.logic = None
  <2> DEFINE l == IF snap[w].logic \in Contents THEN snap[w].logic ELSE "status"
  <2>1. snap' = [snap EXCEPT ![w].logic = l] /\ Goto(r, "report")
    BY <1>2, <1>3 DEF DropSnapshotLogic
  <2>2. l \in Logic \cup {"empty"}
    BY DEF Logic
  <2> HIDE DEF l
  <2>3. snap'[w].logic # None
    BY <1>2, <2>1, <2>2, LogicWritten
  <2>4. "report" \in Making \cap Pc
    BY DEF Pc, Making, Filling, Copying, Committing
  <2>5. ASSUME Progress(req[r], w), NEW q \in RequestType, q.pc = "report"
        PROVE  Progress(q, w)'
    BY <1>1, <2>3, <2>5 DEF Progress, Committing
  <2>6. QED
    BY <1>1, <1>2, <2>1, <2>4, <2>5, OwnerGoto
<1>4. CASE work.logic # None
  <2>1. Goto(r, "tree")
    BY <1>4 DEF DropSnapshotLogic
  <2>2. "tree" \in Making \cap Pc
    BY DEF Pc, Making, Filling, Copying, Committing
  <2>3. ASSUME Progress(req[r], w), NEW q \in RequestType, q.pc = "tree"
        PROVE  Progress(q, w)'
    BY <1>1, <2>3 DEF Progress, Copying, Committing
  <2>4. QED
    BY <1>1, <1>2, <2>1, <2>2, <2>3, OwnerGoto
<1>5. QED
  BY <1>3, <1>4

LEMMA CopyLogicOwn ==
    ASSUME TypeInv, OwnInv, NEW r \in Requests, Serve(r), CopyLogic(r)
    PROVE  OwnInv'
<1>1. Goto(r, "report") /\ UNCHANGED <<tag, row, shared>> /\ req[r].pc = "tree"
  BY DEF CopyLogic, At
<1>2. PICK w \in Versions : w = req[r].version /\ Owns(r, w) /\ snap[w] \in Snapshot
  BY <1>1, PlaceFacts DEF Owns, Making, Filling
<1> DEFINE l == IF work.logic = None THEN "empty" ELSE work.logic
<1>3. snap' = [snap EXCEPT ![w].logic = l]
  BY <1>2 DEF CopyLogic
<1>4. l \in Logic \cup {"empty"}
  BY WorkFields, MaybeFacts DEF TypeInv, StoresOK
<1> HIDE DEF l
<1>5. snap'[w].logic # None
  BY <1>2, <1>3, <1>4, LogicWritten
<1>6. "report" \in Making \cap Pc
  BY DEF Pc, Making, Filling, Copying, Committing
<1>7. ASSUME Progress(req[r], w), NEW q \in RequestType, q.pc = "report"
      PROVE  Progress(q, w)'
  BY <1>1, <1>5, <1>7 DEF Progress, Committing
<1>8. QED
  BY <1>1, <1>2, <1>6, <1>7, OwnerGoto

LEMMA CopyReportOwn ==
    ASSUME TypeInv, OwnInv, NEW r \in Requests, Serve(r), CopyReport(r)
    PROVE  OwnInv'
<1>1. Goto(r, "copy") /\ UNCHANGED <<tag, row, shared>> /\ req[r].pc = "report"
  BY DEF CopyReport, At
<1>2. PICK w \in Versions : w = req[r].version /\ Owns(r, w) /\ snap[w] \in Snapshot
  BY <1>1, PlaceFacts DEF Owns, Making, Filling, Copying
<1> DEFINE new == IF work.preferred # None THEN work.preferred ELSE work.plain
<1>3. new \in Maybe(Contents)
  BY WorkFields DEF TypeInv, StoresOK
<1>4. snap' = snap \/ snap' = [snap EXCEPT ![w].report = new]
  BY <1>2 DEF CopyReport
<1> HIDE DEF new
<1>5. snap'[w].logic = snap[w].logic
  <2>1. [snap[w] EXCEPT !.report = new].logic = snap[w].logic
    BY <1>2, <1>3, SnapshotFields
  <2>2. snap \in [Versions -> Maybe(Snapshot)]
    BY DEF TypeInv, StoresOK, Tree
  <2>3. snap'[w] = snap[w] \/ snap'[w] = [snap[w] EXCEPT !.report = new]
    BY <1>4, <2>2
  <2>4. QED
    BY <2>1, <2>3
<1>6. "copy" \in Making \cap Pc
  BY DEF Pc, Making, Filling, Copying, Committing
<1>7. ASSUME Progress(req[r], w), NEW q \in RequestType, q.pc = "copy"
      PROVE  Progress(q, w)'
  BY <1>1, <1>5, <1>7 DEF Progress, Copying, Committing
<1>8. QED
  BY <1>1, <1>2, <1>6, <1>7, OwnerGoto
LEMMA ClearCopyOwn ==
    ASSUME TypeInv, OwnInv, NEW r \in Requests, Serve(r), ClearCopy(r) PROVE OwnInv'
<1>1. /\ Goto(r, "again") /\ UNCHANGED <<snap, tag, row, shared>>
      /\ req[r].pc = "copy"
  BY DEF ClearCopy, At
<1>2. PICK w \in Versions : w = req[r].version /\ Owns(r, w)
  BY <1>1, PlaceFacts DEF Owns, Making, Filling, Copying, Committing
<1>3. "again" \in Making \cap Pc
  BY DEF Pc, Making, Filling, Copying, Committing
<1>4. ASSUME Progress(req[r], w), NEW q \in RequestType, q.pc = "again"
      PROVE  Progress(q, w)'
  BY <1>1, <1>4 DEF Progress, Copying, Committing
<1>5. QED
  BY <1>1, <1>2, <1>3, <1>4, OwnerGoto

LEMMA CopyToRepoOwn ==
    ASSUME TypeInv, OwnInv, NEW r \in Requests, Serve(r), CopyToRepo(r) PROVE OwnInv'
<1>1. /\ Goto(r, "add") /\ UNCHANGED <<snap, tag, row, shared>>
      /\ req[r].pc \in {"copy", "again"}
  BY DEF CopyToRepo, At
<1>2. PICK w \in Versions : w = req[r].version /\ Owns(r, w)
  BY <1>1, PlaceFacts DEF Owns, Making, Filling, Copying, Committing
<1>3. "add" \in Making \cap Pc
  BY DEF Pc, Making, Filling, Copying, Committing
<1>4. repo'[w] = snap[w]
  BY <1>2 DEF CopyToRepo, TypeInv, StoresOK, Tree
<1>5. ASSUME Progress(req[r], w), NEW q \in RequestType, q.pc = "add"
      PROVE  Progress(q, w)'
  BY <1>1, <1>4, <1>5 DEF Progress, Copying, Committing
<1>6. QED
  BY <1>1, <1>2, <1>3, <1>5, OwnerGoto

LEMMA GitAddOwn ==
    ASSUME TypeInv, OwnInv, NEW r \in Requests, Serve(r), GitAdd(r) PROVE OwnInv'
<1>1. /\ Goto(r, "commit") /\ UNCHANGED <<snap, repo, tag, row, shared>>
      /\ req[r].pc = "add" /\ index' = repo
  BY DEF GitAdd, At
<1>2. PICK w \in Versions : w = req[r].version /\ Owns(r, w)
  BY <1>1, PlaceFacts DEF Owns, Making, Filling, Copying, Committing
<1>3. "commit" \in Making \cap Pc
  BY DEF Pc, Making, Filling, Copying, Committing
<1>4. ASSUME Progress(req[r], w), NEW q \in RequestType, q.pc = "commit"
      PROVE  Progress(q, w)'
  BY <1>1, <1>4 DEF Progress, Copying, Committing
<1>5. QED
  BY <1>1, <1>2, <1>3, <1>4, OwnerGoto

LEMMA SetHeadOwn ==
    ASSUME TypeInv, OwnInv, NEW r \in Requests, Serve(r), SetHead(r) PROVE OwnInv'
<1>1. /\ Goto(r, "tag") /\ UNCHANGED <<snap, repo, tag, row, shared>>
      /\ req[r].pc = "head"
  BY DEF SetHead, At
<1>2. PICK w \in Versions : w = req[r].version /\ Owns(r, w)
  BY <1>1, PlaceFacts DEF Owns, Making, Filling, Copying, Committing
<1>3. "tag" \in Making \cap Pc
  BY DEF Pc, Making, Filling, Copying, Committing
<1>4. ASSUME Progress(req[r], w), NEW q \in RequestType, q.pc = "tag", q.tree = req[r].tree
      PROVE  Progress(q, w)'
  BY <1>1, <1>4 DEF Progress, Copying, Committing
<1>5. QED
  BY <1>1, <1>2, <1>3, <1>4, OwnerGoto

LEMMA WriteTreeOwn ==
    ASSUME TypeInv, OwnInv, NEW r \in Requests, Serve(r), WriteTree(r) PROVE OwnInv'
<1> DEFINE n == [req[r] EXCEPT !.pc = "head", !.tree = index]
<1>1. req' = [req EXCEPT ![r] = n] /\ UNCHANGED <<snap, repo, index, tag, row, shared>>
  BY DEF WriteTree
<1>2. req[r].pc = "commit" /\ req[r] \in RequestType /\ index \in Tree
  BY DEF WriteTree, At, TypeInv, StoresOK
<1>3. PICK w \in Versions : w = req[r].version /\ Owns(r, w)
  BY <1>2, PlaceFacts DEF Owns, Making, Filling, Copying, Committing
<1>4. PICK q \in RequestType : q = n /\ q.pc = "head" /\ q.version = w /\ q.tree = index
  <2>1. n \in RequestType /\ n.pc = "head" /\ n.version = w /\ n.tree = index
    BY <1>2, <1>3 DEF RequestType, Pc
  <2> HIDE DEF n
  <2>2. QED
    BY <2>1
<1>5. ~shared[w] => Progress(req[r], w)
  BY <1>3 DEF OwnInv, Own
<1>6. ~shared[w] => Progress(q, w)' /\ Whole(w)'
  <2>1. Progress(req[r], w) => Progress(q, w)'
    BY <1>1, <1>2, <1>4 DEF Progress, Copying, Committing
  <2>2. Progress(req[r], w) => Whole(w)'
    BY <1>1 DEF Progress, Whole
  <2>3. QED
    BY <1>5, <2>1, <2>2
<1> HIDE DEF n
<1>7. QED
  BY <1>1, <1>3, <1>4, <1>6, OwnerStep

LEMMA CreateTagOwn ==
    ASSUME TypeInv, OwnInv, NEW r \in Requests, Serve(r), CreateTag(r) PROVE OwnInv'
<1> DEFINE n == [req[r] EXCEPT !.pc = "insert", !.tree = head]
           t == IF tag[req[r].version] = None THEN req[r].tree ELSE tag[req[r].version]
<1>1. /\ req' = [req EXCEPT ![r] = n] /\ tag' = [tag EXCEPT ![req[r].version] = t]
      /\ UNCHANGED <<snap, repo, index, row, shared>>
  BY DEF CreateTag
<1>2. /\ req[r].pc = "tag" /\ req[r] \in RequestType /\ head \in Tree
      /\ req[r].tree # None
  BY RequestFields, NoneAssumption DEF CreateTag, At, TypeInv, StoresOK
<1>3. PICK w \in Versions : w = req[r].version /\ Owns(r, w)
  BY <1>2, PlaceFacts DEF Owns, Making, Filling, Copying, Committing
<1>4. PICK q \in RequestType : q = n /\ q.pc = "insert" /\ q.version = w
  <2>1. n \in RequestType /\ n.pc = "insert" /\ n.version = w
    BY <1>2, <1>3 DEF RequestType, Pc
  <2> HIDE DEF n
  <2>2. QED
    BY <2>1
<1>5. ~shared[w] => Progress(req[r], w)
  BY <1>3 DEF OwnInv, Own
<1>6. tag'[w] = t
  BY <1>1, <1>3 DEF TypeInv, StoresOK
<1>7. Progress(req[r], w) => t = req[r].tree
  BY <1>2, <1>3 DEF Progress
<1> HIDE DEF n, t
<1>8. ~shared[w] => Progress(q, w)' /\ Whole(w)'
  <2>1. Progress(req[r], w) => Progress(q, w)'
    BY <1>1, <1>2, <1>4, <1>6, <1>7 DEF Progress, Copying, Committing
  <2>2. Progress(req[r], w) => Whole(w)'
    BY <1>1 DEF Progress, Whole
  <2>3. QED
    BY <1>5, <2>1, <2>2
<1>9. QED
  BY <1>1, <1>3, <1>4, <1>8, OwnerStep

LEMMA WriteMetadataOwn ==
    ASSUME TypeInv, OwnInv, NEW r \in Requests, Serve(r), WriteMetadata(r) PROVE OwnInv'
<1>1. req[r].pc = "insert" /\ UNCHANGED <<snap, repo, index, tag, shared>>
  BY DEF WriteMetadata, At
<1>2. PICK w \in Versions : w = req[r].version /\ Owns(r, w) /\ snap[w] \in Snapshot
  BY <1>1, PlaceFacts DEF Owns, Making, Filling, Copying, Committing
<1>3. ~shared[w] => Progress(req[r], w)
  BY <1>2 DEF OwnInv, Own
<1>4. ~shared[w] => Whole(w)'
  BY <1>1, <1>2, <1>3, NoneAssumption DEF Progress, Whole
<1>5. CASE Finish(r)
  <2>1. Idle.pc \notin Making
    BY Blank DEF Making, Filling, Copying, Committing
  <2>2. QED
    BY <1>1, <1>2, <1>4, <1>5, <2>1, Blank, OwnerStep DEF Finish
<1>6. CASE ~Finish(r)
  <2> DEFINE n == [Idle EXCEPT !.pc = "mark", !.version = w]
  <2>1. req' = [req EXCEPT ![r] = n]
    BY <1>2, <1>6 DEF WriteMetadata
  <2>2. n \in RequestType /\ n.pc = "mark"
    <3>1. w \in Maybe(Versions)
      BY MaybeFacts
    <3>2. QED
      BY <3>1, Blank DEF RequestType, Pc
  <2> HIDE DEF n
  <2>3. n.pc \notin Making
    BY <2>2 DEF Making, Filling, Copying, Committing
  <2>4. QED
    BY <1>1, <1>2, <1>4, <2>1, <2>2, <2>3, OwnerStep
<1>7. QED
  BY <1>5, <1>6

LEMMA NextOwn == TypeInv /\ OwnInv /\ [Next]_vars => OwnInv'
<1> SUFFICES ASSUME TypeInv, OwnInv, [Next]_vars PROVE OwnInv'
  OBVIOUS
<1>1. ASSUME NEW r \in Requests, Serve(r) PROVE OwnInv'
  <2>1. CASE RestoreFiles(r) \/ DropLogic(r) \/ RestoreLogic(r) \/ ReadHistory(r)
             \/ CreateDeploymentTag(r) \/ MarkDeployed(r)
    BY <1>1, <2>1, OutsideOwn
  <2>2. CASE Allocate(r)
    BY <2>2, AllocateOwn
  <2>3. CASE MakeDirectories(r) \/ DropSnapshotLogic(r) \/ CopyLogic(r) \/ CopyReport(r)
    BY <1>1, <2>3, MakeOwn, DropOwn, CopyLogicOwn, CopyReportOwn
  <2>4. CASE ClearCopy(r) \/ CopyToRepo(r) \/ GitAdd(r)
    BY <1>1, <2>4, ClearCopyOwn, CopyToRepoOwn, GitAddOwn
  <2>5. CASE WriteTree(r) \/ SetHead(r) \/ CreateTag(r) \/ WriteMetadata(r)
    BY <1>1, <2>5, WriteTreeOwn, SetHeadOwn, CreateTagOwn, WriteMetadataOwn
  <2>6. QED
    BY <1>1, <2>1, <2>2, <2>3, <2>4, <2>5 DEF Serve
<1>2. ASSUME NEW r \in Requests,
             \/ Commit(r) \/ (\E v \in Versions : Rollback(r, v)) \/ Stop(r) \/ Edit
             \/ UNCHANGED vars
      PROVE  OwnInv'
  BY <1>2, OthersOwn
<1>3. CASE Requests = {}
  <2>1. UNCHANGED <<snap, repo, index, tag, row, shared>>
    BY <1>3 DEF Next, Edit, vars
  <2>2. QED
    BY <1>3, <2>1 DEF OwnInv, Own, Whole
<1>4. QED
  BY <1>1, <1>2, <1>3 DEF Next

LEMMA Invariants == Spec => [](TypeInv /\ OwnInv)
  BY InitType, NextType, InitOwn, NextOwn, PTL DEF Spec

\* For any number of requests that commit, deploy, roll back, fail and die in any order: a
\* version that is recorded, and whose tag only one request took, has its directory, the
\* same copy in the repository, and a Git tag on a commit that holds just that copy.
THEOREM RecordsWhole == Spec => []RecordsAreWhole
<1>1. OwnInv => RecordsAreWhole
  BY DEF OwnInv, Own, Whole, RecordsAreWhole
<1>2. QED
  BY <1>1, Invariants, PTL

\* For any number of requests: once such a version is recorded no request, not even one
\* that read the table before the record was there, writes into its directory or its copy
\* again, and its record keeps its commit.
THEOREM RecordsFinal == Spec => RecordsAreFinal
<1> DEFINE Kept(v) == /\ snap'[v] = snap[v] /\ repo'[v] = repo[v]
                      /\ row'[v] # None /\ row'[v].hash = row[v].hash
<1>1. ASSUME TypeInv, OwnInv, Next, NEW v \in Versions, row[v] # None, ~shared[v]
      PROVE  Kept(v)
  <2>1. \A r \in Requests : ~Owns(r, v)
    BY <1>1 DEF OwnInv, Own, Progress
  <2>2. ASSUME NEW r \in Requests, Serve(r) PROVE Kept(v)
    <3>1. Spared(v)
      BY <1>1, <2>1, <2>2, SparedByServe
    <3>2. QED
      BY <1>1, <3>1 DEF Spared
  <2>3. ASSUME NEW r \in Requests,
               Commit(r) \/ (\E u \in Versions : Rollback(r, u)) \/ Stop(r)
        PROVE  Kept(v)
    BY <1>1, <2>3 DEF Commit, Rollback, Begin, Stop
  <2>4. CASE Edit
    BY <1>1, <2>4 DEF Edit
  <2>5. QED
    BY <1>1, <2>2, <2>3, <2>4 DEF Next
<1>2. TypeInv /\ OwnInv /\ [Next]_vars =>
        [\A v \in Versions : row[v] # None /\ ~shared[v] => Kept(v)]_vars
  BY <1>1
<1>3. QED
  BY <1>2, Invariants, PTL DEF Spec, RecordsAreFinal

-----------------------------------------------------------------------------
(***************************************************************************)
(* One request at a time: what HEAD names from the commit of a version on. *)
(***************************************************************************)
Serial == \A r, s \in Requests : r = s

\* A request that has moved HEAD, and what it knows of its version.
Headed(q) ==
    /\ q.pc \in {"tag", "insert", "mark"} => head[q.version] = snap[q.version]
    /\ q.pc = "insert" => q.tree[q.version] = snap[q.version]
    /\ q.pc = "update" => deploy[q.version] # None

Told(v) ==
    /\ ~shared[v]
    /\ row[v] # None => row[v].hash[v] = snap[v] /\ (row[v].deployed => deploy[v] # None)
    /\ deploy[v] # None => row[v] # None /\ deploy[v][v] = snap[v]

ToldInv == (\A v \in Versions : Told(v)) /\ (\A r \in Requests : Headed(req[r]))

Late == {"tag", "insert", "mark", "update"}

LEMMA InitTold == Init => ToldInv
<1> SUFFICES ASSUME Init PROVE ToldInv
  OBVIOUS
<1>1. \A r \in Requests : req[r].pc = "idle"
  BY Blank DEF Init
<1>2. \A v \in Versions : row[v] = None /\ deploy[v] = None /\ ~shared[v]
  BY DEF Init, NoVersions
<1>3. QED
  BY <1>1, <1>2 DEF ToldInv, Told, Headed

\* Away from HEAD and from the table: a directory may be filled, unless it is recorded.
LEMMA CalmTold ==
    ASSUME TypeInv, ToldInv, UNCHANGED <<head, row, deploy, shared>>,
           \A v \in Versions : row[v] # None => snap'[v] = snap[v],
           \A s \in Requests : req'[s].pc \notin Late
             \/ (/\ req'[s].pc = req[s].pc /\ req'[s].version = req[s].version
                 /\ req'[s].tree = req[s].tree /\ snap' = snap)
    PROVE  ToldInv'
<1>1. ASSUME NEW v \in Versions PROVE Told(v)'
  BY <1>1 DEF ToldInv, Told
<1>2. ASSUME NEW s \in Requests PROVE Headed(req[s])'
  <2>1. Headed(req[s])
    BY DEF ToldInv
  <2>2. QED
    BY <2>1 DEF Headed, Late
<1>3. QED
  BY <1>1, <1>2 DEF ToldInv

\* Requests that come and go, and other services.
LEMMA OutsideTold ==
    ASSUME TypeInv, ToldInv, NEW r \in Requests,
           \/ Commit(r) \/ (\E v \in Versions : Rollback(r, v)) \/ Stop(r) \/ Edit
           \/ UNCHANGED vars
    PROVE  ToldInv'
<1>1. UNCHANGED <<snap, head, row, deploy, shared>>
  BY DEF Commit, Rollback, Begin, Stop, Edit, vars
<1>2. ASSUME NEW s \in Requests
      PROVE  req'[s].pc \notin Late
             \/ (/\ req'[s].pc = req[s].pc /\ req'[s].version = req[s].version
                 /\ req'[s].tree = req[s].tree)
  <2>1. req[s] \in RequestType
    BY DEF TypeInv
  <2>2. CASE Edit \/ UNCHANGED vars
    BY <2>1, <2>2, RequestFields DEF Edit, vars
  <2>3. CASE Stop(r)
    <3>1. req'[s] = IF s = r THEN Idle ELSE req[s]
      BY <2>3 DEF Stop, Finish, TypeInv
    <3>2. QED
      BY <3>1, Blank DEF Late
  <2>4. CASE Commit(r) \/ \E v \in Versions : Rollback(r, v)
    <3>1. PICK q : Begin(r, q) /\ q.pc \in {"history", "files"}
      <4>1. CASE Commit(r)
        <5> DEFINE q == [Idle EXCEPT !.pc = "history", !.op = "commit"]
        <5>1. Begin(r, q)
          BY <4>1 DEF Commit
        <5>2. q.pc = "history"
          BY DEF Idle
        <5> HIDE DEF q
        <5>3. QED
          BY <5>1, <5>2
      <4>2. ASSUME NEW v \in Versions, Rollback(r, v)
            PROVE  \E q : Begin(r, q) /\ q.pc \in {"history", "files"}
        <5> DEFINE w == IF \A p \in Requests : At(p, "idle") THEN v ELSE None
                   q == [Idle EXCEPT !.pc = "files", !.op = "rollback", !.from = v,
                                     !.restored = w]
        <5>1. Begin(r, q)
          BY <4>2 DEF Rollback
        <5> HIDE DEF w
        <5>2. q.pc = "files"
          BY DEF Idle
        <5> HIDE DEF q
        <5>3. QED
          BY <5>1, <5>2
      <4>3. QED
        BY <2>4, <4>1, <4>2
    <3>2. CASE s = r
      BY <3>1, <3>2 DEF Begin, Late
    <3>3. CASE s # r
      <4>1. req'[s] = [req[s] EXCEPT !.restored = None]
        BY <3>1, <3>3 DEF Begin
      <4>2. QED
        BY <2>1, <4>1, RequestFields
    <3>4. QED
      BY <3>2, <3>3
  <2>5. QED
    BY <2>2, <2>3, <2>4
<1>3. QED
  BY <1>1, <1>2, CalmTold

\* Who goes on to a place before HEAD has moved, alone.
LEMMA EarlyTold ==
    ASSUME Serial, TypeInv, OwnInv, ToldInv, NEW r \in Requests,
           \/ RestoreFiles(r) \/ DropLogic(r) \/ RestoreLogic(r) \/ ReadHistory(r)
           \/ ClearCopy(r) \/ CopyToRepo(r) \/ GitAdd(r) \/ WriteTree(r)
    PROVE  ToldInv'
<1>1. UNCHANGED <<snap, head, row, deploy, shared>>
  BY DEF RestoreFiles, DropLogic, RestoreLogic, ReadHistory, ClearCopy, CopyToRepo, GitAdd,
         WriteTree
<1>2. req'[r].pc \notin Late
  <2>1. req[r] \in RequestType
    BY DEF TypeInv
  <2>2. CASE ReadHistory(r)
    <3>1. req'[r] = [req[r] EXCEPT !.pc = "allocate", !.from = None,
                                   !.seen = {v \in Versions : row[v] # None}]
      BY <2>2 DEF ReadHistory, TypeInv
    <3>2. QED
      BY <2>1, <3>1 DEF RequestType, Late
  <2>3. CASE WriteTree(r)
    <3>1. req'[r] = [req[r] EXCEPT !.pc = "head", !.tree = index]
      BY <2>3 DEF WriteTree, TypeInv
    <3>2. QED
      BY <2>1, <3>1 DEF RequestType, Late
  <2>4. CASE ~ReadHistory(r) /\ ~WriteTree(r)
    <3>1. PICK pc \in {"drop", "put", "history", "again", "add", "commit"} : Goto(r, pc)
      BY <2>4 DEF RestoreFiles, DropLogic, RestoreLogic, ClearCopy, CopyToRepo, GitAdd
    <3>2. pc \in Pc /\ pc \notin Late
      BY <3>1 DEF Pc, Late
    <3>3. PICK q \in RequestType : req' = [req EXCEPT ![r] = q] /\ q.pc = pc
      BY <3>1, <3>2, GotoFacts DEF TypeInv
    <3>4. QED
      BY <3>2, <3>3 DEF TypeInv
  <2>5. QED
    BY <2>2, <2>3, <2>4
<1>3. QED
  BY <1>1, <1>2, CalmTold DEF Serial

\* Nobody shares a tag who is alone.
LEMMA AllocateTold ==
    ASSUME Serial, TypeInv, ToldInv, NEW r \in Requests, Allocate(r)
    PROVE  ToldInv'
<1>1. PICK w \in Versions :
        /\ req' = [req EXCEPT ![r].pc = "mkdir", ![r].version = w, ![r].seen = {}]
        /\ shared' = [shared EXCEPT ![w] =
                        @ \/ \E q \in Requests : At(q, "mkdir") /\ req[q].version = w]
  BY DEF Allocate
<1>2. ~\E q \in Requests : At(q, "mkdir")
  BY DEF Serial, Allocate, At
<1>3. UNCHANGED shared
  <2>1. shared \in [Versions -> BOOLEAN] /\ ~shared[w]
    BY DEF TypeInv, StoresOK, ToldInv, Told
  <2>2. shared' = [shared EXCEPT ![w] = FALSE]
    BY <1>1, <1>2, <2>1
  <2>3. QED
    BY <2>1, <2>2
<1>4. req'[r].pc = "mkdir"
  <2>1. req[r] \in RequestType
    BY DEF TypeInv
  <2>2. req'[r] = [req[r] EXCEPT !.pc = "mkdir", !.version = w, !.seen = {}]
    BY <1>1 DEF TypeInv
  <2>3. QED
    BY <2>1, <2>2 DEF RequestType
<1>5. UNCHANGED <<snap, head, row, deploy>>
  BY DEF Allocate
<1>6. QED
  BY <1>3, <1>4, <1>5, CalmTold DEF Serial, Late

\* The directory that is filled is not recorded.
LEMMA FillTold ==
    ASSUME Serial, TypeInv, OwnInv, ToldInv, NEW r \in Requests, Serve(r),
           \/ MakeDirectories(r) \/ DropSnapshotLogic(r) \/ CopyLogic(r) \/ CopyReport(r)
    PROVE  ToldInv'
<1>1. UNCHANGED <<head, row, deploy, shared>>
  BY DEF MakeDirectories, DropSnapshotLogic, CopyLogic, CopyReport
<1>2. ASSUME NEW v \in Versions, row[v] # None PROVE snap'[v] = snap[v]
  <2>1. ~Owns(r, v)
    BY <1>2 DEF OwnInv, Own, Progress, ToldInv, Told
  <2>2. QED
    BY <2>1, SparedByServe DEF Spared
<1>3. PICK pc \in {"logic", "report", "tree", "copy"} : Goto(r, pc)
  BY DEF MakeDirectories, DropSnapshotLogic, CopyLogic, CopyReport
<1>4. pc \in Pc /\ pc \notin Late
  BY <1>3 DEF Pc, Late
<1>5. PICK q \in RequestType : req' = [req EXCEPT ![r] = q] /\ q.pc = pc
  BY <1>3, <1>4, GotoFacts DEF TypeInv
<1>6. req'[r].pc \notin Late
  BY <1>4, <1>5 DEF TypeInv
<1>7. QED
  BY <1>1, <1>2, <1>6, CalmTold DEF Serial

LEMMA SetHeadTold ==
    ASSUME Serial, TypeInv, OwnInv, ToldInv, NEW r \in Requests, SetHead(r)
    PROVE  ToldInv'
<1>1. /\ req[r].pc = "head" /\ Goto(r, "tag") /\ head' = req[r].tree
      /\ UNCHANGED <<snap, row, deploy, shared>>
  BY DEF SetHead, At
<1>2. PICK w \in Versions : w = req[r].version /\ Owns(r, w)
  BY <1>1, PlaceFacts DEF Owns, Making, Filling, Copying, Committing
<1>3. req[r].tree[w] = snap[w]
  BY <1>1, <1>2 DEF OwnInv, Own, Progress, ToldInv, Told
<1>4. PICK q \in RequestType :
        req' = [req EXCEPT ![r] = q] /\ q.pc = "tag" /\ q.version = req[r].version
  BY <1>1, GotoFacts DEF TypeInv, Pc
<1>5. Headed(q)'
  BY <1>1, <1>2, <1>3, <1>4 DEF Headed
<1>6. req'[r] = q
  BY <1>4 DEF TypeInv
<1>7. \A s \in Requests : Headed(req[s])'
  BY <1>5, <1>6 DEF Serial, Headed
<1>8. \A v \in Versions : Told(v)'
  BY <1>1 DEF ToldInv, Told
<1>9. QED
  BY <1>7, <1>8 DEF ToldInv

LEMMA CreateTagTold ==
    ASSUME Serial, TypeInv, ToldInv, NEW r \in Requests, CreateTag(r)
    PROVE  ToldInv'
<1>1. /\ req[r].pc = "tag" /\ req[r] \in RequestType
      /\ req'[r] = [req[r] EXCEPT !.pc = "insert", !.tree = head]
      /\ UNCHANGED <<snap, head, row, deploy, shared>>
  BY DEF CreateTag, At, TypeInv
<1>2. Headed(req[r])
  BY DEF ToldInv
<1>3. req'[r].pc = "insert" /\ req'[r].version = req[r].version /\ req'[r].tree = head
  BY <1>1 DEF RequestType
<1>4. Headed(req[r])'
  BY <1>1, <1>2, <1>3 DEF Headed
<1>5. \A s \in Requests : Headed(req[s])'
  BY <1>4 DEF Serial
<1>6. \A v \in Versions : Told(v)'
  BY <1>1 DEF ToldInv, Told
<1>7. QED
  BY <1>5, <1>6 DEF ToldInv

LEMMA WriteMetadataTold ==
    ASSUME Serial, TypeInv, ToldInv, NEW r \in Requests, WriteMetadata(r)
    PROVE  ToldInv'
<1>1. req[r].pc = "insert" /\ UNCHANGED <<snap, head, deploy, shared>>
  BY DEF WriteMetadata, At
<1>2. PICK w \in Versions : w = req[r].version
  BY <1>1, PlaceFacts DEF Making, Filling, Copying, Committing
<1> DEFINE d == [hash |-> req[r].tree, deployed |-> FALSE]
<1>3. row' = [row EXCEPT ![w] = d] /\ row[w] = None
  BY <1>2 DEF WriteMetadata
<1>4. row \in [Versions -> Maybe(Record)]
  BY DEF TypeInv, StoresOK
<1>5. Headed(req[r]) /\ head[w] = snap[w] /\ req[r].tree[w] = snap[w]
  BY <1>1, <1>2 DEF ToldInv, Headed
<1>6. deploy[w] = None
  BY <1>3 DEF ToldInv, Told
<1>7. ASSUME NEW v \in Versions PROVE Told(v)'
  <2>1. Told(v)
    BY DEF ToldInv
  <2>2. CASE v = w
    <3>1. row'[v] = d
      BY <1>3, <1>4, <2>2
    <3>2. d.hash = req[r].tree /\ d.deployed = FALSE
      OBVIOUS
    <3> HIDE DEF d
    <3>3. QED
      BY <1>1, <1>5, <1>6, <2>1, <2>2, <3>1, <3>2 DEF Told
  <2>3. CASE v # w
    <3>1. row'[v] = row[v]
      BY <1>3, <1>4, <2>3
    <3>2. QED
      BY <1>1, <2>1, <3>1 DEF Told
  <2>4. QED
    BY <2>2, <2>3
<1>8. Headed(req[r])'
  <2>1. CASE Finish(r)
    <3>1. req'[r] = Idle
      BY <2>1 DEF Finish, TypeInv
    <3>2. QED
      BY <3>1, Blank DEF Headed
  <2>2. CASE ~Finish(r)
    <3>1. req'[r] = [Idle EXCEPT !.pc = "mark", !.version = w]
      BY <1>2, <2>2 DEF WriteMetadata, TypeInv
    <3>2. req'[r].pc = "mark" /\ req'[r].version = w
      BY <3>1 DEF Idle
    <3>3. QED
      BY <1>1, <1>5, <3>2 DEF Headed
  <2>3. QED
    BY <2>1, <2>2
<1>9. QED
  BY <1>7, <1>8 DEF Serial, ToldInv

LEMMA DeployTold ==
    ASSUME Serial, TypeInv, ToldInv, NEW r \in Requests,
           CreateDeploymentTag(r) \/ MarkDeployed(r)
    PROVE  ToldInv'
<1>1. UNCHANGED <<snap, head, shared>> /\ req[r].pc \in Done
  BY DEF CreateDeploymentTag, MarkDeployed, At, Done
<1>2. PICK w \in Versions : w = req[r].version /\ row[w] # None
  BY <1>1, PlaceFacts DEF TypeInv, RequestOK
<1>3. Headed(req[r]) /\ Told(w)
  BY DEF ToldInv
<1>4. CASE CreateDeploymentTag(r)
  <2> DEFINE t == IF deploy[w] = None THEN head ELSE deploy[w]
  <2>1. deploy' = [deploy EXCEPT ![w] = t] /\ UNCHANGED row /\ req[r].pc = "mark"
    BY <1>2, <1>4 DEF CreateDeploymentTag, At
  <2>2. t[w] = snap[w] /\ t # None
    <3>1. head # None
      BY TreeFields DEF TypeInv, StoresOK
    <3>2. head[w] = snap[w]
      BY <1>2, <1>3, <2>1 DEF Headed
    <3>3. QED
      BY <1>3, <3>1, <3>2 DEF Told
  <2> HIDE DEF t
  <2>3. deploy'[w] = t /\ \A v \in Versions : v # w => deploy'[v] = deploy[v]
    BY <2>1 DEF TypeInv, StoresOK
  <2>4. ASSUME NEW v \in Versions PROVE Told(v)'
    <3>1. Told(v)
      BY DEF ToldInv
    <3>2. QED
      BY <1>1, <1>2, <2>1, <2>2, <2>3, <3>1 DEF Told
  <2>5. req'[r].pc = "update" /\ req'[r].version = w
    <3>1. Goto(r, "update") /\ "update" \in Pc
      BY <1>4 DEF CreateDeploymentTag, Pc
    <3>2. PICK q \in RequestType :
            req' = [req EXCEPT ![r] = q] /\ q.pc = "update" /\ q.version = req[r].version
      BY <3>1, GotoFacts DEF TypeInv
    <3>3. QED
      BY <1>2, <3>2 DEF TypeInv
  <2>6. Headed(req[r])'
    BY <2>2, <2>3, <2>5 DEF Headed
  <2>7. QED
    BY <2>4, <2>6 DEF Serial, ToldInv
<1>5. CASE MarkDeployed(r)
  <2> DEFINE d == [row[w] EXCEPT !.deployed = TRUE]
  <2>1. row[w] \in Record /\ row \in [Versions -> Maybe(Record)]
    BY <1>2, MaybeFacts DEF TypeInv, StoresOK
  <2>2. d.hash = row[w].hash /\ d # None
    BY <2>1, RecordFields, NoneAssumption
  <2>3. row' = [row EXCEPT ![w] = d] /\ UNCHANGED deploy /\ req[r].pc = "update"
    BY <1>2, <1>5 DEF MarkDeployed, At
  <2> HIDE DEF d
  <2>4. row'[w] = d /\ \A v \in Versions : v # w => row'[v] = row[v]
    BY <2>1, <2>3
  <2>5. deploy[w] # None
    BY <1>2, <1>3, <2>3 DEF Headed
  <2>6. ASSUME NEW v \in Versions PROVE Told(v)'
    <3>1. Told(v)
      BY DEF ToldInv
    <3>2. QED
      BY <1>1, <1>2, <2>2, <2>3, <2>4, <2>5, <3>1 DEF Told
  <2>7. req'[r] = Idle
    BY <1>5 DEF MarkDeployed, Finish, TypeInv
  <2>8. Headed(req[r])'
    BY <2>7, Blank DEF Headed
  <2>9. QED
    BY <2>6, <2>8 DEF Serial, ToldInv
<1>6. QED
  BY <1>4, <1>5

LEMMA NextTold == Serial /\ TypeInv /\ OwnInv /\ ToldInv /\ [Next]_vars => ToldInv'
<1> SUFFICES ASSUME Serial, TypeInv, OwnInv, ToldInv, [Next]_vars PROVE ToldInv'
  OBVIOUS
<1>1. ASSUME NEW r \in Requests, Serve(r) PROVE ToldInv'
  <2>1. CASE RestoreFiles(r) \/ DropLogic(r) \/ RestoreLogic(r) \/ ReadHistory(r)
             \/ ClearCopy(r) \/ CopyToRepo(r) \/ GitAdd(r) \/ WriteTree(r)
    BY <2>1, EarlyTold
  <2>2. CASE MakeDirectories(r) \/ DropSnapshotLogic(r) \/ CopyLogic(r) \/ CopyReport(r)
    BY <1>1, <2>2, FillTold
  <2>3. CASE Allocate(r) \/ SetHead(r) \/ CreateTag(r) \/ WriteMetadata(r)
             \/ CreateDeploymentTag(r) \/ MarkDeployed(r)
    BY <2>3, AllocateTold, SetHeadTold, CreateTagTold, WriteMetadataTold, DeployTold
  <2>4. QED
    BY <1>1, <2>1, <2>2, <2>3 DEF Serve
<1>2. ASSUME NEW r \in Requests,
             \/ Commit(r) \/ (\E v \in Versions : Rollback(r, v)) \/ Stop(r) \/ Edit
             \/ UNCHANGED vars
      PROVE  ToldInv'
  BY <1>2, OutsideTold
<1>3. CASE Requests = {}
  <2>1. UNCHANGED <<snap, head, row, deploy, shared>>
    BY <1>3 DEF Next, Edit, vars
  <2>2. QED
    BY <1>3, <2>1 DEF ToldInv, Told
<1>4. QED
  BY <1>1, <1>2, <1>3 DEF Next

\* With one request at a time, for any number of versions and artifacts and whatever failed
\* or died before: the hash in the record of a version names a commit that holds just the
\* version's directory, and so does the deployment tag of one that is marked deployed.
THEOREM CommitsHold == ASSUME Serial PROVE Spec => []CommitsHoldTheVersion
<1>1. ToldInv => CommitsHoldTheVersion
  BY DEF ToldInv, Told, CommitsHoldTheVersion
<1>2. Init => ToldInv
  BY InitTold
<1>3. TypeInv /\ OwnInv /\ ToldInv /\ [Next]_vars => ToldInv'
  BY NextTold
<1>4. QED
  BY <1>1, <1>2, <1>3, Invariants, PTL DEF Spec

-----------------------------------------------------------------------------
(***************************************************************************)
(* A rollback that nobody disturbs.                                        *)
(***************************************************************************)
Restored == {"history", "allocate", "mkdir", "logic", "tree", "report"}
Written == {"copy", "again", "add", "commit", "head", "tag", "insert"}

\* What a rollback to version v has brought back so far: to the workspace, then to the
\* directory of the version that records it.
Brought(q, v) ==
    LET old == snap[v]
        new == snap[q.version] IN
    /\ old # None
    /\ q.pc \in Restoring \cup Restored \cup Written
    /\ q.pc \in Restoring => q.from = v
    /\ q.pc \in Making => q.version # v
    /\ q.pc \in {"drop", "put"} \cup Restored /\ old.report # None => work.plain = old.report
    /\ q.pc \in Restored /\ old.logic \in Logic => work.logic = old.logic
    /\ q.pc \in Written \cup {"report"} /\ old.logic \in Logic => new.logic = old.logic
    /\ q.pc \in Written /\ old.report # None /\ work.preferred = None =>
         new.report = old.report

Undisturbed(r) ==
    req[r].restored # None =>
      /\ req[r].restored \in Versions
      /\ \A s \in Requests \ {r} : req[s].pc = "idle"
      /\ Brought(req[r], req[r].restored)

BackInv == \A r \in Requests : Undisturbed(r)

LEMMA InitBack == Init => BackInv
<1> SUFFICES ASSUME Init PROVE BackInv
  OBVIOUS
<1>1. \A r \in Requests : req[r].restored = None
  BY DEF Init, Idle
<1>2. QED
  BY <1>1 DEF BackInv, Undisturbed

\* Whoever comes, goes or writes an artifact ends the claim, or makes it.
LEMMA OutsideBack ==
    ASSUME TypeInv, BackInv, NEW r \in Requests,
           \/ Commit(r) \/ (\E v \in Versions : Rollback(r, v)) \/ Stop(r) \/ Edit
           \/ UNCHANGED vars
    PROVE  BackInv'
<1>1. CASE UNCHANGED vars
  BY <1>1 DEF vars, BackInv, Undisturbed, Brought
<1>2. CASE Edit
  <2>1. \A s \in Requests : req'[s].restored = None
    BY <1>2 DEF Edit, TypeInv, RequestType
  <2>2. QED
    BY <2>1 DEF BackInv, Undisturbed
<1>3. CASE Stop(r)
  <2>1. \A s \in Requests : req'[s] = IF s = r THEN Idle ELSE req[s]
    BY <1>3 DEF Stop, Finish, TypeInv
  <2>2. UNCHANGED <<work, snap>> /\ Idle.restored = None
    BY <1>3 DEF Stop, Idle
  <2>3. ASSUME NEW s \in Requests, req'[s].restored # None PROVE Undisturbed(s)'
    <3>1. s # r /\ req'[s] = req[s] /\ Undisturbed(s)
      BY <2>1, <2>2, <2>3 DEF BackInv
    <3>2. QED
      BY <2>1, <2>2, <3>1, Blank DEF Undisturbed, Brought
  <2>4. QED
    BY <2>3 DEF BackInv, Undisturbed
<1>4. ASSUME NEW q, Begin(r, q), q.restored = None PROVE BackInv'
  <2>1. \A s \in Requests : req'[s].restored = None
    <3>1. \A s \in Requests : req'[s] = IF s = r THEN q ELSE [req[s] EXCEPT !.restored = None]
      BY <1>4 DEF Begin
    <3>2. \A s \in Requests : req[s] \in RequestType
      BY DEF TypeInv
    <3>3. QED
      BY <1>4, <3>1, <3>2 DEF RequestType
  <2>2. QED
    BY <2>1 DEF BackInv, Undisturbed
<1>5. CASE Commit(r)
  BY <1>4, <1>5 DEF Commit, Idle
<1>6. ASSUME NEW v \in Versions, Rollback(r, v) PROVE BackInv'
  <2>1. PICK w : w = IF \A p \in Requests : At(p, "idle") THEN v ELSE None
    OBVIOUS
  <2>2. w = v \/ w = None
    BY <2>1
  <2>3. w # None => \A p \in Requests : req[p].pc = "idle"
    BY <2>1 DEF At
  <2>4. PICK n : n = [Idle EXCEPT !.pc = "files", !.op = "rollback", !.from = v,
                                  !.restored = w]
    OBVIOUS
  <2>5. Begin(r, n) /\ snap[v] # None
    BY <1>6, <2>1, <2>4 DEF Rollback
  <2>6. n.pc = "files" /\ n.from = v /\ n.restored = w
    BY <2>4 DEF Idle
  <2>7. CASE w = None
    BY <1>4, <2>5, <2>6, <2>7
  <2>8. CASE w # None
    <3>1. req'[r] = n /\ UNCHANGED <<work, snap>>
      BY <2>5 DEF Begin
    <3>2. \A s \in Requests : s # r =>
            req'[s] = [req[s] EXCEPT !.restored = None] /\ req[s] \in RequestType
      BY <2>5 DEF Begin, TypeInv
    <3>3. \A s \in Requests : s # r => req'[s].restored = None /\ req'[s].pc = "idle"
      BY <2>3, <2>8, <3>2 DEF RequestType
    <3>4. Brought(n, v)'
      BY <2>5, <2>6, <3>1
      DEF Brought, Restoring, Restored, Written, Making, Filling, Copying, Committing
    <3>5. Undisturbed(r)'
      BY <2>2, <2>6, <2>8, <3>1, <3>3, <3>4 DEF Undisturbed, Brought
    <3>6. QED
      BY <3>3, <3>5 DEF BackInv, Undisturbed
  <2>9. QED
    BY <2>7, <2>8
<1>7. QED
  BY <1>1, <1>2, <1>3, <1>5, <1>6

\* A step of the one who rolls back: nobody else is at work.
LEMMA AloneBack ==
    ASSUME TypeInv, BackInv, NEW r \in Requests, req[r].pc # "idle",
           NEW q \in RequestType, req' = [req EXCEPT ![r] = q],
           q.restored = None \/ q.restored = req[r].restored,
           \A v \in Versions :
             q.restored = v /\ v # None /\ Brought(req[r], v) => Brought(q, v)'
    PROVE  BackInv'
<1>1. \A s \in Requests : req'[s] = IF s = r THEN q ELSE req[s]
  BY DEF TypeInv
<1>2. ASSUME NEW s \in Requests, s # r, req[s].restored # None PROVE FALSE
  BY <1>2 DEF BackInv, Undisturbed
<1>3. ASSUME q.restored # None PROVE Undisturbed(r)'
  <2>1. PICK v \in Versions : v = q.restored /\ v = req[r].restored
    BY <1>3 DEF BackInv, Undisturbed
  <2>2. Undisturbed(r)
    BY DEF BackInv
  <2>3. Brought(q, v)'
    BY <1>3, <2>1, <2>2 DEF Undisturbed
  <2>4. req'[r] = q
    BY <1>1
  <2>5. Brought(req[r], req[r].restored)'
    BY <2>1, <2>3, <2>4 DEF Brought
  <2>6. \A s \in Requests \ {r} : req'[s].pc = "idle"
    BY <1>1, <1>3, <2>1, <2>2 DEF Undisturbed
  <2>7. QED
    BY <2>1, <2>4, <2>5, <2>6 DEF Undisturbed
<1>4. QED
  BY <1>1, <1>2, <1>3 DEF BackInv, Undisturbed

LEMMA GotoKeeps ==
    ASSUME TypeInv, NEW r \in Requests, NEW pc \in Pc, Goto(r, pc)
    PROVE  \E q \in RequestType :
             /\ req' = [req EXCEPT ![r] = q]
             /\ q.pc = pc /\ q.from = req[r].from /\ q.version = req[r].version
             /\ q.restored = req[r].restored
<1> DEFINE q == [req[r] EXCEPT !.pc = pc]
<1>1. req[r] \in RequestType
  BY DEF TypeInv
<1>2. q \in RequestType
  BY <1>1 DEF RequestType
<1>3. req' = [req EXCEPT ![r] = q]
  BY DEF Goto
<1>4. /\ q.pc = pc /\ q.from = req[r].from /\ q.version = req[r].version
      /\ q.restored = req[r].restored
  BY <1>1 DEF RequestType
<1>5. QED
  BY <1>2, <1>3, <1>4

LEMMA BackGoto ==
    ASSUME TypeInv, BackInv, NEW r \in Requests, req[r].pc # "idle",
           NEW pc \in Pc, Goto(r, pc),
           \A q, v : /\ q.pc = pc /\ q.from = req[r].from /\ q.version = req[r].version
                     /\ v \in Versions /\ Brought(req[r], v)
                     => Brought(q, v)'
    PROVE  BackInv'
<1>1. PICK q \in RequestType :
        /\ req' = [req EXCEPT ![r] = q]
        /\ q.pc = pc /\ q.from = req[r].from /\ q.version = req[r].version
        /\ q.restored = req[r].restored
  BY GotoKeeps
<1>2. \A v \in Versions : Brought(req[r], v) => Brought(q, v)'
  BY <1>1
<1>3. QED
  BY <1>1, <1>2, AloneBack

LEMMA RestoreBack ==
    ASSUME TypeInv, BackInv, NEW r \in Requests,
           RestoreFiles(r) \/ DropLogic(r) \/ RestoreLogic(r)
    PROVE  BackInv'
<1>1. UNCHANGED snap /\ work \in Work /\ req[r].pc # "idle"
  BY DEF RestoreFiles, DropLogic, RestoreLogic, At, TypeInv, StoresOK
<1>2. {"drop", "put", "history"} \subseteq Pc
  BY DEF Pc
<1>3. CASE RestoreFiles(r)
  <2>1. req[r].pc = "files" /\ Goto(r, "drop")
    BY <1>3 DEF RestoreFiles, At
  <2>2. ASSUME NEW q, NEW v \in Versions, Brought(req[r], v), q.pc = "drop",
               q.from = req[r].from
        PROVE  Brought(q, v)'
    <3>1. q.from = v /\ snap[v] # None
      BY <2>1, <2>2 DEF Brought, Restoring
    <3>2. snap[v].report # None => work'.plain = snap[v].report
      BY <1>1, <1>3, <2>2, <3>1 DEF RestoreFiles, Work
    <3>3. QED
      BY <1>1, <2>2, <3>1, <3>2
      DEF Brought, Restoring, Restored, Written, Making, Filling, Copying, Committing
  <2>3. QED
    BY <1>1, <1>2, <2>1, <2>2, BackGoto
<1>4. CASE DropLogic(r)
  <2>1. req[r].pc = "drop"
    BY <1>4 DEF DropLogic, At
  <2>2. PICK pc \in {"put", "history"} :
          /\ Goto(r, pc) /\ work'.plain = work.plain
          /\ pc = "history" => snap[req[r].from].logic = None
    BY <1>1, <1>4 DEF DropLogic, Work
  <2>3. ASSUME NEW q, NEW v \in Versions, Brought(req[r], v), q.pc = pc,
               q.from = req[r].from
        PROVE  Brought(q, v)'
    BY <1>1, <2>1, <2>2, <2>3, NoneAssumption
    DEF Brought, Restoring, Restored, Written, Making, Filling, Copying, Committing
  <2>4. QED
    BY <1>1, <1>2, <2>2, <2>3, BackGoto
<1>5. CASE RestoreLogic(r)
  <2>1. req[r].pc = "put" /\ Goto(r, "history")
    BY <1>5 DEF RestoreLogic, At
  <2>2. work'.plain = work.plain
        /\ (snap[req[r].from].logic \in Logic => work'.logic = snap[req[r].from].logic)
    BY <1>1, <1>5, MarkAssumption DEF RestoreLogic, Work
  <2>3. ASSUME NEW q, NEW v \in Versions, Brought(req[r], v), q.pc = "history",
               q.from = req[r].from
        PROVE  Brought(q, v)'
    BY <1>1, <2>1, <2>2, <2>3
    DEF Brought, Restoring, Restored, Written, Making, Filling, Copying, Committing
  <2>4. QED
    BY <1>1, <1>2, <2>1, <2>3, BackGoto
<1>6. QED
  BY <1>3, <1>4, <1>5

LEMMA TakeTagBack ==
    ASSUME TypeInv, BackInv, NEW r \in Requests, ReadHistory(r) \/ Allocate(r)
    PROVE  BackInv'
<1>1. UNCHANGED <<work, snap>> /\ req[r].pc # "idle" /\ req[r] \in RequestType
  BY DEF ReadHistory, Allocate, At, TypeInv
<1>2. CASE ReadHistory(r)
  <2> DEFINE n == [req[r] EXCEPT !.pc = "allocate", !.from = None,
                                 !.seen = {v \in Versions : row[v] # None}]
  <2>1. req' = [req EXCEPT ![r] = n] /\ req[r].pc = "history"
    BY <1>2 DEF ReadHistory, At
  <2>2. PICK q \in RequestType : q = n /\ q.pc = "allocate" /\ q.restored = req[r].restored
    <3>1. n \in RequestType /\ n.pc = "allocate" /\ n.restored = req[r].restored
      BY <1>1, MaybeFacts DEF RequestType, Pc
    <3> HIDE DEF n
    <3>2. QED
      BY <3>1
  <2> HIDE DEF n
  <2>3. \A v \in Versions : Brought(req[r], v) => Brought(q, v)'
    BY <1>1, <2>1, <2>2
    DEF Brought, Restoring, Restored, Written, Making, Filling, Copying, Committing
  <2>4. QED
    BY <1>1, <2>1, <2>2, <2>3, AloneBack
<1>3. CASE Allocate(r)
  <2>1. PICK w \in Versions :
          /\ snap[w] = None
          /\ req' = [req EXCEPT ![r].pc = "mkdir", ![r].version = w, ![r].seen = {}]
    BY <1>3 DEF Allocate, NextVersionTag
  <2> DEFINE n == [req[r] EXCEPT !.pc = "mkdir", !.version = w, !.seen = {}]
  <2>2. req' = [req EXCEPT ![r] = n] /\ req[r].pc = "allocate"
    BY <1>3, <2>1 DEF Allocate, At
  <2>3. PICK q \in RequestType :
          q = n /\ q.pc = "mkdir" /\ q.version = w /\ q.restored = req[r].restored
    <3>1. n \in RequestType /\ n.pc = "mkdir" /\ n.version = w
          /\ n.restored = req[r].restored
      BY <1>1, MaybeFacts DEF RequestType, Pc
    <3> HIDE DEF n
    <3>2. QED
      BY <3>1
  <2> HIDE DEF n
  <2>4. \A v \in Versions : Brought(req[r], v) => Brought(q, v)'
    BY <1>1, <2>1, <2>2, <2>3
    DEF Brought, Restoring, Restored, Written, Making, Filling, Copying, Committing
  <2>5. QED
    BY <1>1, <2>2, <2>3, <2>4, AloneBack
<1>4. QED
  BY <1>2, <1>3

\* The new directory is filled from what came back; the one restored is another.
LEMMA FillBack ==
    ASSUME TypeInv, BackInv, NEW r \in Requests,
           \/ MakeDirectories(r) \/ DropSnapshotLogic(r) \/ CopyLogic(r) \/ CopyReport(r)
    PROVE  BackInv'
<1>1. UNCHANGED work /\ work \in Work /\ req[r].pc # "idle"
  BY DEF MakeDirectories, DropSnapshotLogic, CopyLogic, CopyReport, At, TypeInv, StoresOK
<1>2. PICK w \in Versions : w = req[r].version
  BY PlaceFacts DEF MakeDirectories, DropSnapshotLogic, CopyLogic, CopyReport, At, Making,
                    Filling, Copying, Committing
<1>3. snap \in [Versions -> Maybe(Snapshot)]
  BY DEF TypeInv, StoresOK, Tree
<1>4. ASSUME NEW v \in Versions, v # w PROVE snap'[v] = snap[v]
  BY <1>2, <1>3, <1>4 DEF MakeDirectories, DropSnapshotLogic, CopyLogic, CopyReport
<1>5. {"logic", "tree", "report", "copy"} \subseteq Pc
  BY DEF Pc
<1>6. ASSUME NEW v, Brought(req[r], v), req[r].pc \in Making PROVE w # v
  BY <1>2, <1>6 DEF Brought
<1>7. CASE MakeDirectories(r)
  <2>1. req[r].pc = "mkdir" /\ Goto(r, "logic")
    BY <1>7 DEF MakeDirectories, At
  <2>2. ASSUME NEW q, NEW v \in Versions, Brought(req[r], v), q.pc = "logic",
               q.version = w
        PROVE  Brought(q, v)'
    <3>1. w # v /\ snap'[v] = snap[v]
      BY <1>4, <1>6, <2>1, <2>2 DEF Making
    <3>2. QED
      BY <1>1, <2>1, <2>2, <3>1
      DEF Brought, Restoring, Restored, Written, Making, Filling, Copying, Committing
  <2>3. QED
    BY <1>1, <1>2, <1>5, <2>1, <2>2, BackGoto
<1>8. CASE DropSnapshotLogic(r)
  <2>1. req[r].pc = "logic"
    BY <1>8 DEF DropSnapshotLogic, At
  <2>2. PICK pc \in {"tree", "report"} :
          Goto(r, pc) /\ (pc = "report" => work.logic = None)
    BY <1>8 DEF DropSnapshotLogic
  <2>3. ASSUME NEW q, NEW v \in Versions, Brought(req[r], v), q.pc = pc, q.version = w
        PROVE  Brought(q, v)'
    <3>1. w # v /\ snap'[v] = snap[v]
      BY <1>4, <1>6, <2>1, <2>3 DEF Making, Filling
    <3>2. snap[v].logic \in Logic => work.logic = snap[v].logic
      BY <2>1, <2>3 DEF Brought, Restored
    <3>3. pc = "report" => snap[v].logic \notin Logic
      BY <2>2, <3>2, NoneAssumption
    <3>4. QED
      BY <1>1, <2>1, <2>3, <3>1, <3>3
      DEF Brought, Restoring, Restored, Written, Making, Filling, Copying, Committing
  <2>4. QED
    BY <1>1, <1>2, <1>5, <2>2, <2>3, BackGoto
<1>9. CASE CopyLogic(r)
  <2>1. req[r].pc = "tree" /\ Goto(r, "report")
    BY <1>9 DEF CopyLogic, At
  <2>2. PICK s \in Snapshot : s = snap[w]
    BY <1>2, <2>1, PlaceFacts DEF Filling
  <2> DEFINE l == IF work.logic = None THEN "empty" ELSE work.logic
             n == [s EXCEPT !.logic = l]
  <2>3. snap'[w] = n
    BY <1>2, <1>3, <1>9, <2>2 DEF CopyLogic
  <2>4. n.logic = l
    <3> HIDE DEF l
    <3>1. QED
      BY DEF Snapshot
  <2>5. work.logic # None => snap'[w].logic = work.logic
    BY <2>3, <2>4
  <2> HIDE DEF l, n
  <2>6. ASSUME NEW q, NEW v \in Versions, Brought(req[r], v), q.pc = "report",
               q.version = w
        PROVE  Brought(q, v)'
    <3>1. w # v /\ snap'[v] = snap[v]
      BY <1>4, <1>6, <2>1, <2>6 DEF Making, Filling
    <3>2. snap[v].logic \in Logic => snap'[w].logic = snap[v].logic
      BY <2>1, <2>5, <2>6, NoneAssumption DEF Brought, Restored
    <3>3. QED
      BY <1>1, <2>1, <2>6, <3>1, <3>2
      DEF Brought, Restoring, Restored, Written, Making, Filling, Copying, Committing
  <2>7. QED
    BY <1>1, <1>2, <1>5, <2>1, <2>6, BackGoto
<1>10. CASE CopyReport(r)
  <2>1. req[r].pc = "report" /\ Goto(r, "copy")
    BY <1>10 DEF CopyReport, At
  <2>2. PICK s \in Snapshot : s = snap[w]
    BY <1>2, <2>1, PlaceFacts DEF Filling, Copying
  <2> DEFINE new == IF work.preferred # None THEN work.preferred ELSE work.plain
             n == [s EXCEPT !.report = new]
  <2>3. snap'[w] = IF new = None THEN s ELSE n
    BY <1>2, <1>3, <1>10, <2>2 DEF CopyReport
  <2>4. n.logic = s.logic /\ n.report = new
    <3> HIDE DEF new
    <3>1. QED
      BY DEF Snapshot
  <2>5. snap'[w].logic = snap[w].logic
    BY <2>2, <2>3, <2>4
  <2>6. work.preferred = None /\ work.plain # None => snap'[w].report = work.plain
    BY <2>3, <2>4
  <2> HIDE DEF new, n
  <2>7. ASSUME NEW q, NEW v \in Versions, Brought(req[r], v), q.pc = "copy",
               q.version = w
        PROVE  Brought(q, v)'
    <3>1. w # v /\ snap'[v] = snap[v]
      BY <1>4, <1>6, <2>1, <2>7 DEF Making, Filling, Copying
    <3>2. snap[v].logic \in Logic => snap'[w].logic = snap[v].logic
      BY <1>2, <2>1, <2>5, <2>7 DEF Brought
    <3>3. snap[v].report # None /\ work.preferred = None =>
            snap'[w].report = snap[v].report
      BY <2>1, <2>6, <2>7 DEF Brought, Restored
    <3>4. QED
      BY <1>1, <2>1, <2>7, <3>1, <3>2, <3>3
      DEF Brought, Restoring, Restored, Written, Making, Filling, Copying, Committing
  <2>8. QED
    BY <1>1, <1>2, <1>5, <2>1, <2>7, BackGoto
<1>11. QED
  BY <1>7, <1>8, <1>9, <1>10

\* What is written stays written.
LEMMA WrittenBack ==
    ASSUME NEW q, NEW p, NEW v, Brought(p, v), UNCHANGED <<work, snap>>,
           p.pc \in Written, q.pc \in Written, q.version = p.version
    PROVE  Brought(q, v)'
<1>1. p.pc \in Making /\ p.version # v /\ q.pc \notin Restoring \cup Restored
  BY DEF Brought, Restoring, Restored, Written, Making, Filling, Copying, Committing
<1>2. snap[v].logic \in Logic => snap[p.version].logic = snap[v].logic
  BY DEF Brought
<1>3. snap[v].report # None /\ work.preferred = None =>
        snap[p.version].report = snap[v].report
  BY DEF Brought
<1>4. QED
  BY <1>1, <1>2, <1>3 DEF Brought, Restoring, Restored, Written

LEMMA CommitBack ==
    ASSUME TypeInv, BackInv, NEW r \in Requests,
           \/ ClearCopy(r) \/ CopyToRepo(r) \/ GitAdd(r) \/ WriteTree(r) \/ SetHead(r)
           \/ CreateTag(r)
    PROVE  BackInv'
<1>1. UNCHANGED <<work, snap>> /\ req[r].pc \in Written /\ req[r] \in RequestType
  BY DEF ClearCopy, CopyToRepo, GitAdd, WriteTree, SetHead, CreateTag, At, TypeInv, Written
<1>2. req[r].pc # "idle"
  BY <1>1 DEF Written
<1>3. PICK q \in RequestType :
        /\ req' = [req EXCEPT ![r] = q] /\ q.pc \in Written
        /\ q.version = req[r].version /\ q.restored = req[r].restored
  <2>1. CASE WriteTree(r)
    <3> DEFINE n == [req[r] EXCEPT !.pc = "head", !.tree = index]
    <3>1. req' = [req EXCEPT ![r] = n] /\ index \in Tree
      BY <2>1 DEF WriteTree, TypeInv, StoresOK
    <3>2. n \in RequestType /\ n.pc = "head" /\ n.version = req[r].version
          /\ n.restored = req[r].restored
      BY <1>1, <3>1 DEF RequestType, Pc
    <3> HIDE DEF n
    <3>3. QED
      BY <3>1, <3>2 DEF Written
  <2>2. CASE CreateTag(r)
    <3> DEFINE n == [req[r] EXCEPT !.pc = "insert", !.tree = head]
    <3>1. req' = [req EXCEPT ![r] = n] /\ head \in Tree
      BY <2>2 DEF CreateTag, TypeInv, StoresOK
    <3>2. n \in RequestType /\ n.pc = "insert" /\ n.version = req[r].version
          /\ n.restored = req[r].restored
      BY <1>1, <3>1 DEF RequestType, Pc
    <3> HIDE DEF n
    <3>3. QED
      BY <3>1, <3>2 DEF Written
  <2>3. CASE ~WriteTree(r) /\ ~CreateTag(r)
    <3>1. PICK pc \in {"again", "add", "commit", "tag"} : Goto(r, pc)
      BY <2>3 DEF ClearCopy, CopyToRepo, GitAdd, SetHead
    <3>2. pc \in Pc /\ pc \in Written
      BY <3>1 DEF Pc, Written
    <3>3. QED
      BY <3>1, <3>2, GotoKeeps
  <2>4. QED
    BY <2>1, <2>2, <2>3
<1>4. \A v \in Versions : Brought(req[r], v) => Brought(q, v)'
  BY <1>1, <1>3, WrittenBack
<1>5. QED
  BY <1>2, <1>3, <1>4, AloneBack

LEMMA RecordBack ==
    ASSUME TypeInv, BackInv, NEW r \in Requests,
           WriteMetadata(r) \/ CreateDeploymentTag(r) \/ MarkDeployed(r)
    PROVE  BackInv'
<1>1. req[r].pc # "idle"
  BY DEF WriteMetadata, CreateDeploymentTag, MarkDeployed, At
<1>2. CASE Finish(r)
  <2>1. req' = [req EXCEPT ![r] = Idle] /\ Idle.restored = None
    BY <1>2 DEF Finish, Idle
  <2>2. QED
    BY <1>1, <2>1, Blank, AloneBack
<1>3. CASE WriteMetadata(r) /\ ~Finish(r)
  <2> DEFINE n == [Idle EXCEPT !.pc = "mark", !.version = req[r].version]
  <2>1. req' = [req EXCEPT ![r] = n]
    BY <1>3 DEF WriteMetadata
  <2>2. req[r].version \in Maybe(Versions)
    BY RequestFields DEF TypeInv
  <2>3. n \in RequestType /\ n.restored = None
    BY <2>2, Blank DEF RequestType, Pc, Idle
  <2> HIDE DEF n
  <2>4. QED
    BY <1>1, <2>1, <2>3, AloneBack
<1>4. CASE CreateDeploymentTag(r)
  <2>1. req[r].pc = "mark" /\ Goto(r, "update") /\ "update" \in Pc
    BY <1>4 DEF CreateDeploymentTag, At, Pc
  <2>2. \A v : ~Brought(req[r], v)
    BY <2>1 DEF Brought, Restoring, Restored, Written
  <2>3. QED
    BY <1>1, <2>1, <2>2, BackGoto
<1>5. QED
  BY <1>2, <1>3, <1>4 DEF MarkDeployed

LEMMA NextBack == TypeInv /\ BackInv /\ [Next]_vars => BackInv'
<1> SUFFICES ASSUME TypeInv, BackInv, [Next]_vars PROVE BackInv'
  OBVIOUS
<1>1. ASSUME NEW r \in Requests, Serve(r) PROVE BackInv'
  <2>1. CASE RestoreFiles(r) \/ DropLogic(r) \/ RestoreLogic(r)
    BY <2>1, RestoreBack
  <2>2. CASE ReadHistory(r) \/ Allocate(r)
    BY <2>2, TakeTagBack
  <2>3. CASE MakeDirectories(r) \/ DropSnapshotLogic(r) \/ CopyLogic(r) \/ CopyReport(r)
    BY <2>3, FillBack
  <2>4. CASE ClearCopy(r) \/ CopyToRepo(r) \/ GitAdd(r) \/ WriteTree(r) \/ SetHead(r)
             \/ CreateTag(r)
    BY <2>4, CommitBack
  <2>5. CASE WriteMetadata(r) \/ CreateDeploymentTag(r) \/ MarkDeployed(r)
    BY <2>5, RecordBack
  <2>6. QED
    BY <1>1, <2>1, <2>2, <2>3, <2>4, <2>5 DEF Serve
<1>2. ASSUME NEW r \in Requests,
             \/ Commit(r) \/ (\E v \in Versions : Rollback(r, v)) \/ Stop(r) \/ Edit
             \/ UNCHANGED vars
      PROVE  BackInv'
  BY <1>2, OutsideBack
<1>3. CASE Requests = {}
  BY <1>3 DEF BackInv
<1>4. QED
  BY <1>1, <1>2, <1>3 DEF Next

\* For any number of requests, versions and artifacts: a rollback that nobody disturbs
\* records a version with the logic of the one it restored, also if that one was never
\* recorded itself, and with its report if it had one and no preferred file hides it.
THEOREM RollbackBrings == Spec => RollbackBringsBack
<1>1. ASSUME TypeInv, BackInv, Next, NEW r \in Requests, At(r, "insert"),
             req[r].restored # None
      PROVE  LET old == snap[req[r].restored]
                 new == snap[req[r].version] IN
             /\ old.logic \in Logic => new.logic = old.logic
             /\ old.report # None /\ work.preferred = None => new.report = old.report
  BY <1>1 DEF BackInv, Undisturbed, Brought, At, Written
<1>2. TypeInv /\ BackInv /\ [Next]_vars =>
        [\A r \in Requests :
           At(r, "insert") /\ req[r].restored # None /\ row' # row =>
              LET old == snap[req[r].restored]
                  new == snap[req[r].version] IN
              /\ old.logic \in Logic => new.logic = old.logic
              /\ old.report # None /\ work.preferred = None =>
                   new.report = old.report]_vars
  BY <1>1
<1>3. QED
  BY <1>2, InitType, NextType, InitBack, NextBack, PTL DEF Spec, RollbackBringsBack
=============================================================================
