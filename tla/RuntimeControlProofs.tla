-------------------------- MODULE RuntimeControlProofs --------------------------
(***************************************************************************)
(* What is proved of deploying to the runtime and controlling its process, *)
(* for any projects, requests, processes and ST files.                     *)
(***************************************************************************)
EXTENDS MCRuntimeControl, TLAPS

Op == {"none", "deploy", "handoff", "start", "stop", "restart"}

\* What Maybe adds to a set.
LEMMA MaybeFacts ==
    ASSUME NEW S
    PROVE  None \in Maybe(S) /\ S \subseteq Maybe(S) /\ Maybe(S) \subseteq S \cup {None}
  BY DEF Maybe

\* The constant records have their types.
LEMMA Blank ==
    /\ NoFiles \in Program /\ Nothing \in SourceType /\ Idle \in RequestType
    /\ Ended \in ProcessType
<1>1. NoFiles \in Program
  BY DEF NoFiles, Program
<1>2. Nothing \in SourceType
  BY <1>1 DEF Nothing, SourceType
<1>3. Idle \in RequestType /\ Ended \in ProcessType
  BY <1>2, MaybeFacts DEF Idle, Ended, RequestType, ProcessType, Pc
<1>4. QED
  BY <1>1, <1>2, <1>3

\* Fields of a request, and its record after fields were assigned.
LEMMA RequestFields ==
    ASSUME NEW q \in RequestType
    PROVE  /\ q.pc \in Pc /\ q.op \in Op /\ q.proj \in Maybe(Projects) /\ q.ok \in BOOLEAN
           /\ q.row \in Maybe(RowType) /\ q.took \in SourceType
           /\ \A pc \in Pc : [q EXCEPT !.pc = pc] \in RequestType
           /\ \A pc \in Pc, p \in Maybe(Projects) :
                [q EXCEPT !.pc = pc, !.proj = p] \in RequestType
           /\ \A pc \in Pc, b \in BOOLEAN : [q EXCEPT !.pc = pc, !.ok = b] \in RequestType
           /\ \A pc \in Pc, b \in BOOLEAN : [q EXCEPT !.ok = b, !.pc = pc] \in RequestType
           /\ \A pc \in Pc, b \in BOOLEAN, s \in SourceType :
                [q EXCEPT !.pc = pc, !.ok = b, !.took = s] \in RequestType
           /\ \A pc \in Pc, p \in Maybe(Projects), x \in Maybe(RowType) :
                [q EXCEPT !.pc = pc, !.proj = p, !.row = x] \in RequestType
  BY DEF RequestType, Op

\* Fields of a build directory, and its record after a field was assigned.
LEMMA DirFields ==
    ASSUME NEW d \in DirType
    PROVE  /\ d.files \in Program /\ d.bundle \in Maybe(Program) /\ d.gen \in Maybe(Program)
           /\ d.stub \in BOOLEAN /\ d.bin \in Maybe(Program)
           /\ \A x \in Maybe(Program) : [d EXCEPT !.gen = x] \in DirType
           /\ \A x \in Maybe(Program) : [d EXCEPT !.bin = x] \in DirType
           /\ [d EXCEPT !.stub = FALSE] \in DirType
           /\ \A f \in Program, b \in Maybe(Program) :
                [d EXCEPT !.files = f, !.stub = TRUE, !.bundle = b] \in DirType
  BY DEF DirType

\* Fields of a process, and its record after it was told to terminate.
LEMMA ProcessFields ==
    ASSUME NEW x \in ProcessType
    PROVE  /\ x.state \in {"running", "told", "ended"} /\ x.proj \in Maybe(Projects)
           /\ x.program \in Maybe(Program)
           /\ [x EXCEPT !.state = "told"] \in ProcessType
  BY DEF ProcessType

\* Fields of a row, and its record after its status was assigned.
LEMMA RowFields ==
    ASSUME NEW x \in RowType
    PROVE  /\ [x EXCEPT !.deploy = "running"] \in RowType
           /\ [x EXCEPT !.deploy = "stopped"] \in RowType
  BY DEF RowType

\* Files laid over files are files.
LEMMA OverProgram ==
    ASSUME NEW f \in Program, NEW g \in Program
    PROVE  Over(f, g) \in Program
  BY DEF Over, Program

(***************************************************************************)
(* Every variable keeps its type, and a process that was started always    *)
(* has a directory to be started from again.  Inductive with it: a request *)
(* that works on a project has one, one that writes a row has read one,    *)
(* and whoever is past the choice of the directory finds one.              *)
(***************************************************************************)
Building == {"clear", "compile", "generate", "clean", "make", "apply", "start", "spawn"}
Working == Building \cup {"prepare", "id", "dir", "record", "write"}

RequestOK(q) ==
    /\ q \in RequestType
    /\ q.pc \in Working => q.proj \in Projects
    /\ q.pc = "write" => q.row \in RowType

RequestInv ==
    /\ req \in [Requests -> RequestType]
    /\ \A r \in Requests : RequestOK(req[r])

DirInv ==
    /\ handle # None => activeDir # None
    /\ \A r \in Requests : req[r].pc \in Building \cup {"again"} => activeDir # None

TypeInv == TypeOK /\ RequestInv /\ DirInv

\* A whole record is assigned to a request.
LEMMA AssignRequest ==
    ASSUME RequestInv, NEW r \in Requests, NEW q, RequestOK(q), req' = [req EXCEPT ![r] = q]
    PROVE  RequestInv'
  BY DEF RequestInv, RequestOK

\* A request that works on a project goes on with it.
LEMMA GotoTypes ==
    ASSUME RequestInv, NEW r \in Requests, NEW pc \in Pc \ {"write"}, Goto(r, pc),
           req[r].pc \in Working
    PROVE  /\ RequestInv' /\ req'[r].pc = pc /\ req'[r].proj = req[r].proj
           /\ \A x \in Requests \ {r} : req'[x] = req[x]
<1> DEFINE q == [req[r] EXCEPT !.pc = pc]
<1>a. req[r] \in RequestType
  BY DEF RequestInv
<1>1. q \in RequestType /\ q.pc = pc /\ q.proj = req[r].proj
  BY <1>a, RequestFields DEF RequestType
<1>2. req' = [req EXCEPT ![r] = q]
  BY DEF Goto
<1>3. req[r].proj \in Projects
  BY DEF RequestInv, RequestOK
<1> HIDE DEF q
<1>4. RequestOK(q)
  BY <1>1, <1>3 DEF RequestOK
<1>5. QED
  BY <1>1, <1>2, <1>4, AssignRequest DEF RequestInv

\* A request that ends is idle.
LEMMA FinishTypes ==
    ASSUME RequestInv, NEW r \in Requests, Finish(r)
    PROVE  RequestInv' /\ req'[r].pc = "idle" /\ \A x \in Requests \ {r} : req'[x] = req[x]
<1>1. RequestOK(Idle) /\ Idle.pc = "idle"
  BY Blank DEF RequestOK, Idle, Working, Building
<1>2. QED
  BY <1>1, AssignRequest DEF Finish, RequestInv

\* A request whose step failed ends, or goes on to the row.
LEMMA FailTypes ==
    ASSUME RequestInv, NEW r \in Requests, Fail(r), req[r].pc \in Working
    PROVE  /\ RequestInv' /\ req'[r].pc \in {"idle", "record", "read"}
           /\ \A x \in Requests \ {r} : req'[x] = req[x]
<1>1. CASE Finish(r)
  BY <1>1, FinishTypes
<1>2. CASE Goto(r, "record") \/ Goto(r, "read")
  BY <1>2, GotoTypes DEF Pc
<1>3. QED
  BY <1>1, <1>2 DEF Fail

\* A request begins.
LEMMA BeginTypes ==
    ASSUME RequestInv, NEW r \in Requests, NEW op \in Op, NEW p \in Maybe(Projects),
           NEW pc \in Pc \ {"write"}, pc \in Working => p \in Projects, Begin(r, op, p, pc)
    PROVE  RequestInv' /\ req'[r].pc = pc /\ \A x \in Requests \ {r} : req'[x] = req[x]
<1> DEFINE q == [Idle EXCEPT !.pc = pc, !.op = op, !.proj = p]
<1>1. q \in RequestType /\ q.pc = pc /\ q.proj = p
  BY Blank DEF RequestType, Op
<1>2. req' = [req EXCEPT ![r] = q]
  BY DEF Begin
<1> HIDE DEF q
<1>3. RequestOK(q)
  BY <1>1 DEF RequestOK
<1>4. QED
  BY <1>1, <1>2, <1>3, AssignRequest DEF RequestInv

\* After a step that moves one request and forgets no directory.
LEMMA KeepsDir ==
    ASSUME DirInv, NEW r \in Requests, \A x \in Requests \ {r} : req'[x] = req[x],
           activeDir # None => activeDir' # None,
           handle' # None => handle # None \/ activeDir # None,
           req'[r].pc \in Building \cup {"again"} => activeDir' # None
    PROVE  DirInv'
  BY DEF DirInv

\* A process is told to terminate.
LEMMA TerminateTypes ==
    ASSUME TypeOK, HandleAlive, Terminate
    PROVE  /\ process' \in [Processes -> ProcessType]
           /\ handle \in Processes
           /\ process'[handle].state = "told"
           /\ process'[handle].proj = process[handle].proj
           /\ process'[handle].program = process[handle].program
           /\ \A x \in Processes \ {handle} : process'[x] = process[x]
<1>1. handle \in Processes
  BY MaybeFacts DEF HandleAlive, TypeOK
<1>2. process[handle] \in ProcessType
  BY <1>1 DEF TypeOK
<1> DEFINE y == [process[handle] EXCEPT !.state = "told"]
<1>3. /\ y \in ProcessType /\ y.state = "told" /\ y.proj = process[handle].proj
      /\ y.program = process[handle].program
  BY <1>2, ProcessFields DEF ProcessType
<1>4. process' = [process EXCEPT ![handle] = y]
  BY DEF Terminate
<1> HIDE DEF y
<1>5. QED
  BY <1>1, <1>3, <1>4 DEF TypeOK

\* The steps of a deploy up to the start of its process keep the types.
LEMMA TypeDeploySteps ==
    ASSUME TypeInv, NEW r \in Requests,
           \/ Prepare(r) \/ SetActiveId(r) \/ SetActiveDir(r) \/ ClearGenerated(r)
           \/ CompileSt(r) \/ GenerateC(r) \/ MakeClean(r) \/ Make(r) \/ ApplyIo(r)
    PROVE  TypeInv'
<1> DEFINE p == req[r].proj
<1>q. req[r] \in RequestType /\ (req[r].pc \in Working => p \in Projects)
  BY DEF TypeInv, RequestInv, RequestOK
<1>d. p \in Projects => dir[p] \in DirType
  BY DEF TypeInv, TypeOK
<1>b. ASSUME p \in Projects
      PROVE  Bundle(p) \in Program
  BY <1>b, <1>d, DirFields, MaybeFacts DEF Bundle
<1>1. CASE Prepare(r)
  <2> DEFINE found == source[p].files # NoFiles
             q == [req[r] EXCEPT !.pc = "id", !.ok = found, !.took = source[p]]
  <2>1. p \in Projects /\ source[p] \in SourceType
    BY <1>1, <1>q DEF Prepare, At, Working, TypeInv, TypeOK
  <2>b. found \in BOOLEAN
    OBVIOUS
  <2>3. req' = [req EXCEPT ![r] = q]
    BY <1>1 DEF Prepare
  <2> HIDE DEF found
  <2>2. q \in RequestType /\ q.pc = "id" /\ q.proj = p
    <3>1. q \in RequestType
      BY <1>q, <2>1, <2>b, RequestFields DEF Pc
    <3>2. QED
      BY <1>q, <3>1 DEF RequestType
  <2> HIDE DEF q
  <2>4. RequestInv' /\ req'[r].pc = "id" /\ \A x \in Requests \ {r} : req'[x] = req[x]
    BY <2>1, <2>2, <2>3, AssignRequest DEF RequestOK, TypeInv, RequestInv
  <2>5. dir' \in [Projects -> DirType]
    <3> DEFINE b == IF source[p].bundled THEN source[p].files ELSE None
               f == Over(source[p].files, dir[p].files)
    <3>1. source[p].files \in Program /\ f \in Program /\ b \in Maybe(Program)
      BY <1>d, <2>1, DirFields, OverProgram, MaybeFacts DEF SourceType
    <3>2. [dir[p] EXCEPT !.files = f, !.stub = TRUE, !.bundle = b] \in DirType
      BY <1>d, <2>1, <3>1, DirFields
    <3>3. \/ dir' = dir
          \/ dir' = [dir EXCEPT ![p] = [dir[p] EXCEPT !.files = f, !.stub = TRUE,
                                                      !.bundle = b]]
      BY <1>1 DEF Prepare
    <3> HIDE DEF f, b
    <3>4. QED
      BY <3>2, <3>3 DEF TypeInv, TypeOK
  <2>6. DirInv'
    BY <1>1, <2>4, KeepsDir DEF Prepare, TypeInv, Building
  <2>7. QED
    BY <1>1, <2>4, <2>5, <2>6 DEF Prepare, TypeInv, TypeOK, RequestInv
<1>2. CASE SetActiveId(r)
  <2>1. /\ RequestInv' /\ p \in Projects /\ req'[r].pc = "dir"
        /\ \A x \in Requests \ {r} : req'[x] = req[x]
    BY <1>2, <1>q, GotoTypes DEF SetActiveId, At, TypeInv, Working, Pc
  <2>2. DirInv'
    BY <1>2, <2>1, KeepsDir DEF SetActiveId, TypeInv, Building
  <2>3. QED
    BY <1>2, <2>1, <2>2, MaybeFacts DEF SetActiveId, TypeInv, TypeOK, RequestInv
<1>3. CASE SetActiveDir(r)
  <2> DEFINE next == IF req[r].ok THEN "clear" ELSE "record"
             q == [req[r] EXCEPT !.pc = next, !.ok = FALSE]
  <2>1. p \in Projects
    BY <1>3, <1>q DEF SetActiveDir, At, Working
  <2>n. next \in Pc /\ next # "write"
    BY DEF Pc
  <2> HIDE DEF next
  <2>2. q \in RequestType /\ q.pc = next /\ q.proj = p
    <3>1. q \in RequestType
      BY <1>q, <2>n, RequestFields
    <3>2. QED
      BY <1>q, <3>1 DEF RequestType
  <2>3. req' = [req EXCEPT ![r] = q]
    BY <1>3 DEF SetActiveDir, next
  <2> HIDE DEF q
  <2>4. RequestInv' /\ \A x \in Requests \ {r} : req'[x] = req[x]
    BY <2>1, <2>n, <2>2, <2>3, AssignRequest DEF RequestOK, TypeInv, RequestInv
  <2>5. activeDir' = p /\ p # None
    BY <1>3, <2>1, NoneAssumption DEF SetActiveDir
  <2>6. DirInv'
    BY <1>3, <2>4, <2>5, KeepsDir DEF SetActiveDir, TypeInv
  <2>7. QED
    BY <1>3, <2>1, <2>4, <2>6, MaybeFacts DEF SetActiveDir, TypeInv, TypeOK, RequestInv
<1>4. CASE ClearGenerated(r)
  <2>1. /\ RequestInv' /\ p \in Projects /\ req'[r].pc = "compile"
        /\ \A x \in Requests \ {r} : req'[x] = req[x]
    BY <1>4, <1>q, GotoTypes DEF ClearGenerated, At, TypeInv, Working, Building, Pc
  <2>2. [dir[p] EXCEPT !.gen = None] \in DirType
    BY <1>d, <2>1, DirFields, MaybeFacts
  <2>3. DirInv'
    BY <1>4, <2>1, KeepsDir DEF ClearGenerated, At, TypeInv, DirInv, Building
  <2>4. QED
    BY <1>4, <2>1, <2>2, <2>3 DEF ClearGenerated, TypeInv, TypeOK, RequestInv
<1>5. CASE CompileSt(r)
  <2>1. Goto(r, "generate") \/ Fail(r)
    BY <1>5 DEF CompileSt
  <2>2. /\ RequestInv' /\ p \in Projects
        /\ req'[r].pc \in {"generate", "idle", "record", "read"}
        /\ \A x \in Requests \ {r} : req'[x] = req[x]
    BY <1>5, <1>q, <2>1, GotoTypes, FailTypes DEF CompileSt, At, TypeInv, Working, Building, Pc
  <2>3. [dir[p] EXCEPT !.gen = Bundle(p)] \in DirType
    BY <1>d, <1>b, <2>2, DirFields, MaybeFacts
  <2>4. DirInv'
    BY <1>5, <2>2, KeepsDir DEF CompileSt, At, TypeInv, DirInv, Building
  <2>5. QED
    BY <1>5, <2>2, <2>3, <2>4 DEF CompileSt, TypeInv, TypeOK, RequestInv
<1>6. CASE GenerateC(r)
  <2>1. Goto(r, "clean") \/ Fail(r)
    BY <1>6 DEF GenerateC
  <2>2. /\ RequestInv' /\ p \in Projects
        /\ req'[r].pc \in {"clean", "idle", "record", "read"}
        /\ \A x \in Requests \ {r} : req'[x] = req[x]
    BY <1>6, <1>q, <2>1, GotoTypes, FailTypes DEF GenerateC, At, TypeInv, Working, Building, Pc
  <2>3. [dir[p] EXCEPT !.stub = FALSE] \in DirType
    BY <1>d, <2>2, DirFields
  <2>4. DirInv'
    BY <1>6, <2>2, KeepsDir DEF GenerateC, At, TypeInv, DirInv, Building
  <2>5. QED
    BY <1>6, <2>2, <2>3, <2>4 DEF GenerateC, TypeInv, TypeOK, RequestInv
<1>7. CASE MakeClean(r)
  <2>1. /\ RequestInv' /\ p \in Projects /\ req'[r].pc = "make"
        /\ \A x \in Requests \ {r} : req'[x] = req[x]
    BY <1>7, <1>q, GotoTypes DEF MakeClean, At, TypeInv, Working, Building, Pc
  <2>2. [dir[p] EXCEPT !.bin = None] \in DirType
    BY <1>d, <2>1, DirFields, MaybeFacts
  <2>3. DirInv'
    BY <1>7, <2>1, KeepsDir DEF MakeClean, At, TypeInv, DirInv, Building
  <2>4. QED
    BY <1>7, <2>1, <2>2, <2>3 DEF MakeClean, TypeInv, TypeOK, RequestInv
<1>8. CASE Make(r)
  <2>1. Goto(r, "apply") \/ Fail(r)
    BY <1>8 DEF Make
  <2>2. /\ RequestInv' /\ p \in Projects
        /\ req'[r].pc \in {"apply", "idle", "record", "read"}
        /\ \A x \in Requests \ {r} : req'[x] = req[x]
    BY <1>8, <1>q, <2>1, GotoTypes, FailTypes DEF Make, At, TypeInv, Working, Building, Pc
  <2>3. [dir[p] EXCEPT !.bin = dir[p].gen] \in DirType
    BY <1>d, <2>2, DirFields
  <2>4. DirInv'
    BY <1>8, <2>2, KeepsDir DEF Make, At, TypeInv, DirInv, Building
  <2>5. QED
    BY <1>8, <2>2, <2>3, <2>4 DEF Make, TypeInv, TypeOK, RequestInv
<1>9. CASE ApplyIo(r)
  <2>1. Goto(r, "start") \/ Fail(r)
    BY <1>9 DEF ApplyIo
  <2>2. /\ RequestInv'
        /\ req'[r].pc \in {"start", "idle", "record", "read"}
        /\ \A x \in Requests \ {r} : req'[x] = req[x]
    BY <1>9, <1>q, <2>1, GotoTypes, FailTypes DEF ApplyIo, At, TypeInv, Working, Building, Pc
  <2>3. DirInv'
    BY <1>9, <2>2, KeepsDir DEF ApplyIo, At, TypeInv, DirInv, Building
  <2>4. QED
    BY <1>9, <2>2, <2>3 DEF ApplyIo, TypeInv, TypeOK, RequestInv
<1>10. QED
  BY <1>1, <1>2, <1>3, <1>4, <1>5, <1>6, <1>7, <1>8, <1>9

\* Starting a process keeps the types.
LEMMA TypeStartSteps ==
    ASSUME TypeInv, NEW r \in Requests, StopBeforeStart(r) \/ Spawn(r) \/ StartAgain(r)
    PROVE  TypeInv'
<1> DEFINE p == req[r].proj
<1>q. req[r] \in RequestType /\ (req[r].pc \in Working => p \in Projects)
  BY DEF TypeInv, RequestInv, RequestOK
<1>1. CASE StopBeforeStart(r)
  <2>1. Goto(r, "spawn") \/ Fail(r)
    BY <1>1 DEF StopBeforeStart
  <2>2. /\ RequestInv'
        /\ req'[r].pc \in {"spawn", "idle", "record", "read"}
        /\ \A x \in Requests \ {r} : req'[x] = req[x]
    BY <1>1, <1>q, <2>1, GotoTypes, FailTypes
       DEF StopBeforeStart, At, TypeInv, Working, Building, Pc
  <2>3. process' \in [Processes -> ProcessType]
    BY <1>1, TerminateTypes DEF StopBeforeStart, TypeInv, TypeOK
  <2>4. DirInv'
    BY <1>1, <2>2, KeepsDir DEF StopBeforeStart, At, TypeInv, DirInv, Building
  <2>5. QED
    BY <1>1, <2>2, <2>3, <2>4 DEF StopBeforeStart, TypeInv, TypeOK, RequestInv
<1>2. CASE Spawn(r)
  <2>p. p \in Projects /\ activeDir # None /\ req[r].pc = "spawn"
    BY <1>2, <1>q DEF Spawn, At, Working, Building, TypeInv, DirInv
  <2> DEFINE next == IF Deploying(r) THEN "record" ELSE "read"
             q == [req[r] EXCEPT !.ok = TRUE, !.pc = next]
  <2>n. next \in {"record", "read"}
    OBVIOUS
  <2>1. Fail(r) \/ Finish(r) \/ req' = [req EXCEPT ![r] = q]
    BY <1>2 DEF Spawn
  <2> HIDE DEF next
  <2>2. q \in RequestType /\ q.pc = next /\ q.proj = p
    <3>1. q \in RequestType
      BY <1>q, <2>n, RequestFields DEF Pc
    <3>2. QED
      BY <1>q, <3>1 DEF RequestType
  <2> HIDE DEF q
  <2>3. /\ RequestInv' /\ req'[r].pc \in {"idle", "record", "read"}
        /\ \A x \in Requests \ {r} : req'[x] = req[x]
    <3>1. CASE Fail(r)
      BY <2>p, <3>1, FailTypes DEF TypeInv, Working, Building
    <3>2. CASE Finish(r)
      BY <3>2, FinishTypes DEF TypeInv
    <3>3. CASE req' = [req EXCEPT ![r] = q]
      BY <2>p, <2>n, <2>2, <3>3, AssignRequest DEF TypeInv, RequestInv, RequestOK
    <3>4. QED
      BY <2>1, <3>1, <3>2, <3>3
  <2>4. process' \in [Processes -> ProcessType] /\ handle' \in Maybe(Processes)
    <3>1. CASE UNCHANGED <<process, handle>>
      BY <3>1 DEF TypeInv, TypeOK
    <3>2. CASE ~UNCHANGED <<process, handle>>
      <4> DEFINE y == [state |-> "running", proj |-> p, program |-> dir[p].bin]
      <4>1. y \in ProcessType
        BY <2>p, DirFields, MaybeFacts DEF ProcessType, TypeInv, TypeOK
      <4>2. PICK x \in Processes : process' = [process EXCEPT ![x] = y] /\ handle' = x
        BY <1>2, <3>2 DEF Spawn
      <4> HIDE DEF y
      <4>3. QED
        BY <4>1, <4>2, MaybeFacts DEF TypeInv, TypeOK
    <3>3. QED
      BY <3>1, <3>2
  <2>5. DirInv'
    BY <1>2, <2>p, <2>3, KeepsDir DEF Spawn, TypeInv, Building
  <2>6. QED
    BY <1>2, <2>3, <2>4, <2>5 DEF Spawn, TypeInv, TypeOK, RequestInv
<1>3. CASE StartAgain(r)
  <2> DEFINE q == [req[r] EXCEPT !.pc = "start", !.proj = activeDir]
  <2>1. activeDir \in Projects /\ activeDir \in Maybe(Projects)
    BY <1>3, MaybeFacts DEF StartAgain, At, TypeInv, TypeOK, DirInv
  <2>2. q \in RequestType /\ q.pc = "start" /\ q.proj = activeDir
    <3>1. q \in RequestType
      BY <1>q, <2>1, RequestFields DEF Pc
    <3>2. QED
      BY <1>q, <3>1 DEF RequestType
  <2>3. req' = [req EXCEPT ![r] = q]
    BY <1>3 DEF StartAgain
  <2> HIDE DEF q
  <2>4. RequestInv' /\ \A x \in Requests \ {r} : req'[x] = req[x]
    BY <2>1, <2>2, <2>3, AssignRequest DEF RequestOK, TypeInv, RequestInv
  <2>5. DirInv'
    BY <1>3, <2>1, <2>4, NoneAssumption, KeepsDir DEF StartAgain, TypeInv
  <2>6. QED
    BY <1>3, <2>4, <2>5 DEF StartAgain, TypeInv, TypeOK, RequestInv
<1>4. QED
  BY <1>1, <1>2, <1>3

\* The steps on the row keep the types.
LEMMA TypeRowSteps ==
    ASSUME TypeInv, NEW r \in Requests, RecordDeploy(r) \/ ReadRow(r) \/ WriteRow(r)
    PROVE  TypeInv'
<1> DEFINE p == req[r].proj
<1>q. RequestOK(req[r]) /\ req[r] \in RequestType
  BY DEF TypeInv, RequestInv, RequestOK
<1>1. CASE RecordDeploy(r)
  <2>1. RequestInv' /\ req'[r].pc = "idle" /\ \A x \in Requests \ {r} : req'[x] = req[x]
    BY <1>1, FinishTypes DEF RecordDeploy, TypeInv
  <2>2. outcome' \in [Projects -> OutcomeType]
    <3> DEFINE o == [verdict |-> Said(req[r].ok),
                     took |-> IF req[r].ok THEN req[r].took ELSE Nothing]
    <3>1. o \in OutcomeType
      BY <1>q, RequestFields, Blank, MaybeFacts DEF OutcomeType, Said, Verdict
    <3>2. outcome' = [outcome EXCEPT ![p] = o]
      BY <1>1 DEF RecordDeploy
    <3> HIDE DEF o
    <3>3. QED
      BY <3>1, <3>2 DEF TypeInv, TypeOK
  <2>3. store' \in [Projects -> Maybe(RowType)]
    <3> DEFINE x == [deploy |-> IF req[r].ok THEN "deployed" ELSE "failed",
                     validation |-> Said(req[r].ok)]
    <3>1. x \in RowType
      BY DEF RowType, Said, Verdict
    <3>2. store' = store \/ store' = [store EXCEPT ![p] = x]
      BY <1>1 DEF RecordDeploy
    <3> HIDE DEF x
    <3>3. QED
      BY <3>1, <3>2, MaybeFacts DEF TypeInv, TypeOK
  <2>4. DirInv'
    BY <1>1, <2>1, KeepsDir DEF RecordDeploy, TypeInv, Building
  <2>5. QED
    BY <1>1, <2>1, <2>2, <2>3, <2>4 DEF RecordDeploy, TypeInv, TypeOK, RequestInv
<1>2. CASE ReadRow(r)
  <2>1. /\ RequestInv' /\ req'[r].pc \in {"idle", "write"}
        /\ \A x \in Requests \ {r} : req'[x] = req[x]
    <3>1. CASE activeId # None /\ store[activeId] # None
      <4> DEFINE x == store[activeId]
                 q == [req[r] EXCEPT !.pc = "write", !.proj = activeId, !.row = x]
      <4>1. activeId \in Projects /\ activeId \in Maybe(Projects)
        BY <3>1, MaybeFacts DEF TypeInv, TypeOK
      <4>2. x \in RowType /\ x \in Maybe(RowType)
        BY <3>1, <4>1, MaybeFacts DEF TypeInv, TypeOK
      <4>3. req' = [req EXCEPT ![r] = q]
        BY <1>2, <3>1 DEF ReadRow
      <4> HIDE DEF x
      <4>4. q \in RequestType /\ q.pc = "write" /\ q.proj = activeId /\ q.row = x
        <5>1. q \in RequestType
          BY <1>q, <4>1, <4>2, RequestFields DEF Pc
        <5>2. QED
          BY <1>q, <5>1 DEF RequestType
      <4> HIDE DEF q
      <4>5. QED
        BY <4>1, <4>2, <4>3, <4>4, AssignRequest DEF RequestOK, TypeInv, RequestInv
    <3>2. CASE ~(activeId # None /\ store[activeId] # None)
      BY <1>2, <3>2, FinishTypes DEF ReadRow, TypeInv
    <3>3. QED
      BY <3>1, <3>2
  <2>2. DirInv'
    BY <1>2, <2>1, KeepsDir DEF ReadRow, TypeInv, Building
  <2>3. QED
    BY <1>2, <2>1, <2>2 DEF ReadRow, TypeInv, TypeOK, RequestInv
<1>3. CASE WriteRow(r)
  <2>1. RequestInv' /\ req'[r].pc = "idle" /\ \A x \in Requests \ {r} : req'[x] = req[x]
    BY <1>3, FinishTypes DEF WriteRow, TypeInv
  <2>2. req[r].row \in RowType
    BY <1>3, <1>q DEF RequestOK, WriteRow, At
  <2>3. store' \in [Projects -> Maybe(RowType)]
    <3>1. \E x \in RowType : store' = [store EXCEPT ![p] = x]
      BY <1>3, <2>2, RowFields DEF WriteRow
    <3>2. QED
      BY <3>1, MaybeFacts DEF TypeInv, TypeOK
  <2>4. DirInv'
    BY <1>3, <2>1, KeepsDir DEF WriteRow, TypeInv, Building
  <2>5. QED
    BY <1>3, <2>1, <2>3, <2>4 DEF WriteRow, TypeInv, TypeOK, RequestInv
<1>4. QED
  BY <1>1, <1>2, <1>3

\* A request that begins keeps the types.
LEMMA TypeArrive ==
    ASSUME TypeInv, NEW r \in Requests,
           \/ \E p \in Projects : Deploy(r, p)
           \/ Start(r) \/ Stop(r) \/ Restart(r)
    PROVE  TypeInv'
<1>1. ASSUME NEW p \in Projects, Deploy(r, p)
      PROVE  TypeInv'
  <2>p. p \in Maybe(Projects)
    BY MaybeFacts
  <2>1. /\ RequestInv' /\ req'[r].pc \in {"prepare", "record"}
        /\ \A x \in Requests \ {r} : req'[x] = req[x]
    <3>1. PICK pc \in {"prepare", "record"} :
            Begin(r, "deploy", p, pc) \/ Begin(r, "handoff", p, pc)
      BY <1>1 DEF Deploy
    <3>2. CASE Begin(r, "deploy", p, pc)
      BY <2>p, <3>2, BeginTypes DEF TypeInv, Op, Pc
    <3>3. CASE Begin(r, "handoff", p, pc)
      BY <2>p, <3>3, BeginTypes DEF TypeInv, Op, Pc
    <3>4. QED
      BY <3>1, <3>2, <3>3
  <2>2. DirInv'
    BY <1>1, <2>1, KeepsDir DEF Deploy, TypeInv, Building
  <2>3. QED
    BY <1>1, <2>1, <2>2 DEF Deploy, TypeInv, TypeOK, RequestInv
<1>2. CASE Start(r)
  <2>1. /\ RequestInv' /\ req'[r].pc \in {"read", "start"}
        /\ req'[r].pc = "start" => activeDir # None
        /\ \A x \in Requests \ {r} : req'[x] = req[x]
    <3>1. CASE activeDir = None
      BY <1>2, <3>1, MaybeFacts, BeginTypes DEF Start, TypeInv, Op, Pc, Working, Building
    <3>2. CASE activeDir # None
      BY <1>2, <3>2, MaybeFacts, BeginTypes DEF Start, TypeInv, TypeOK, Op, Pc
    <3>3. QED
      BY <3>1, <3>2
  <2>2. DirInv'
    BY <1>2, <2>1, KeepsDir DEF Start, TypeInv, Building
  <2>3. QED
    BY <1>2, <2>1, <2>2 DEF Start, TypeInv, TypeOK, RequestInv
<1>3. CASE Stop(r)
  <2> DEFINE b == HandleAlive
             q == [Idle EXCEPT !.pc = "read", !.op = "stop", !.ok = b]
  <2>1. req' = [req EXCEPT ![r] = q] /\ b \in BOOLEAN
    BY <1>3 DEF Stop, HandleAlive, Alive
  <2> HIDE DEF b
  <2>2. q \in RequestType /\ q.pc = "read"
    BY <2>1, Blank DEF RequestType, Pc
  <2> HIDE DEF q
  <2>3. /\ RequestInv' /\ req'[r].pc = "read"
        /\ \A x \in Requests \ {r} : req'[x] = req[x]
    BY <2>1, <2>2, AssignRequest DEF RequestOK, TypeInv, RequestInv, Working, Building
  <2>4. process' \in [Processes -> ProcessType]
    BY <1>3, TerminateTypes DEF Stop, TypeInv, TypeOK
  <2>5. DirInv'
    BY <1>3, <2>3, KeepsDir DEF Stop, TypeInv, Building
  <2>6. QED
    BY <1>3, <2>3, <2>4, <2>5 DEF Stop, TypeInv, TypeOK, RequestInv
<1>4. CASE Restart(r)
  <2>1. /\ RequestInv' /\ req'[r].pc = "again"
        /\ \A x \in Requests \ {r} : req'[x] = req[x]
    BY <1>4, MaybeFacts, BeginTypes DEF Restart, TypeInv, Op, Pc, Working, Building
  <2>2. process' \in [Processes -> ProcessType]
    BY <1>4, TerminateTypes DEF Restart, TypeInv, TypeOK
  <2>3. DirInv'
    BY <1>4, <2>1, KeepsDir DEF Restart, HandleAlive, TypeInv, DirInv
  <2>4. QED
    BY <1>4, <2>1, <2>2, <2>3 DEF Restart, TypeInv, TypeOK, RequestInv
<1>5. QED
  BY <1>1, <1>2, <1>3, <1>4

\* What happens around the requests keeps the types.
LEMMA TypeEnvironment ==
    ASSUME TypeInv,
           \/ \E p \in Projects : Generate(p) \/ Export(p)
           \/ \E x \in Processes : End(x)
           \/ Crash
           \/ UNCHANGED vars
    PROVE  TypeInv'
<1>1. ASSUME NEW p \in Projects, Generate(p)
      PROVE  TypeInv'
  <2>1. PICK s \in SourceType : source' = [source EXCEPT ![p] = s]
    <3>1. PICK f \in Program, b \in Bundling :
            source' = [source EXCEPT ![p] = IF f = NoFiles THEN Nothing
                                            ELSE [files |-> f, bundled |-> b]]
      BY <1>1 DEF Generate
    <3>2. [files |-> f, bundled |-> b] \in SourceType
      BY BundlingAssumption DEF SourceType
    <3>3. QED
      BY <3>1, <3>2, Blank
  <2>2. QED
    BY <1>1, <2>1 DEF Generate, TypeInv, TypeOK, RequestInv, DirInv
<1>2. ASSUME NEW p \in Projects, Export(p)
      PROVE  TypeInv'
  <2>1. source[p].files \in Maybe(Program)
    BY MaybeFacts DEF TypeInv, TypeOK, SourceType
  <2>2. QED
    BY <1>2, <2>1 DEF Export, TypeInv, TypeOK, RequestInv, DirInv
<1>3. ASSUME NEW x \in Processes, End(x)
      PROVE  TypeInv'
  BY <1>3, Blank DEF End, TypeInv, TypeOK, RequestInv, DirInv
<1>4. CASE Crash
  <2>1. req' \in [Requests -> RequestType] /\ \A r \in Requests : req'[r] = Idle
    BY <1>4, Blank DEF Crash
  <2>2. Idle.pc = "idle" /\ RequestOK(Idle)
    BY Blank DEF Idle, RequestOK, Working, Building
  <2>3. RequestInv'
    BY <2>1, <2>2 DEF RequestInv
  <2>4. DirInv'
    BY <1>4, <2>1, <2>2 DEF Crash, DirInv, Building
  <2>5. QED
    BY <1>4, <2>3, <2>4, MaybeFacts DEF Crash, TypeInv, TypeOK, RequestInv
<1>5. CASE UNCHANGED vars
  BY <1>5 DEF vars, TypeInv, TypeOK, RequestInv, DirInv
<1>6. QED
  BY <1>1, <1>2, <1>3, <1>4, <1>5

\* The typing invariant, inductive.
LEMMA TypeStep == TypeInv /\ [Next]_vars => TypeInv'
  BY TypeDeploySteps, TypeStartSteps, TypeRowSteps, TypeArrive, TypeEnvironment
     DEF Next, Serve

\* The initial state is typed.
LEMMA TypeInit == Init => TypeInv
<1> SUFFICES ASSUME Init PROVE TypeInv
  OBVIOUS
<1>1. RequestOK(Idle) /\ Idle.pc = "idle"
  BY Blank DEF RequestOK, Idle, Working, Building
<1>2. RequestInv /\ DirInv
  BY <1>1, Blank DEF Init, RequestInv, DirInv, Building
<1>3. [files |-> NoFiles, bundle |-> None, gen |-> None, stub |-> FALSE, bin |-> None]
        \in DirType
  BY Blank, MaybeFacts DEF DirType
<1>4. [verdict |-> None, took |-> Nothing] \in OutcomeType
  BY Blank, MaybeFacts DEF OutcomeType
<1>5. TypeOK
  BY <1>2, <1>3, <1>4, Blank, MaybeFacts DEF Init, TypeOK, RequestInv
<1>6. QED
  BY <1>2, <1>5 DEF TypeInv

\* The strengthened typing always holds.
LEMMA Typed == Spec => []TypeInv
  BY TypeInit, TypeStep, PTL DEF Spec

\* Whatever requests, tools, processes and crashes do, every variable has its type.
THEOREM TypeCorrect == Spec => []TypeOK
<1>1. TypeInv => TypeOK
  BY DEF TypeInv
<1>2. QED
  BY <1>1, Typed, PTL

\* With any number of concurrent deploys, starts, stops and crashes of the backend, a
\* restart that stopped the process finds a project to start.
THEOREM RestartAlwaysFindsAProject == Spec => []RestartFindsAProject
<1>1. TypeInv => RestartFindsAProject
  BY DEF TypeInv, DirInv, RestartFindsAProject, At
<1>2. QED
  BY <1>1, Typed, PTL

(***************************************************************************)
(* Requests that come one at a time.                                       *)
(***************************************************************************)
Serial == \A q, r \in Requests : q = r

\* The turn of a request: no other is at work.
Turn(r) == \A q \in Requests \ {r} : req[q] = Idle /\ req'[q] = Idle

\* A step of a backend that lives, in which a request at work has the turn.
InTurn ==
    \/ \E r \in Requests :
        /\ Turn(r)
        /\ \/ \E p \in Projects : Deploy(r, p)
           \/ Start(r) \/ Stop(r) \/ Restart(r) \/ Serve(r)
    \/ \E p \in Projects : Generate(p) \/ Export(p)
    \/ \E x \in Processes : End(x)
    \/ UNCHANGED vars

\* With one request thread every request has the turn.
LEMMA SerialTurns ==
    ASSUME Serial, [Next]_vars
    PROVE  InTurn \/ Crash
<1>1. \A r \in Requests : Turn(r)
  BY DEF Serial, Turn
<1>2. QED
  BY <1>1 DEF Next, InTurn

\* While a request has the turn the others are idle, before and after its step.
LEMMA OthersIdle ==
    ASSUME NEW r \in Requests, Turn(r)
    PROVE  \A q \in Requests : q = r \/ /\ req[q].pc = "idle" /\ req[q].op = "none"
                                        /\ req'[q].pc = "idle" /\ req'[q].op = "none"
  BY DEF Turn, Idle

\* One process goes on.  Between the stop and the spawn of a start none does: that is
\* what makes it safe to let the new process take the handle.
OneInv ==
    /\ OneProcessGoesOn
    /\ \A r \in Requests : At(r, "spawn") => \A x \in Processes : ~GoesOn(x)

\* A step that starts no process and leaves the handle keeps it.
LEMMA OneKept ==
    ASSUME OneInv, UNCHANGED handle, \A x \in Processes : GoesOn(x)' => GoesOn(x),
           \A r \in Requests : At(r, "spawn")' =>
              At(r, "spawn") \/ \A x \in Processes : ~GoesOn(x)'
    PROVE  OneInv'
  BY DEF OneInv, OneProcessGoesOn, GoesOn

\* A process told to terminate leaves none that goes on.
LEMMA OneTerminated ==
    ASSUME TypeInv, OneInv, HandleAlive, Terminate
    PROVE  \A x \in Processes : ~GoesOn(x)'
  BY TerminateTypes DEF TypeInv, OneInv, OneProcessGoesOn, GoesOn

\* Only a start step leads to a spawn.
LEMMA OnlyStartSpawns ==
    ASSUME TypeInv, NEW r \in Requests, Serve(r), ~StopBeforeStart(r)
    PROVE  req'[r].pc # "spawn"
<1>1. ASSUME NEW pc, NEW q \in RequestType, q = req[r]
      PROVE  [q EXCEPT !.pc = pc].pc = pc
  BY DEF RequestType
<1>q. req \in [Requests -> RequestType] /\ Idle.pc = "idle"
  BY DEF TypeInv, RequestInv, Idle
<1>2. ASSUME NEW pc, Goto(r, pc)
      PROVE  req'[r].pc = pc
  BY <1>1, <1>2, <1>q DEF Goto
<1>3. ASSUME Finish(r)
      PROVE  req'[r].pc = "idle"
  BY <1>3, <1>q DEF Finish
<1>4. ASSUME Fail(r)
      PROVE  req'[r].pc \in {"idle", "record", "read"}
  BY <1>2, <1>3, <1>4 DEF Fail
<1>5. CASE Prepare(r)
  <2> DEFINE b == source[req[r].proj].files # NoFiles
             s == source[req[r].proj]
             q == [req[r] EXCEPT !.pc = "id", !.ok = b, !.took = s]
  <2>1. req' = [req EXCEPT ![r] = q]
    BY <1>5 DEF Prepare
  <2> HIDE DEF b, s
  <2>2. q.pc = "id"
    BY <1>q DEF RequestType
  <2> HIDE DEF q
  <2>3. QED
    BY <1>q, <2>1, <2>2
<1>6. CASE SetActiveDir(r)
  <2> DEFINE a == IF req[r].ok THEN "clear" ELSE "record"
             q == [req[r] EXCEPT !.pc = a, !.ok = FALSE]
  <2>1. req' = [req EXCEPT ![r] = q] /\ a # "spawn"
    BY <1>6 DEF SetActiveDir
  <2> HIDE DEF a
  <2>2. q.pc = a
    BY <1>q DEF RequestType
  <2> HIDE DEF q
  <2>3. QED
    BY <1>q, <2>1, <2>2
<1>7. CASE StartAgain(r)
  <2> DEFINE q == [req[r] EXCEPT !.pc = "start", !.proj = activeDir]
  <2>1. req' = [req EXCEPT ![r] = q]
    BY <1>7 DEF StartAgain
  <2>2. q.pc = "start"
    BY <1>q DEF RequestType
  <2> HIDE DEF q
  <2>3. QED
    BY <1>q, <2>1, <2>2
<1>8. CASE ReadRow(r)
  <2> DEFINE x == store[activeId]
             q == [req[r] EXCEPT !.pc = "write", !.proj = activeId, !.row = x]
  <2>1. req' = [req EXCEPT ![r] = q] \/ Finish(r)
    BY <1>8 DEF ReadRow
  <2> HIDE DEF x
  <2>2. q.pc = "write"
    BY <1>q DEF RequestType
  <2> HIDE DEF q
  <2>3. QED
    BY <1>q, <1>3, <2>1, <2>2
<1>9. CASE Spawn(r)
  <2> DEFINE a == IF Deploying(r) THEN "record" ELSE "read"
             q == [req[r] EXCEPT !.ok = TRUE, !.pc = a]
  <2>1. (req' = [req EXCEPT ![r] = q] \/ Finish(r) \/ Fail(r)) /\ a # "spawn"
    BY <1>9 DEF Spawn
  <2> HIDE DEF a
  <2>2. q.pc = a
    BY <1>q DEF RequestType
  <2> HIDE DEF q
  <2>3. QED
    BY <1>q, <1>3, <1>4, <2>1, <2>2
<1>10. CASE \/ SetActiveId(r) \/ ClearGenerated(r) \/ CompileSt(r) \/ GenerateC(r)
           \/ MakeClean(r) \/ Make(r) \/ ApplyIo(r) \/ RecordDeploy(r) \/ WriteRow(r)
  BY <1>2, <1>3, <1>4, <1>10
     DEF SetActiveId, ClearGenerated, CompileSt, GenerateC, MakeClean, Make, ApplyIo,
         RecordDeploy, WriteRow
<1>11. QED
  BY <1>5, <1>6, <1>7, <1>8, <1>9, <1>10 DEF Serve

\* Where a request begins.
LEMMA Arrivals ==
    ASSUME TypeInv, NEW r \in Requests,
           \/ \E p \in Projects : Deploy(r, p)
           \/ Start(r) \/ Stop(r) \/ Restart(r)
    PROVE  req'[r].pc \in {"prepare", "record", "read", "start", "again"}
<1>q. req \in [Requests -> RequestType]
  BY DEF TypeInv, RequestInv
<1>1. ASSUME NEW op, NEW p, NEW pc, Begin(r, op, p, pc)
      PROVE  req'[r].pc = pc
  BY <1>1, <1>q DEF Begin, Idle
<1>2. ASSUME NEW p \in Projects, Deploy(r, p)
      PROVE  req'[r].pc \in {"prepare", "record"}
  <2>1. PICK pc \in {"prepare", "record"} :
            Begin(r, "deploy", p, pc) \/ Begin(r, "handoff", p, pc)
    BY <1>2 DEF Deploy
  <2>2. QED
    BY <1>1, <1>q, <2>1 DEF Idle
<1>3. CASE Start(r)
  BY <1>1, <1>3 DEF Start
<1>4. CASE Stop(r)
  <2> DEFINE b == HandleAlive
  <2>1. req' = [req EXCEPT ![r] = [Idle EXCEPT !.pc = "read", !.op = "stop", !.ok = b]]
    BY <1>4 DEF Stop
  <2> HIDE DEF b
  <2>2. QED
    BY <1>q, <2>1 DEF Idle
<1>5. CASE Restart(r)
  BY <1>1, <1>5 DEF Restart
<1>6. QED
  BY <1>2, <1>3, <1>4, <1>5

\* Every step of requests that come one at a time keeps one process going.
LEMMA OneStep ==
    ASSUME TypeInv, OneInv, InTurn
    PROVE  OneInv'
<1>1. ASSUME NEW r \in Requests, Turn(r),
             (\E p \in Projects : Deploy(r, p)) \/ Start(r) \/ Stop(r) \/ Restart(r)
      PROVE  OneInv'
  <2>1. UNCHANGED process \/ (HandleAlive /\ Terminate)
    BY <1>1 DEF Deploy, Start, Stop, Restart
  <2>2. UNCHANGED handle
    BY <1>1 DEF Deploy, Start, Stop, Restart
  <2>3. \A x \in Processes : GoesOn(x)' => GoesOn(x)
    BY <2>1, OneTerminated DEF GoesOn
  <2>4. \A q \in Requests : req'[q].pc # "spawn"
    BY <1>1, Arrivals, OthersIdle
  <2>5. QED
    BY <2>2, <2>3, <2>4, OneKept DEF At
<1>2. ASSUME NEW r \in Requests, Turn(r), StopBeforeStart(r)
      PROVE  OneInv'
  <2>1. UNCHANGED handle /\ (UNCHANGED process \/ (HandleAlive /\ Terminate))
    BY <1>2 DEF StopBeforeStart
  <2>2. \A x \in Processes : GoesOn(x)' => GoesOn(x)
    BY <2>1, OneTerminated DEF GoesOn
  <2>3. CASE dir[req[r].proj].bin = None
    <3>1. Fail(r) /\ req[r].pc \in Working
      BY <1>2, <2>3 DEF StopBeforeStart, At, Working, Building
    <3>2. \A q \in Requests : req'[q].pc # "spawn"
      BY <1>2, <3>1, FailTypes, OthersIdle DEF TypeInv
    <3>3. QED
      BY <2>1, <2>2, <3>2, OneKept DEF At
  <2>4. CASE dir[req[r].proj].bin # None
    <3>1. \A x \in Processes : ~GoesOn(x)'
      <4>1. CASE HandleAlive
        BY <1>2, <2>4, <4>1, OneTerminated DEF StopBeforeStart
      <4>2. CASE ~HandleAlive
        <5>1. UNCHANGED process
          BY <1>2, <2>4, <4>2 DEF StopBeforeStart
        <5>2. ASSUME NEW x \in Processes
              PROVE  ~GoesOn(x)
          <6>1. x # None
            BY NoneAssumption
          <6>2. QED
            BY <4>2, <6>1 DEF HandleAlive, Alive, GoesOn, OneInv, OneProcessGoesOn
        <5>3. QED
          BY <5>1, <5>2 DEF GoesOn
      <4>3. QED
        BY <4>1, <4>2
    <3>2. QED
      BY <2>1, <2>2, <3>1, OneKept DEF At
  <2>5. QED
    BY <2>3, <2>4
<1>3. ASSUME NEW r \in Requests, Turn(r), Spawn(r)
      PROVE  OneInv'
  <2>1. \A q \in Requests : req'[q].pc # "spawn"
    <3>1. ~StopBeforeStart(r)
      BY <1>3 DEF Spawn, StopBeforeStart, At
    <3>2. QED
      BY <1>3, <3>1, OnlyStartSpawns, OthersIdle DEF Serve
  <2>2. \A x \in Processes : ~GoesOn(x)
    BY <1>3 DEF Spawn, OneInv
  <2>3. CASE UNCHANGED <<process, handle>>
    BY <2>1, <2>2, <2>3, OneKept DEF GoesOn, At
  <2>4. CASE ~UNCHANGED <<process, handle>>
    <3> DEFINE y == [state |-> "running", proj |-> req[r].proj,
                     program |-> dir[req[r].proj].bin]
    <3>1. PICK x \in Processes : process' = [process EXCEPT ![x] = y] /\ handle' = x
      BY <1>3, <2>4 DEF Spawn
    <3> HIDE DEF y
    <3>2. QED
      BY <2>1, <2>2, <3>1 DEF OneInv, OneProcessGoesOn, GoesOn, At, TypeInv, TypeOK
  <2>5. QED
    BY <2>3, <2>4
<1>4. ASSUME NEW r \in Requests, Turn(r), Serve(r), ~StopBeforeStart(r), ~Spawn(r)
      PROVE  OneInv'
  <2>1. UNCHANGED <<process, handle>>
    BY <1>4 DEF Serve, Prepare, SetActiveId, SetActiveDir, ClearGenerated, CompileSt,
       GenerateC, MakeClean, Make, ApplyIo, RecordDeploy, StartAgain, ReadRow, WriteRow
  <2>2. \A q \in Requests : req'[q].pc # "spawn"
    BY <1>4, OnlyStartSpawns, OthersIdle
  <2>3. QED
    BY <2>1, <2>2, OneKept DEF GoesOn, At
<1>5. ASSUME NEW x \in Processes, End(x)
      PROVE  OneInv'
  <2>1. UNCHANGED <<handle, req>> /\ \A y \in Processes : GoesOn(y)' => GoesOn(y)
    BY <1>5 DEF End, GoesOn, Ended, TypeInv, TypeOK
  <2>2. QED
    BY <2>1 DEF OneInv, OneProcessGoesOn, At
<1>6. CASE (\E p \in Projects : Generate(p) \/ Export(p)) \/ UNCHANGED vars
  <2>1. UNCHANGED <<process, handle, req>>
    BY <1>6 DEF Generate, Export, vars
  <2>2. QED
    BY <2>1 DEF OneInv, OneProcessGoesOn, GoesOn, At
<1>7. QED
  BY <1>1, <1>2, <1>3, <1>4, <1>5, <1>6 DEF InTurn

\* With requests one at a time and a backend that lives, one process goes on: any other
\* was told to terminate, so that stop and the next start reach the one that runs.
THEOREM OneProcess ==
    ASSUME Serial, ~MayCrash
    PROVE  Spec => []OneProcessGoesOn
<1>1. Init => OneInv
  BY DEF Init, OneInv, OneProcessGoesOn, GoesOn, At, Ended, Idle
<1>2. TypeInv /\ OneInv /\ [Next]_vars => OneInv'
  BY OneStep, SerialTurns DEF Crash
<1>3. OneInv => OneProcessGoesOn
  BY DEF OneInv
<1>4. QED
  BY <1>1, <1>2, <1>3, Typed, PTL DEF Spec

(***************************************************************************)
(* Nothing broken runs.  The generated C of a refused program stays in the *)
(* build directory, but only what a request accepted is between its        *)
(* compilation and its build; so every binary, and every process, compiles.*)
(***************************************************************************)
Sound(program) == program # None => Compiles(program)

Accepted == {"generate", "clean", "make"}

SoundInv ==
    /\ \A p \in Projects : Sound(dir[p].bin)
    /\ \A r \in Requests : req[r].pc \in Accepted => Sound(dir[req[r].proj].gen)
    /\ NothingBrokenRuns

\* A step that touches no directory, starts no process and accepts nothing.
LEMMA SoundKept ==
    ASSUME SoundInv, UNCHANGED dir, \A r \in Requests : req'[r].pc \notin Accepted,
           \A x \in Processes :
              Alive(x)' => Alive(x) /\ process'[x].program = process[x].program
    PROVE  SoundInv'
  BY DEF SoundInv, Sound, NothingBrokenRuns, Alive, Compiles

\* The steps on the build directory of requests that come one at a time.
LEMMA SoundBuild ==
    ASSUME TypeInv, SoundInv, NEW r \in Requests, Turn(r),
           \/ Prepare(r) \/ ClearGenerated(r) \/ CompileSt(r) \/ GenerateC(r)
           \/ MakeClean(r) \/ Make(r)
    PROVE  SoundInv'
<1> DEFINE p == req[r].proj
<1>s. \A q \in Requests : q = r \/ req'[q].pc \notin Accepted
  BY OthersIdle DEF Accepted
<1>q. req[r] \in RequestType /\ (req[r].pc \in Working => p \in Projects)
      /\ req \in [Requests -> RequestType]
  BY DEF TypeInv, RequestInv, RequestOK
<1>d. dir \in [Projects -> DirType] /\ (p \in Projects => dir[p] \in DirType)
  BY DEF TypeInv, TypeOK
<1>w. UNCHANGED process
  BY DEF Prepare, ClearGenerated, CompileSt, GenerateC, MakeClean, Make
\* Another directory is as it was; this one's binary is sound and so is what is accepted.
<1>k. ASSUME NEW d, p \in Projects, dir' = [dir EXCEPT ![p] = d], Sound(d.bin),
             req'[r].pc \in Accepted => req'[r].proj = p /\ Sound(d.gen)
      PROVE  SoundInv'
  BY <1>k, <1>s, <1>w, <1>d DEF SoundInv, NothingBrokenRuns, Alive, Sound, Compiles
<1>f. ASSUME Fail(r), req[r].pc \in Working
      PROVE  req'[r].pc \notin Accepted
  BY <1>f, FailTypes DEF TypeInv, Accepted
<1>1. CASE Prepare(r)
  <2>1. p \in Projects
    BY <1>1, <1>q DEF Prepare, At, Working
  <2>2. req'[r].pc \notin Accepted
    <3> DEFINE b == source[p].files # NoFiles
               t == source[p]
               q == [req[r] EXCEPT !.pc = "id", !.ok = b, !.took = t]
    <3>1. req' = [req EXCEPT ![r] = q]
      BY <1>1 DEF Prepare
    <3> HIDE DEF b, t
    <3>2. q.pc = "id"
      BY <1>q DEF RequestType
    <3> HIDE DEF q
    <3>3. QED
      BY <1>q, <3>1, <3>2 DEF Accepted
  <2>3. \/ dir' = dir
        \/ \E d : dir' = [dir EXCEPT ![p] = d] /\ d.bin = dir[p].bin
    <3> DEFINE f == Over(source[p].files, dir[p].files)
               b == IF source[p].bundled THEN source[p].files ELSE None
               d == [dir[p] EXCEPT !.files = f, !.stub = TRUE, !.bundle = b]
    <3>1. dir' = dir \/ dir' = [dir EXCEPT ![p] = d]
      BY <1>1 DEF Prepare
    <3> HIDE DEF f, b
    <3>2. d.bin = dir[p].bin
      BY <1>d, <2>1 DEF DirType
    <3> HIDE DEF d
    <3>3. QED
      BY <3>1, <3>2
  <2>4. CASE dir' = dir
    BY <1>s, <1>w, <2>2, <2>4, SoundKept DEF Alive
  <2>5. CASE \E d : dir' = [dir EXCEPT ![p] = d] /\ d.bin = dir[p].bin
    <3>1. PICK d : dir' = [dir EXCEPT ![p] = d] /\ d.bin = dir[p].bin
      BY <2>5
    <3>2. Sound(d.bin)
      BY <2>1, <3>1 DEF SoundInv, Sound, Compiles
    <3>3. QED
      BY <1>k, <2>1, <2>2, <3>1, <3>2
  <2>6. QED
    BY <2>3, <2>4, <2>5
<1>2. CASE ClearGenerated(r)
  <2> DEFINE d == [dir[p] EXCEPT !.gen = None]
  <2>1. p \in Projects /\ req'[r].pc = "compile"
    BY <1>2, <1>q, GotoTypes DEF ClearGenerated, At, TypeInv, Working, Building, Pc
  <2>2. dir' = [dir EXCEPT ![p] = d]
    BY <1>2 DEF ClearGenerated
  <2>3. d.bin = dir[p].bin
    BY <1>d, <2>1 DEF DirType
  <2> HIDE DEF d
  <2>4. Sound(d.bin)
    BY <2>1, <2>3 DEF SoundInv, Sound, Compiles
  <2>5. QED
    BY <1>k, <2>1, <2>2, <2>4 DEF Accepted
<1>3. CASE CompileSt(r)
  <2> DEFINE d == [dir[p] EXCEPT !.gen = Bundle(p)]
  <2>1. p \in Projects /\ req[r].pc \in Working /\ req[r].pc = "compile"
    BY <1>3, <1>q DEF CompileSt, At, Working, Building
  <2>2. d.bin = dir[p].bin /\ d.gen = Bundle(p)
    BY <1>d, <2>1 DEF DirType
  <2>3. Sound(d.bin)
    BY <2>1, <2>2 DEF SoundInv, Sound, Compiles
  <2>4. CASE dir' = [dir EXCEPT ![p] = d] /\ Compiles(Bundle(p)) /\ Goto(r, "generate")
    <3>1. req'[r].proj = p
      BY <2>1, <2>4, GotoTypes DEF TypeInv, Pc
    <3>2. Sound(d.gen)
      BY <2>2, <2>4 DEF Sound, Compiles, Bundle
    <3> HIDE DEF d
    <3>3. QED
      BY <1>k, <2>1, <2>3, <2>4, <3>1, <3>2
  <2>5. CASE dir' = [dir EXCEPT ![p] = d] /\ Fail(r)
    <3> HIDE DEF d
    <3>1. QED
      BY <1>f, <1>k, <2>1, <2>3, <2>5
  <2>6. CASE UNCHANGED dir /\ Fail(r)
    BY <1>f, <1>s, <1>w, <2>1, <2>6, SoundKept DEF Alive
  <2>7. QED
    BY <1>3, <2>4, <2>5, <2>6 DEF CompileSt
<1>4. CASE GenerateC(r)
  <2> DEFINE d == [dir[p] EXCEPT !.stub = FALSE]
  <2>1. p \in Projects /\ req[r].pc \in Working /\ req[r].pc = "generate"
    BY <1>4, <1>q DEF GenerateC, At, Working, Building
  <2>2. d.bin = dir[p].bin /\ d.gen = dir[p].gen
    BY <1>d, <2>1 DEF DirType
  <2>3. req'[r].pc \in Accepted => req'[r].proj = p
    BY <1>4, <1>f, <2>1, GotoTypes DEF GenerateC, TypeInv, Pc
  <2>4. dir' = [dir EXCEPT ![p] = d] \/ dir' = [dir EXCEPT ![p] = dir[p]]
    BY <1>4, <1>d DEF GenerateC
  <2> HIDE DEF d
  <2>5. Sound(d.bin) /\ Sound(d.gen) /\ Sound(dir[p].bin) /\ Sound(dir[p].gen)
    BY <2>1, <2>2 DEF SoundInv, Sound, Compiles, Accepted
  <2>6. QED
    BY <1>k, <2>1, <2>3, <2>4, <2>5 DEF Sound, Compiles
<1>5. CASE MakeClean(r)
  <2> DEFINE d == [dir[p] EXCEPT !.bin = None]
  <2>1. /\ p \in Projects /\ req[r].pc = "clean"
        /\ req'[r].pc = "make" /\ req'[r].proj = p
    BY <1>5, <1>q, GotoTypes DEF MakeClean, At, TypeInv, Working, Building, Pc
  <2>2. d.bin = None /\ d.gen = dir[p].gen
    BY <1>d, <2>1 DEF DirType
  <2>3. dir' = [dir EXCEPT ![p] = d] \/ dir' = [dir EXCEPT ![p] = dir[p]]
    BY <1>5, <1>d DEF MakeClean
  <2> HIDE DEF d
  <2>4. Sound(d.bin) /\ Sound(d.gen) /\ Sound(dir[p].bin) /\ Sound(dir[p].gen)
    BY <2>1, <2>2 DEF SoundInv, Sound, Compiles, Accepted
  <2>5. QED
    BY <1>k, <2>1, <2>3, <2>4 DEF Sound, Compiles
<1>6. CASE Make(r)
  <2> DEFINE d == [dir[p] EXCEPT !.bin = dir[p].gen]
  <2>1. p \in Projects /\ req[r].pc \in Working /\ req[r].pc = "make"
    BY <1>6, <1>q DEF Make, At, Working, Building
  <2>2. d.bin = dir[p].gen
    BY <1>d, <2>1 DEF DirType
  <2>3. req'[r].pc \notin Accepted
    BY <1>6, <1>f, <2>1, GotoTypes DEF Make, TypeInv, Pc, Accepted
  <2>4. dir' = [dir EXCEPT ![p] = d] \/ dir' = [dir EXCEPT ![p] = dir[p]]
    BY <1>6, <1>d DEF Make
  <2> HIDE DEF d
  <2>5. Sound(d.bin) /\ Sound(dir[p].bin)
    BY <2>1, <2>2 DEF SoundInv, Sound, Compiles, Accepted
  <2>6. QED
    BY <1>k, <2>1, <2>3, <2>4, <2>5 DEF Sound, Compiles
<1>7. QED
  BY <1>1, <1>2, <1>3, <1>4, <1>5, <1>6

\* Every step of requests that come one at a time runs sound programs only.
LEMMA SoundStep ==
    ASSUME TypeInv, SoundInv, InTurn \/ Crash
    PROVE  SoundInv'
<1>1. ASSUME NEW r \in Requests, Turn(r),
             \/ (\E p \in Projects : Deploy(r, p)) \/ Start(r) \/ Stop(r) \/ Restart(r)
             \/ StopBeforeStart(r)
      PROVE  SoundInv'
  <2>1. \A q \in Requests : req'[q].pc \notin Accepted
    <3>1. CASE StopBeforeStart(r)
      <4>1. req[r].pc \in Working /\ (Fail(r) \/ Goto(r, "spawn"))
        BY <3>1 DEF StopBeforeStart, At, Working, Building
      <4>2. QED
        BY <1>1, <4>1, FailTypes, GotoTypes, OthersIdle DEF TypeInv, Pc, Accepted
    <3>2. CASE ~StopBeforeStart(r)
      BY <1>1, <3>2, Arrivals, OthersIdle DEF Accepted
    <3>3. QED
      BY <3>1, <3>2
  <2>2. UNCHANGED dir /\ (UNCHANGED process \/ (HandleAlive /\ Terminate))
    BY <1>1 DEF Deploy, Start, Stop, Restart, StopBeforeStart
  <2>3. \A x \in Processes :
           Alive(x)' => Alive(x) /\ process'[x].program = process[x].program
    BY <2>2, TerminateTypes DEF TypeInv, Alive, HandleAlive
  <2>4. QED
    BY <2>1, <2>2, <2>3, SoundKept
<1>2. ASSUME NEW r \in Requests, Turn(r), Spawn(r)
      PROVE  SoundInv'
  <2> DEFINE p == req[r].proj
  <2>1. p \in Projects /\ req[r].pc = "spawn"
    BY <1>2 DEF Spawn, At, TypeInv, RequestInv, RequestOK, Working, Building
  <2>2. UNCHANGED dir
    BY <1>2 DEF Spawn
  <2>3. \A q \in Requests : req'[q].pc \notin Accepted
    <3>1. ~StopBeforeStart(r)
      BY <2>1 DEF StopBeforeStart, At
    <3>2. CASE Fail(r) \/ Finish(r)
      BY <1>2, <2>1, <3>2, FailTypes, FinishTypes, OthersIdle
         DEF TypeInv, Accepted, Working, Building
    <3>3. CASE ~(Fail(r) \/ Finish(r))
      <4> DEFINE a == IF Deploying(r) THEN "record" ELSE "read"
                 q == [req[r] EXCEPT !.ok = TRUE, !.pc = a]
      <4>1. req' = [req EXCEPT ![r] = q] /\ a \notin Accepted
        BY <1>2, <3>3 DEF Spawn, Accepted
      <4> HIDE DEF a
      <4>2. req[r] \in RequestType /\ req \in [Requests -> RequestType]
        BY DEF TypeInv, RequestInv
      <4>3. q.pc = a
        BY <4>2 DEF RequestType
      <4> HIDE DEF q
      <4>4. QED
        BY <1>2, <4>1, <4>2, <4>3, OthersIdle DEF Accepted
    <3>4. QED
      BY <3>2, <3>3
  <2>4. CASE UNCHANGED <<process, handle>>
    BY <2>2, <2>3, <2>4, SoundKept DEF Alive
  <2>5. CASE ~UNCHANGED <<process, handle>>
    <3> DEFINE y == [state |-> "running", proj |-> p, program |-> dir[p].bin]
    <3>1. PICK x \in Processes : process' = [process EXCEPT ![x] = y]
      BY <1>2, <2>5 DEF Spawn
    <3>2. Compiles(y.program)
      BY <1>2, <2>1, <2>5 DEF Spawn, SoundInv, Sound
    <3> HIDE DEF y
    <3>3. NothingBrokenRuns'
      BY <3>1, <3>2 DEF SoundInv, NothingBrokenRuns, Alive, Compiles, TypeInv, TypeOK
    <3>4. QED
      BY <2>2, <2>3, <3>3 DEF SoundInv, Sound, Compiles
  <2>6. QED
    BY <2>4, <2>5
<1>3. ASSUME NEW r \in Requests, Turn(r),
             \/ Prepare(r) \/ ClearGenerated(r) \/ CompileSt(r) \/ GenerateC(r)
             \/ MakeClean(r) \/ Make(r)
      PROVE  SoundInv'
  BY <1>3, SoundBuild
<1>4. ASSUME NEW r \in Requests, Turn(r),
             \/ SetActiveId(r) \/ SetActiveDir(r) \/ ApplyIo(r) \/ RecordDeploy(r)
             \/ StartAgain(r) \/ ReadRow(r) \/ WriteRow(r)
      PROVE  SoundInv'
  <2>q. req[r] \in RequestType /\ req \in [Requests -> RequestType] /\ RequestInv
    BY DEF TypeInv, RequestInv
  <2>1. UNCHANGED <<dir, process>>
    BY <1>4 DEF SetActiveId, SetActiveDir, ApplyIo, RecordDeploy, StartAgain, ReadRow,
                WriteRow
  <2>2. req'[r].pc \notin Accepted
    <3>1. CASE SetActiveId(r) \/ ApplyIo(r)
      <4>1. req[r].pc \in Working
        BY <3>1 DEF SetActiveId, ApplyIo, At, Working, Building
      <4>2. Goto(r, "dir") \/ Goto(r, "start") \/ Fail(r)
        BY <3>1 DEF SetActiveId, ApplyIo
      <4>3. QED
        BY <2>q, <4>1, <4>2, GotoTypes, FailTypes DEF Pc, Accepted
    <3>2. CASE RecordDeploy(r) \/ WriteRow(r)
      BY <2>q, <3>2, FinishTypes DEF RecordDeploy, WriteRow, Accepted
    <3>3. CASE SetActiveDir(r)
      <4> DEFINE a == IF req[r].ok THEN "clear" ELSE "record"
                 q == [req[r] EXCEPT !.pc = a, !.ok = FALSE]
      <4>1. req' = [req EXCEPT ![r] = q] /\ a \notin Accepted
        BY <3>3 DEF SetActiveDir, Accepted
      <4> HIDE DEF a
      <4>2. q.pc = a
        BY <2>q DEF RequestType
      <4> HIDE DEF q
      <4>3. QED
        BY <2>q, <4>1, <4>2
    <3>4. CASE StartAgain(r)
      <4> DEFINE q == [req[r] EXCEPT !.pc = "start", !.proj = activeDir]
      <4>1. req' = [req EXCEPT ![r] = q]
        BY <3>4 DEF StartAgain
      <4>2. q.pc = "start"
        BY <2>q DEF RequestType
      <4> HIDE DEF q
      <4>3. QED
        BY <2>q, <4>1, <4>2 DEF Accepted
    <3>5. CASE ReadRow(r)
      <4> DEFINE x == store[activeId]
                 q == [req[r] EXCEPT !.pc = "write", !.proj = activeId, !.row = x]
      <4>1. req' = [req EXCEPT ![r] = q] \/ Finish(r)
        BY <3>5 DEF ReadRow
      <4> HIDE DEF x
      <4>2. q.pc = "write"
        BY <2>q DEF RequestType
      <4> HIDE DEF q
      <4>3. QED
        BY <2>q, <4>1, <4>2, FinishTypes DEF Accepted
    <3>6. QED
      BY <1>4, <3>1, <3>2, <3>3, <3>4, <3>5
  <2>3. \A q \in Requests : req'[q].pc \notin Accepted
    BY <1>4, <2>2, OthersIdle DEF Accepted
  <2>4. QED
    BY <2>1, <2>3, SoundKept DEF Alive
<1>5. ASSUME NEW x \in Processes, End(x)
      PROVE  SoundInv'
  <2>1. UNCHANGED <<dir, req>>
    BY <1>5 DEF End
  <2>2. \A y \in Processes :
           Alive(y)' => Alive(y) /\ process'[y].program = process[y].program
    BY <1>5 DEF End, Ended, Alive, TypeInv, TypeOK
  <2>3. QED
    BY <2>1, <2>2 DEF SoundInv, Sound, NothingBrokenRuns, Alive, Compiles
<1>6. CASE Crash
  <2>1. \A r \in Requests : req'[r].pc \notin Accepted
    BY <1>6 DEF Crash, Idle, Accepted
  <2>2. QED
    BY <1>6, <2>1, SoundKept DEF Crash, Alive
<1>7. CASE (\E p \in Projects : Generate(p) \/ Export(p)) \/ UNCHANGED vars
  <2>1. UNCHANGED <<dir, process, req>>
    BY <1>7 DEF Generate, Export, vars
  <2>2. QED
    BY <2>1 DEF SoundInv, Sound, NothingBrokenRuns, Alive, Compiles
<1>8. QED
  BY <1>1, <1>2, <1>3, <1>4, <1>5, <1>6, <1>7 DEF InTurn, Serve

\* With requests one at a time, whatever tools fail and wherever the backend dies, no
\* process runs a program that does not compile or whose externals were refused.
THEOREM NoBrokenProcess ==
    ASSUME Serial
    PROVE  Spec => []NothingBrokenRuns
<1>1. Init => SoundInv
  BY DEF Init, SoundInv, Sound, NothingBrokenRuns, Alive, Ended, Idle, Accepted
<1>2. TypeInv /\ SoundInv /\ [Next]_vars => SoundInv'
  BY SoundStep, SerialTurns
<1>3. SoundInv => NothingBrokenRuns
  BY DEF SoundInv
<1>4. QED
  BY <1>1, <1>2, <1>3, Typed, PTL DEF Spec

(***************************************************************************)
(* What goes on is what was deployed.  A deploy carries the program it     *)
(* took through the files, the generated C and the binary of its project;  *)
(* while no deploy of a project is at work, its binary and whatever it     *)
(* started are of the deploy whose answer was recorded.                    *)
(***************************************************************************)
Fits(took, program) ==
    /\ Over(took.files, program) = program
    /\ took.bundled => program = took.files

Delivering == {"deploy", "handoff"}
DeployPc == {"prepare", "id", "dir", "clear", "compile", "generate", "clean", "make", "apply", "record"}

\* How far the program that a deploy took has come, by the step it is at.
Staged(q, d) ==
    /\ q.pc \in {"clear", "compile"} \/ (q.pc \in {"id", "dir"} /\ q.ok) =>
          Fits(q.took, IF d.bundle # None THEN d.bundle ELSE d.files)
    /\ q.pc \in {"generate", "clean", "make"} => d.gen # None /\ Fits(q.took, d.gen)
    /\ q.pc \in {"apply", "start", "spawn"} \/ (q.pc = "record" /\ q.ok) =>
          (d.bin # None => Fits(q.took, d.bin))
    /\ q.pc \in Building => ~q.ok

Delivery(q, d) ==
    /\ q.pc \in DeployPc => q.op \in Delivering
    /\ q.op \in Delivering => q.pc \in DeployPc \cup {"start", "spawn"} /\ Staged(q, d)

\* The processes of a project that go on run what was taken.
Driven(p, took) == \A x \in Processes : GoesOn(x) /\ process[x].proj = p => Fits(took, process[x].program)

Delivered(p) ==
    /\ dir[p].bin # None => Fits(outcome[p].took, dir[p].bin)
    /\ Driven(p, outcome[p].took)

DeployedInv ==
    /\ \A r \in Requests : Delivery(req[r], dir[req[r].proj])
    /\ \A r \in Requests : At(r, "record") /\ req[r].ok => Driven(req[r].proj, req[r].took)
    /\ \A p \in Projects :
          \/ outcome[p].verdict # "passed" \/ Delivered(p)
          \/ \E r \in Requests : Deploying(r) /\ req[r].proj = p
    /\ \A x \in Processes : GoesOn(x) => process[x].proj \in Projects

\* A request's record after a step that only moves it, ends it, or fails.
LEMMA MovedFields ==
    ASSUME TypeInv, NEW r \in Requests, NEW pc, Goto(r, pc)
    PROVE  /\ req'[r].pc = pc /\ req'[r].op = req[r].op /\ req'[r].proj = req[r].proj
           /\ req'[r].ok = req[r].ok /\ req'[r].took = req[r].took
<1>1. req[r] \in RequestType /\ req \in [Requests -> RequestType]
  BY DEF TypeInv, RequestInv
<1>2. QED
  BY <1>1 DEF Goto, RequestType

LEMMA EndedFields ==
    ASSUME TypeInv, NEW r \in Requests, Finish(r)
    PROVE  req'[r] = Idle /\ req'[r].pc = "idle" /\ req'[r].op = "none"
  BY DEF TypeInv, RequestInv, Finish, Idle

LEMMA FailedFields ==
    ASSUME TypeInv, NEW r \in Requests, Fail(r)
    PROVE  /\ Deploying(r) =>
                /\ req'[r].pc = "record" /\ req'[r].op = req[r].op /\ req'[r].proj = req[r].proj
                /\ req'[r].ok = req[r].ok /\ req'[r].took = req[r].took
           /\ ~Deploying(r) => req'[r].pc \in {"idle", "read"} /\ ~(req'[r].op \in Delivering)
<1>1. CASE Deploying(r)
  BY <1>1, MovedFields DEF Fail, Deploying
<1>2. CASE ~Deploying(r)
  BY <1>2, MovedFields, EndedFields DEF Fail, Deploying, Delivering
<1>3. QED
  BY <1>1, <1>2

\* A step that starts nothing, records nothing and builds, if it builds, for the project its
\* request deploys.
LEMMA DeployedKept ==
    ASSUME TypeInv, TypeInv', DeployedInv, NEW r \in Requests, Turn(r), UNCHANGED outcome,
           \A x \in Processes : GoesOn(x)' =>
              GoesOn(x) /\ process'[x].proj = process[x].proj /\ process'[x].program = process[x].program,
           \A p \in Projects : dir'[p].bin = dir[p].bin \/ (req'[r].op \in Delivering /\ req'[r].proj = p),
           req[r].op \in Delivering => req'[r].op \in Delivering /\ req'[r].proj = req[r].proj,
           Delivery(req'[r], dir'[req'[r].proj]),
           req'[r].pc = "record" /\ req'[r].ok =>
              At(r, "record") /\ req[r].ok /\ req'[r].proj = req[r].proj /\ req'[r].took = req[r].took
    PROVE  DeployedInv'
<1>1. \A q \in Requests :
          q = r \/ /\ req[q].pc = "idle" /\ req[q].op = "none"
                   /\ Delivery(req'[q], dir'[req'[q].proj]) /\ req'[q].pc # "record"
  BY OthersIdle DEF Delivery, DeployPc, Delivering
<1>2. \A p, took : Driven(p, took) => Driven(p, took)'
  BY DEF Driven
<1>3. ASSUME NEW p \in Projects, Delivered(p), dir'[p].bin = dir[p].bin
      PROVE  Delivered(p)'
  BY <1>2, <1>3 DEF Delivered
<1>4. QED
  BY <1>1, <1>2, <1>3 DEF DeployedInv, Deploying, Delivering, At

\* What the laying of files over files gives.
LEMMA OverFits ==
    ASSUME NEW f \in Program, NEW g \in Program
    PROVE  /\ Over(f, f) = f /\ Over(f, Over(f, g)) = Over(f, g)
           /\ f # None
  BY NoneAssumption DEF Over, Program

\* The steps of a deploy on its build directory.
LEMMA DeployedBuild ==
    ASSUME TypeInv, TypeInv', DeployedInv, NEW r \in Requests, Turn(r),
           \/ Prepare(r) \/ ClearGenerated(r) \/ CompileSt(r) \/ GenerateC(r) \/ MakeClean(r) \/ Make(r)
    PROVE  DeployedInv'
<1> DEFINE p == req[r].proj
<1>q. req[r] \in RequestType /\ req \in [Requests -> RequestType]
  BY DEF TypeInv, RequestInv
<1>1. /\ req[r].pc \in {"prepare", "clear", "compile", "generate", "clean", "make"}
      /\ req[r].op \in Delivering /\ Deploying(r)
      /\ p \in Projects /\ Staged(req[r], dir[p])
  <2>1. req[r].pc \in {"prepare", "clear", "compile", "generate", "clean", "make"}
    BY DEF Prepare, ClearGenerated, CompileSt, GenerateC, MakeClean, Make, At
  <2>2. req[r].op \in Delivering /\ Staged(req[r], dir[p])
    BY <2>1 DEF DeployedInv, Delivery, DeployPc
  <2>3. QED
    BY <2>1, <2>2 DEF TypeInv, RequestInv, RequestOK, Working, Building, Deploying, Delivering
<1>d. dir \in [Projects -> DirType] /\ dir[p] \in DirType
  BY <1>1 DEF TypeInv, TypeOK
\* Whoever keeps its project and is staged in the directory it leaves keeps the rest.
<1>k. ASSUME NEW d, dir' = [dir EXCEPT ![p] = d], req'[r].op = req[r].op, req'[r].proj = p,
             req'[r].pc \in DeployPc, req'[r].pc = "record" => ~req'[r].ok,
             Staged(req'[r], d)
      PROVE  DeployedInv'
  <2>1. UNCHANGED <<process, outcome>>
    BY DEF Prepare, ClearGenerated, CompileSt, GenerateC, MakeClean, Make
  <2>2. dir'[p] = d /\ \A x \in Projects : dir'[x].bin = dir[x].bin \/ p = x
    BY <1>k, <1>1, <1>d
  <2>3. Delivery(req'[r], dir'[req'[r].proj])
    BY <1>k, <1>1, <2>2 DEF Delivery
  <2>4. QED
    BY <1>k, <1>1, <2>1, <2>2, <2>3, DeployedKept DEF GoesOn
<1>f. ASSUME NEW d, dir' = [dir EXCEPT ![p] = d], Fail(r), req[r].pc \in Building
      PROVE  DeployedInv'
  <2>1. /\ req'[r].pc = "record" /\ req'[r].op = req[r].op /\ req'[r].proj = p
        /\ req'[r].ok = req[r].ok
    BY <1>f, <1>1, FailedFields
  <2>2. ~req[r].ok
    BY <1>f, <1>1 DEF Staged
  <2>3. Staged(req'[r], d)
    BY <2>1, <2>2 DEF Staged, Building
  <2>4. QED
    BY <1>k, <1>f, <2>1, <2>2, <2>3 DEF DeployPc
<1>g. ASSUME NEW d, NEW pc, dir' = [dir EXCEPT ![p] = d], Goto(r, pc), pc \in DeployPc \ {"record"},
             Staged(req'[r], d)
      PROVE  DeployedInv'
  <2>1. /\ req'[r].pc = pc /\ req'[r].op = req[r].op /\ req'[r].proj = p
        /\ req'[r].pc \in DeployPc /\ req'[r].pc # "record"
    BY <1>g, MovedFields
  <2>2. QED
    BY <1>k, <1>g, <2>1
<1>s. dir = [dir EXCEPT ![p] = dir[p]]
  BY <1>d
<1>2. CASE Prepare(r)
  <2> DEFINE s == source[p]
             found == s.files # NoFiles
             q == [req[r] EXCEPT !.pc = "id", !.ok = found, !.took = s]
             f == Over(s.files, dir[p].files)
             b == IF s.bundled THEN s.files ELSE None
             d == [dir[p] EXCEPT !.files = f, !.stub = TRUE, !.bundle = b]
  <2>1. s \in SourceType /\ s.files \in Program /\ s.bundled \in BOOLEAN
    BY <1>1 DEF TypeInv, TypeOK, SourceType
  <2>2. req' = [req EXCEPT ![r] = q]
    BY <1>2 DEF Prepare
  <2>3. /\ req'[r].pc = "id" /\ req'[r].ok = found /\ req'[r].took = s
        /\ req'[r].op = req[r].op /\ req'[r].proj = p
    BY <1>q, <2>2 DEF RequestType
  <2>4. CASE ~found
    <3>1. dir' = dir
      BY <1>2, <2>4 DEF Prepare
    <3>2. Staged(req'[r], dir[p])
      BY <2>3, <2>4 DEF Staged
    <3>3. QED
      BY <1>k, <1>s, <2>3, <3>1, <3>2 DEF DeployPc
  <2>5. CASE found
    <3>1. dir' = [dir EXCEPT ![p] = d]
      BY <1>2, <2>5 DEF Prepare
    <3>2. d.files = f /\ d.bundle = b
      BY <1>d DEF DirType
    <3>3. Fits(s, IF b # None THEN b ELSE f)
      BY <1>d, <2>1, OverFits, DirFields DEF Fits
    <3> HIDE DEF d, f, b, s
    <3>4. Staged(req'[r], d)
      BY <2>3, <3>2, <3>3 DEF Staged, Building
    <3>5. QED
      BY <1>k, <2>3, <3>1, <3>4 DEF DeployPc
  <2>6. QED
    BY <2>4, <2>5
<1>3. CASE ClearGenerated(r)
  <2> DEFINE d == [dir[p] EXCEPT !.gen = None]
  <2>1. req[r].pc = "clear" /\ dir' = [dir EXCEPT ![p] = d] /\ Goto(r, "compile")
    BY <1>3 DEF ClearGenerated, At
  <2>2. d.files = dir[p].files /\ d.bundle = dir[p].bundle
    BY <1>d DEF DirType
  <2> HIDE DEF d
  <2>3. Staged(req'[r], d)
    BY <1>1, <2>1, <2>2, MovedFields DEF Staged, Building
  <2>4. QED
    BY <1>g, <2>1, <2>3 DEF DeployPc
<1>4. CASE CompileSt(r)
  <2> DEFINE d == [dir[p] EXCEPT !.gen = Bundle(p)]
  <2>1. req[r].pc = "compile"
    BY <1>4 DEF CompileSt, At
  <2>2. d.gen = Bundle(p) /\ Bundle(p) # None
    BY <1>d, NoneAssumption DEF DirType, Bundle
  <2>3. \/ dir' = [dir EXCEPT ![p] = d] /\ (Goto(r, "generate") \/ Fail(r))
        \/ dir' = [dir EXCEPT ![p] = dir[p]] /\ Fail(r)
    BY <1>4, <1>s DEF CompileSt
  <2>4. Fits(req[r].took, Bundle(p)) /\ ~req[r].ok
    BY <1>1, <2>1 DEF Staged, Bundle, Building
  <2> HIDE DEF d
  <2>5. CASE dir' = [dir EXCEPT ![p] = d] /\ Goto(r, "generate")
    <3>1. Staged(req'[r], d)
      BY <1>1, <2>2, <2>4, <2>5, MovedFields DEF Staged, Building
    <3>2. QED
      BY <1>g, <2>5, <3>1 DEF DeployPc
  <2>6. QED
    BY <1>f, <2>1, <2>3, <2>5 DEF Building
<1>5. CASE GenerateC(r)
  <2> DEFINE d == [dir[p] EXCEPT !.stub = FALSE]
  <2>1. req[r].pc = "generate" /\ dir[p].gen # None /\ Fits(req[r].took, dir[p].gen) /\ ~req[r].ok
    BY <1>1, <1>5 DEF GenerateC, At, Staged, Building
  <2>2. dir' = [dir EXCEPT ![p] = dir[p]] /\ Goto(r, "clean")
    BY <1>5, <1>s, <2>1 DEF GenerateC
  <2>3. Staged(req'[r], dir[p])
    BY <1>1, <2>1, <2>2, MovedFields DEF Staged, Building
  <2>4. QED
    BY <1>g, <2>2, <2>3 DEF DeployPc
<1>6. CASE MakeClean(r)
  <2> DEFINE d == [dir[p] EXCEPT !.bin = None]
  <2>1. req[r].pc = "clean" /\ dir[p].gen # None /\ Fits(req[r].took, dir[p].gen) /\ ~req[r].ok
    BY <1>1, <1>6 DEF MakeClean, At, Staged, Building
  <2>2. (dir' = [dir EXCEPT ![p] = d] \/ dir' = [dir EXCEPT ![p] = dir[p]]) /\ Goto(r, "make")
    BY <1>6, <1>s DEF MakeClean
  <2>3. d.gen = dir[p].gen
    BY <1>d DEF DirType
  <2> HIDE DEF d
  <2>4. Staged(req'[r], dir[p]) /\ Staged(req'[r], d)
    BY <1>1, <2>1, <2>2, <2>3, MovedFields DEF Staged, Building
  <2>5. QED
    BY <1>g, <2>2, <2>4 DEF DeployPc
<1>7. CASE Make(r)
  <2> DEFINE d == [dir[p] EXCEPT !.bin = dir[p].gen]
  <2>1. req[r].pc = "make" /\ dir[p].gen # None /\ Fits(req[r].took, dir[p].gen) /\ ~req[r].ok
    BY <1>1, <1>7 DEF Make, At, Staged, Building
  <2>2. \/ dir' = [dir EXCEPT ![p] = d] /\ Goto(r, "apply")
        \/ dir' = [dir EXCEPT ![p] = dir[p]] /\ Fail(r)
    BY <1>7, <1>s DEF Make
  <2>3. d.bin = dir[p].gen
    BY <1>d DEF DirType
  <2> HIDE DEF d
  <2>4. CASE dir' = [dir EXCEPT ![p] = d] /\ Goto(r, "apply")
    <3>1. Staged(req'[r], d)
      BY <1>1, <2>1, <2>3, <2>4, MovedFields DEF Staged, Building
    <3>2. QED
      BY <1>g, <2>4, <3>1 DEF DeployPc
  <2>5. QED
    BY <1>f, <2>1, <2>2, <2>4 DEF Building
<1>8. QED
  BY <1>2, <1>3, <1>4, <1>5, <1>6, <1>7

\* The steps that leave the build directories alone.
LEMMA DeployedControl ==
    ASSUME TypeInv, TypeInv', DeployedInv, NEW r \in Requests, Turn(r),
           \/ SetActiveId(r) \/ SetActiveDir(r) \/ ApplyIo(r) \/ StopBeforeStart(r)
           \/ StartAgain(r) \/ ReadRow(r) \/ WriteRow(r)
           \/ (\E p \in Projects : Deploy(r, p)) \/ Start(r) \/ Stop(r) \/ Restart(r)
    PROVE  DeployedInv'
<1> DEFINE p == req[r].proj
<1>q. req[r] \in RequestType /\ req \in [Requests -> RequestType]
  BY DEF TypeInv, RequestInv
<1>i. Delivery(req[r], dir[p])
  BY DEF DeployedInv
<1>u. UNCHANGED <<dir, outcome>>
  BY DEF SetActiveId, SetActiveDir, ApplyIo, StopBeforeStart, StartAgain, ReadRow, WriteRow,
         Deploy, Start, Stop, Restart
<1>g. \A x \in Processes : GoesOn(x)' =>
          GoesOn(x) /\ process'[x].proj = process[x].proj /\ process'[x].program = process[x].program
  <2>1. UNCHANGED process \/ (HandleAlive /\ Terminate)
    BY DEF SetActiveId, SetActiveDir, ApplyIo, StopBeforeStart, StartAgain, ReadRow, WriteRow,
           Deploy, Start, Stop, Restart
  <2>2. QED
    BY <2>1, TerminateTypes DEF TypeInv, GoesOn
\* Its request goes on with its deploy, or was not and is not a deploy's.
<1>k. ASSUME req'[r].op = req[r].op, req'[r].proj = p, Staged(req'[r], dir[p]),
             req[r].op \in Delivering, req'[r].pc \in DeployPc \cup {"start", "spawn"},
             req'[r].pc = "record" => ~req'[r].ok
      PROVE  DeployedInv'
  <2>1. Delivery(req'[r], dir'[req'[r].proj])
    BY <1>k, <1>u DEF Delivery
  <2>2. QED
    BY <1>k, <1>u, <1>g, <2>1, DeployedKept
<1>n. ASSUME ~(req[r].op \in Delivering), ~(req'[r].op \in Delivering), req'[r].pc \notin DeployPc
      PROVE  DeployedInv'
  <2>1. Delivery(req'[r], dir'[req'[r].proj])
    BY <1>n DEF Delivery
  <2>2. QED
    BY <1>n, <1>u, <1>g, <2>1, DeployedKept DEF DeployPc
<1>1. CASE SetActiveId(r)
  <2>1. req[r].pc = "id" /\ Goto(r, "dir")
    BY <1>1 DEF SetActiveId, At
  <2>2. req[r].op \in Delivering /\ Staged(req[r], dir[p])
    BY <1>i, <2>1 DEF Delivery, DeployPc
  <2>3. /\ req'[r].pc = "dir" /\ req'[r].op = req[r].op /\ req'[r].proj = p
        /\ req'[r].ok = req[r].ok /\ req'[r].took = req[r].took
    BY <2>1, MovedFields
  <2>4. Staged(req'[r], dir[p])
    BY <2>1, <2>2, <2>3 DEF Staged, Building
  <2>5. QED
    BY <1>k, <2>2, <2>3, <2>4 DEF DeployPc
<1>2. CASE SetActiveDir(r)
  <2> DEFINE a == IF req[r].ok THEN "clear" ELSE "record"
             q == [req[r] EXCEPT !.pc = a, !.ok = FALSE]
  <2>1. req[r].pc = "dir" /\ req' = [req EXCEPT ![r] = q] /\ req[r].ok \in BOOLEAN
    BY <1>2, <1>q DEF SetActiveDir, At, RequestType
  <2>2. req[r].op \in Delivering /\ Staged(req[r], dir[p])
    BY <1>i, <2>1 DEF Delivery, DeployPc
  <2>a. a \in {"clear", "record"} /\ (a = "clear" => req[r].ok)
    OBVIOUS
  <2> HIDE DEF a
  <2>3. /\ req'[r].pc = a /\ req'[r].op = req[r].op /\ req'[r].proj = p
        /\ req'[r].ok = FALSE /\ req'[r].took = req[r].took
    BY <1>q, <2>1 DEF RequestType
  <2>4. Staged(req'[r], dir[p])
    BY <2>1, <2>a, <2>2, <2>3 DEF Staged, Building
  <2>5. QED
    BY <1>k, <2>2, <2>a, <2>3, <2>4 DEF DeployPc
<1>3. CASE ApplyIo(r)
  <2>1. req[r].pc = "apply" /\ (Goto(r, "start") \/ Fail(r))
    BY <1>3 DEF ApplyIo, At
  <2>2. req[r].op \in Delivering /\ Staged(req[r], dir[p]) /\ ~req[r].ok
    BY <1>i, <2>1 DEF Delivery, DeployPc, Staged, Building
  <2>3. /\ req'[r].pc \in {"start", "record"} /\ req'[r].op = req[r].op /\ req'[r].proj = p
        /\ req'[r].ok = req[r].ok /\ req'[r].took = req[r].took
    BY <2>1, <2>2, MovedFields, FailedFields DEF Deploying, Delivering
  <2>4. Staged(req'[r], dir[p])
    BY <2>1, <2>2, <2>3 DEF Staged, Building
  <2>5. QED
    BY <1>k, <2>2, <2>3, <2>4 DEF DeployPc
<1>4. CASE StopBeforeStart(r)
  <2>1. req[r].pc = "start" /\ (Goto(r, "spawn") \/ Fail(r))
    BY <1>4 DEF StopBeforeStart, At
  <2>2. CASE req[r].op \in Delivering
    <3>1. Staged(req[r], dir[p]) /\ ~req[r].ok
      BY <1>i, <2>1, <2>2 DEF Delivery, Staged, Building
    <3>2. /\ req'[r].pc \in {"spawn", "record"} /\ req'[r].op = req[r].op /\ req'[r].proj = p
          /\ req'[r].ok = req[r].ok /\ req'[r].took = req[r].took
      BY <2>1, <2>2, MovedFields, FailedFields DEF Deploying, Delivering
    <3>3. Staged(req'[r], dir[p])
      BY <2>1, <3>1, <3>2 DEF Staged, Building
    <3>4. QED
      BY <1>k, <2>2, <3>1, <3>2, <3>3 DEF DeployPc
  <2>3. CASE ~(req[r].op \in Delivering)
    <3>1. ~(req'[r].op \in Delivering) /\ req'[r].pc \in {"spawn", "idle", "read"}
      BY <2>1, <2>3, MovedFields, FailedFields DEF Deploying, Delivering
    <3>2. QED
      BY <1>n, <2>3, <3>1 DEF DeployPc
  <2>4. QED
    BY <2>2, <2>3
<1>5. CASE StartAgain(r)
  <2> DEFINE q == [req[r] EXCEPT !.pc = "start", !.proj = activeDir]
  <2>1. req[r].pc = "again" /\ req' = [req EXCEPT ![r] = q]
    BY <1>5 DEF StartAgain, At
  <2>2. ~(req[r].op \in Delivering)
    BY <1>i, <2>1 DEF Delivery, DeployPc
  <2>3. req'[r].pc = "start" /\ req'[r].op = req[r].op
    BY <1>q, <2>1 DEF RequestType
  <2>4. QED
    BY <1>n, <2>2, <2>3 DEF DeployPc
<1>6. CASE ReadRow(r)
  <2> DEFINE x == store[activeId]
             q == [req[r] EXCEPT !.pc = "write", !.proj = activeId, !.row = x]
  <2>1. req[r].pc = "read" /\ (req' = [req EXCEPT ![r] = q] \/ Finish(r))
    BY <1>6 DEF ReadRow, At
  <2>2. ~(req[r].op \in Delivering)
    BY <1>i, <2>1 DEF Delivery, DeployPc
  <2> HIDE DEF x
  <2>3. req'[r].pc \in {"write", "idle"} /\ (req'[r].op = req[r].op \/ req'[r].op = "none")
    BY <1>q, <2>1, EndedFields DEF RequestType
  <2>4. QED
    BY <1>n, <2>2, <2>3 DEF DeployPc, Delivering
<1>7. CASE WriteRow(r)
  <2>1. req[r].pc = "write" /\ req'[r].pc = "idle" /\ req'[r].op = "none"
    BY <1>7, EndedFields DEF WriteRow, At
  <2>2. ~(req[r].op \in Delivering)
    BY <1>i, <2>1 DEF Delivery, DeployPc
  <2>3. QED
    BY <1>n, <2>1, <2>2 DEF DeployPc, Delivering
\* Those who arrive.
<1>a. ASSUME req[r].pc = "idle"
      PROVE  ~(req[r].op \in Delivering)
  BY <1>a, <1>i DEF Delivery, DeployPc
<1>b. ASSUME NEW op, NEW x, NEW pc, Begin(r, op, x, pc)
      PROVE  /\ req[r].pc = "idle" /\ req'[r].pc = pc /\ req'[r].op = op /\ req'[r].proj = x
             /\ req'[r].ok = FALSE
  BY <1>b, <1>q DEF Begin, At, Idle
<1>8. ASSUME NEW x \in Projects, Deploy(r, x)
      PROVE  DeployedInv'
  <2>1. PICK op \in Delivering, pc \in {"prepare", "record"} : Begin(r, op, x, pc)
    BY <1>8 DEF Deploy, Delivering
  <2>2. /\ req[r].pc = "idle" /\ req'[r].pc = pc /\ req'[r].op = op /\ req'[r].proj = x
        /\ req'[r].ok = FALSE
    BY <1>b, <2>1
  <2>3. Delivery(req'[r], dir'[req'[r].proj])
    BY <2>2 DEF Delivery, DeployPc, Staged, Building
  <2>4. QED
    BY <1>a, <1>u, <1>g, <2>2, <2>3, DeployedKept
<1>9. CASE Start(r)
  <2>1. req[r].pc = "idle" /\ req'[r].op = "start" /\ req'[r].pc \in {"read", "start"}
    BY <1>9, <1>b DEF Start
  <2>2. QED
    BY <1>a, <1>n, <2>1 DEF DeployPc, Delivering
<1>10. CASE Stop(r)
  <2> DEFINE b == HandleAlive
  <2>1. req' = [req EXCEPT ![r] = [Idle EXCEPT !.pc = "read", !.op = "stop", !.ok = b]]
    BY <1>10 DEF Stop
  <2> HIDE DEF b
  <2>2. req[r].pc = "idle" /\ req'[r].op = "stop" /\ req'[r].pc = "read"
    BY <1>10, <1>q, <2>1 DEF Stop, At, Idle
  <2>3. QED
    BY <1>a, <1>n, <2>2 DEF DeployPc, Delivering
<1>11. CASE Restart(r)
  <2>1. req[r].pc = "idle" /\ req'[r].op = "restart" /\ req'[r].pc = "again"
    BY <1>11, <1>b DEF Restart
  <2>2. QED
    BY <1>a, <1>n, <2>1 DEF DeployPc, Delivering
<1>12. QED
  BY <1>1, <1>2, <1>3, <1>4, <1>5, <1>6, <1>7, <1>8, <1>9, <1>10, <1>11

\* A process that is started is the only one that goes on, and runs the binary.
LEMMA DeployedSpawn ==
    ASSUME TypeInv, TypeInv', OneInv, DeployedInv, NEW r \in Requests, Turn(r), Spawn(r)
    PROVE  DeployedInv'
<1> DEFINE p == req[r].proj
<1>q. req[r] \in RequestType /\ req \in [Requests -> RequestType]
  BY DEF TypeInv, RequestInv
<1>1. req[r].pc = "spawn" /\ UNCHANGED <<dir, outcome>> /\ Delivery(req[r], dir[p]) /\ p \in Projects
  BY DEF Spawn, At, DeployedInv, TypeInv, RequestInv, RequestOK, Working, Building
<1>2. \A x \in Processes : ~GoesOn(x)
  BY <1>1 DEF OneInv, At
<1>s. \A q \in Requests :
          q = r \/ /\ req[q].pc = "idle" /\ req[q].op = "none"
                   /\ Delivery(req'[q], dir'[req'[q].proj]) /\ req'[q].pc # "record"
  BY OthersIdle DEF Delivery, DeployPc, Delivering
<1>3. CASE UNCHANGED <<process, handle>>
  <2>1. Fail(r)
    BY <1>3, <1>q DEF Spawn, TypeInv, TypeOK
  <2>2. CASE req[r].op \in Delivering
    <3>1. Staged(req[r], dir[p]) /\ ~req[r].ok
      BY <1>1, <2>2 DEF Delivery, Staged, Building
    <3>2. /\ req'[r].pc = "record" /\ req'[r].op = req[r].op /\ req'[r].proj = p /\ ~req'[r].ok
      BY <2>1, <2>2, <3>1, FailedFields DEF Deploying, Delivering
    <3>3. Delivery(req'[r], dir'[req'[r].proj])
      BY <2>2, <3>2 DEF Delivery, Staged, Building, DeployPc
    <3>4. QED
      BY <1>1, <1>3, <2>2, <3>2, <3>3, DeployedKept DEF GoesOn
  <2>3. CASE ~(req[r].op \in Delivering)
    <3>1. ~(req'[r].op \in Delivering) /\ req'[r].pc \in {"idle", "read"}
      BY <2>1, <2>3, FailedFields DEF Deploying, Delivering
    <3>2. Delivery(req'[r], dir'[req'[r].proj])
      BY <3>1 DEF Delivery, DeployPc
    <3>3. QED
      BY <1>1, <1>3, <2>3, <3>1, <3>2, DeployedKept DEF GoesOn
  <2>4. QED
    BY <2>2, <2>3
<1>4. CASE ~UNCHANGED <<process, handle>>
  <2> DEFINE y == [state |-> "running", proj |-> p, program |-> dir[p].bin]
             a == IF Deploying(r) THEN "record" ELSE "read"
             q == [req[r] EXCEPT !.ok = TRUE, !.pc = a]
  <2>1. PICK x \in Processes : process' = [process EXCEPT ![x] = y]
    BY <1>4 DEF Spawn
  <2>2. dir[p].bin # None /\ (IF req[r].op = "restart" THEN Finish(r) ELSE req' = [req EXCEPT ![r] = q])
    BY <1>4 DEF Spawn
  <2>3. \A z \in Processes : GoesOn(z)' => z = x /\ process'[z].proj = p /\ process'[z].program = dir[p].bin
    BY <1>2, <2>1 DEF GoesOn, TypeInv, TypeOK
  <2> HIDE DEF y
  <2>4. CASE req[r].op \in Delivering
    <3>1. req' = [req EXCEPT ![r] = q] /\ a = "record"
      BY <2>2, <2>4 DEF Delivering, Deploying
    <3> HIDE DEF a
    <3>2. /\ req'[r].pc = "record" /\ req'[r].op = req[r].op /\ req'[r].proj = p
          /\ req'[r].ok = TRUE /\ req'[r].took = req[r].took
      BY <1>q, <3>1 DEF RequestType
    <3>3. Fits(req[r].took, dir[p].bin)
      BY <1>1, <2>2, <2>4 DEF Delivery, Staged
    <3>4. Delivery(req'[r], dir'[req'[r].proj])
      BY <1>1, <2>4, <3>2, <3>3 DEF Delivery, Staged, Building, DeployPc
    <3>5. \A z \in Processes : GoesOn(z)' => process'[z].proj = p /\ Fits(req[r].took, process'[z].program)
      BY <2>3, <3>3
    <3>6. \A o \in Projects : o # p => (Delivered(o) => Delivered(o)')
      BY <1>1, <2>3 DEF Delivered, Driven
    <3>7. \A o \in Projects : o # p => outcome[o].verdict # "passed" \/ Delivered(o)
      BY <1>s, <2>4 DEF DeployedInv, Deploying
    <3>8. \A o \in Projects :
             \/ outcome'[o].verdict # "passed" \/ Delivered(o)'
             \/ \E z \in Requests : Deploying(z)' /\ req'[z].proj = o
      <4>1. Deploying(r)' /\ req'[r].proj = p
        BY <2>4, <3>2 DEF Deploying, Delivering
      <4>2. QED
        BY <1>1, <3>6, <3>7, <4>1
    <3>9. \A q2 \in Requests : Delivery(req'[q2], dir'[req'[q2].proj])
      BY <1>s, <3>4
    <3>10. \A q2 \in Requests : At(q2, "record")' /\ req'[q2].ok => Driven(req[q2].proj, req[q2].took)'
      <4>1. Driven(p, req[r].took)'
        BY <3>2, <3>5 DEF Driven
      <4>2. QED
        BY <1>s, <4>1 DEF At
    <3>11. QED
      BY <1>1, <3>5, <3>8, <3>9, <3>10 DEF DeployedInv
  <2>5. CASE ~(req[r].op \in Delivering)
    <3>1. req' = [req EXCEPT ![r] = q] => req'[r].op = req[r].op /\ req'[r].pc = a
      <4> HIDE DEF a
      <4>1. QED
        BY <1>q DEF RequestType
    <3>2. ~(req'[r].op \in Delivering) /\ req'[r].pc \notin DeployPc
      BY <2>2, <2>5, <3>1, EndedFields DEF Deploying, Delivering, DeployPc
    <3>3. Delivery(req'[r], dir'[req'[r].proj])
      BY <3>2 DEF Delivery
    <3>4. \A o \in Projects : Delivered(o) => Delivered(o)'
      BY <1>1, <2>2, <2>3 DEF Delivered, Driven
    <3>5. QED
      BY <1>1, <1>s, <2>5, <3>2, <3>3, <3>4, <2>3 DEF DeployedInv, Deploying, Delivering, At, DeployPc
  <2>6. QED
    BY <2>4, <2>5
<1>5. QED
  BY <1>3, <1>4

\* The answer that is recorded is of the program that goes on.
LEMMA DeployedRecord ==
    ASSUME TypeInv, TypeInv', DeployedInv, NEW r \in Requests, Turn(r), RecordDeploy(r)
    PROVE  DeployedInv'
<1>p. PICK p : p = req[r].proj
  OBVIOUS
<1> DEFINE t == IF req[r].ok THEN req[r].took ELSE Nothing
           v == Said(req[r].ok)
           o == [verdict |-> v, took |-> t]
<1>1. /\ req[r].pc = "record" /\ UNCHANGED <<dir, process>> /\ req'[r].pc = "idle" /\ req'[r].op = "none"
      /\ outcome' = [outcome EXCEPT ![p] = o]
  BY <1>p, EndedFields DEF RecordDeploy, At
<1>2. req[r].op \in Delivering /\ Staged(req[r], dir[p]) /\ p \in Projects
  BY <1>p, <1>1 DEF DeployedInv, Delivery, DeployPc, TypeInv, RequestInv, RequestOK, Working
<1>3. \A q \in Requests :
          q = r \/ /\ req[q].pc = "idle" /\ req[q].op = "none"
                   /\ Delivery(req'[q], dir'[req'[q].proj]) /\ req'[q].pc # "record"
  BY OthersIdle DEF Delivery, DeployPc, Delivering
<1>4. Delivery(req'[r], dir'[req'[r].proj])
  BY <1>1 DEF Delivery, DeployPc, Delivering
<1>5. v = "passed" => req[r].ok /\ t = req[r].took
  BY DEF Said
<1> HIDE DEF t, v
<1>6. outcome'[p].verdict = "passed" => Delivered(p)'
  <2>1. outcome'[p].verdict = v /\ outcome'[p].took = t
    BY <1>1, <1>2 DEF TypeInv, TypeOK
  <2>2. QED
    BY <1>p, <1>1, <1>2, <1>5, <2>1 DEF DeployedInv, At, Delivered, Driven, Staged, GoesOn
<1>7. \A x \in Projects \ {p} : outcome'[x] = outcome[x]
  BY <1>1 DEF TypeInv, TypeOK
<1>8. \A x \in Projects \ {p} : Delivered(x) => Delivered(x)'
  BY <1>1, <1>7 DEF Delivered, Driven, GoesOn
<1>9. \A x \in Projects : outcome'[x].verdict # "passed" \/ Delivered(x)'
  <2>1. \A x \in Projects \ {p} : outcome[x].verdict # "passed" \/ Delivered(x)
    BY <1>p, <1>3 DEF DeployedInv, Deploying
  <2>2. QED
    BY <1>6, <1>7, <1>8, <2>1
<1>10. QED
  BY <1>1, <1>3, <1>4, <1>9 DEF DeployedInv, At, GoesOn

\* Every step of requests that come one at a time keeps what was deployed.
LEMMA DeployedStep ==
    ASSUME TypeInv, TypeInv', OneInv, DeployedInv, InTurn
    PROVE  DeployedInv'
<1>1. ASSUME NEW x \in Processes, End(x)
      PROVE  DeployedInv'
  <2>1. UNCHANGED <<dir, req, outcome>> /\ \A y \in Processes : GoesOn(y)' => GoesOn(y) /\ process'[y] = process[y]
    BY <1>1 DEF End, GoesOn, Ended, TypeInv, TypeOK
  <2>2. QED
    BY <2>1 DEF DeployedInv, Delivered, Driven, Deploying, At
<1>2. CASE (\E p \in Projects : Generate(p) \/ Export(p)) \/ UNCHANGED vars
  <2>1. UNCHANGED <<dir, req, outcome, process>>
    BY <1>2 DEF Generate, Export, vars
  <2>2. QED
    BY <2>1 DEF DeployedInv, Delivered, Driven, Deploying, At, GoesOn
<1>3. QED
  BY <1>1, <1>2, DeployedBuild, DeployedControl, DeployedSpawn, DeployedRecord DEF InTurn, Serve

\* With requests one at a time and a backend that lives, the process that goes on after a
\* deploy passed runs the program that deploy took from the workspace, whatever tools fail
\* and whatever is generated, deployed, stopped, started and restarted meanwhile.
THEOREM DeployedProgramRuns ==
    ASSUME Serial, ~MayCrash
    PROVE  Spec => []RunsWhatWasDeployed
<1>1. Init => DeployedInv
  BY DEF Init, DeployedInv, Delivery, DeployPc, Delivering, Idle, At, Delivered, Driven, GoesOn, Ended
<1>2. Init => OneInv
  BY DEF Init, OneInv, OneProcessGoesOn, GoesOn, At, Ended, Idle
<1>3. TypeInv /\ OneInv /\ [Next]_vars => OneInv'
  BY OneStep, SerialTurns DEF Crash
<1>4. TypeInv /\ TypeInv' /\ OneInv /\ DeployedInv /\ [Next]_vars => DeployedInv'
  BY DeployedStep, SerialTurns DEF Crash
<1>5. TypeInv /\ DeployedInv => RunsWhatWasDeployed
  <2> SUFFICES ASSUME TypeInv, DeployedInv, Quiet, NEW x \in Processes, GoesOn(x),
                      outcome[process[x].proj].verdict = "passed"
               PROVE  Fits(outcome[process[x].proj].took, process[x].program)
    BY DEF RunsWhatWasDeployed, Fits
  <2>1. \A r \in Requests : ~Deploying(r)
    BY DEF Quiet, At, DeployedInv, Delivery, DeployPc, Deploying, Delivering
  <2>2. QED
    BY <2>1 DEF DeployedInv, Delivered, Driven
<1>6. QED
  BY <1>1, <1>2, <1>3, <1>4, <1>5, Typed, PTL DEF Spec

(***************************************************************************)
(* What the row says.  Without handoffs every deploy that is recorded      *)
(* writes the row too, and between a request's read of a row and its write *)
(* nothing else changes it.                                                *)
(***************************************************************************)
RowInv ==
    /\ \A p \in Projects : outcome[p].verdict # None =>
            store[p] # None /\ store[p].validation = outcome[p].verdict
    /\ \A r \in Requests :
          /\ req[r].op # "handoff"
          /\ At(r, "write") => /\ store[req[r].proj] # None
                               /\ req[r].row.validation = store[req[r].proj].validation

\* No step of a request makes a handoff of it.
LEMMA StaysNoHandoff ==
    ASSUME TypeInv, NEW r \in Requests, req[r].op # "handoff",
           Serve(r) \/ Start(r) \/ Stop(r) \/ Restart(r)
    PROVE  req'[r].op # "handoff"
<1>q. req[r] \in RequestType /\ req \in [Requests -> RequestType]
  BY DEF TypeInv, RequestInv
<1>1. ASSUME NEW pc, Goto(r, pc) PROVE req'[r].op # "handoff"
  BY <1>1, MovedFields
<1>2. ASSUME Fail(r) \/ Finish(r) PROVE req'[r].op # "handoff"
  BY <1>2, FailedFields, EndedFields DEF Deploying, Delivering
<1>3. ASSUME NEW a, NEW b, NEW c, req' = [req EXCEPT ![r] = [req[r] EXCEPT !.pc = a, !.ok = b, !.took = c]]
      PROVE  req'[r].op # "handoff"
  BY <1>3, <1>q DEF RequestType
<1>4. ASSUME NEW a, NEW b, req' = [req EXCEPT ![r] = [req[r] EXCEPT !.pc = a, !.ok = b]]
      PROVE  req'[r].op # "handoff"
  BY <1>4, <1>q DEF RequestType
<1>5. ASSUME NEW a, NEW b, req' = [req EXCEPT ![r] = [req[r] EXCEPT !.ok = b, !.pc = a]]
      PROVE  req'[r].op # "handoff"
  BY <1>5, <1>q DEF RequestType
<1>6. ASSUME NEW a, NEW b, req' = [req EXCEPT ![r] = [req[r] EXCEPT !.pc = a, !.proj = b]]
      PROVE  req'[r].op # "handoff"
  BY <1>6, <1>q DEF RequestType
<1>7. ASSUME NEW a, NEW b, NEW c, req' = [req EXCEPT ![r] = [req[r] EXCEPT !.pc = a, !.proj = b, !.row = c]]
      PROVE  req'[r].op # "handoff"
  BY <1>7, <1>q DEF RequestType
<1>8. ASSUME NEW op, NEW x, NEW pc, Begin(r, op, x, pc), op # "handoff"
      PROVE  req'[r].op # "handoff"
  BY <1>8, <1>q DEF Begin, Idle
<1>9. CASE Prepare(r)
  <2> DEFINE b == source[req[r].proj].files # NoFiles
             c == source[req[r].proj]
  <2>1. req' = [req EXCEPT ![r] = [req[r] EXCEPT !.pc = "id", !.ok = b, !.took = c]]
    BY <1>9 DEF Prepare
  <2> HIDE DEF b, c
  <2>2. QED
    BY <1>3, <2>1
<1>10. CASE SetActiveDir(r)
  <2> DEFINE a == IF req[r].ok THEN "clear" ELSE "record"
  <2>1. req' = [req EXCEPT ![r] = [req[r] EXCEPT !.pc = a, !.ok = FALSE]]
    BY <1>10 DEF SetActiveDir
  <2> HIDE DEF a
  <2>2. QED
    BY <1>q, <2>1 DEF RequestType
<1>11. CASE Spawn(r)
  <2> DEFINE a == IF Deploying(r) THEN "record" ELSE "read"
  <2>1. req' = [req EXCEPT ![r] = [req[r] EXCEPT !.ok = TRUE, !.pc = a]] \/ Finish(r) \/ Fail(r)
    BY <1>11 DEF Spawn
  <2> HIDE DEF a
  <2>2. CASE req' = [req EXCEPT ![r] = [req[r] EXCEPT !.ok = TRUE, !.pc = a]]
    BY <1>q, <2>2 DEF RequestType
  <2>3. QED
    BY <1>2, <2>1, <2>2
<1>12. CASE StartAgain(r)
  BY <1>6, <1>12 DEF StartAgain
<1>13. CASE ReadRow(r)
  <2> DEFINE x == store[activeId]
  <2>1. Finish(r) \/ req' = [req EXCEPT ![r] = [req[r] EXCEPT !.pc = "write", !.proj = activeId, !.row = x]]
    BY <1>13 DEF ReadRow
  <2> HIDE DEF x
  <2>2. QED
    BY <1>2, <1>7, <2>1
<1>14. CASE \/ SetActiveId(r) \/ ClearGenerated(r) \/ CompileSt(r) \/ GenerateC(r) \/ MakeClean(r)
            \/ Make(r) \/ ApplyIo(r) \/ StopBeforeStart(r) \/ RecordDeploy(r) \/ WriteRow(r)
  BY <1>1, <1>2, <1>14 DEF SetActiveId, ClearGenerated, CompileSt, GenerateC, MakeClean, Make,
     ApplyIo, StopBeforeStart, RecordDeploy, WriteRow
<1>15. CASE Start(r) \/ Restart(r)
  BY <1>8, <1>15 DEF Start, Restart
<1>16. CASE Stop(r)
  <2> DEFINE b == HandleAlive
  <2>1. req' = [req EXCEPT ![r] = [Idle EXCEPT !.pc = "read", !.op = "stop", !.ok = b]]
    BY <1>16 DEF Stop
  <2> HIDE DEF b
  <2>2. QED
    BY <1>q, <2>1 DEF Idle
<1>17. QED
  BY <1>9, <1>10, <1>11, <1>12, <1>13, <1>14, <1>15, <1>16 DEF Serve

\* Only reading a row leads to writing it.
LEMMA OnlyReadWrites ==
    ASSUME TypeInv, NEW r \in Requests, Serve(r), req'[r].pc = "write"
    PROVE  ReadRow(r)
<1>q. req[r] \in RequestType /\ req \in [Requests -> RequestType]
  BY DEF TypeInv, RequestInv
<1>1. ASSUME NEW pc, Goto(r, pc) PROVE pc = "write"
  BY <1>1, MovedFields
<1>2. ~Fail(r) /\ ~Finish(r)
  BY FailedFields, EndedFields
<1>3. ~Prepare(r)
  <2> DEFINE b == source[req[r].proj].files # NoFiles
             c == source[req[r].proj]
  <2> HIDE DEF b, c
  <2>1. req' # [req EXCEPT ![r] = [req[r] EXCEPT !.pc = "id", !.ok = b, !.took = c]]
    BY <1>q DEF RequestType
  <2>2. QED
    BY <2>1 DEF Prepare, b, c
<1>4. ~SetActiveDir(r)
  <2> DEFINE a == IF req[r].ok THEN "clear" ELSE "record"
  <2>1. a # "write"
    OBVIOUS
  <2> HIDE DEF a
  <2>2. req' # [req EXCEPT ![r] = [req[r] EXCEPT !.pc = a, !.ok = FALSE]]
    BY <1>q, <2>1 DEF RequestType
  <2>3. QED
    BY <2>2 DEF SetActiveDir, a
<1>5. ~Spawn(r)
  <2> DEFINE a == IF Deploying(r) THEN "record" ELSE "read"
  <2>1. a # "write"
    OBVIOUS
  <2> HIDE DEF a
  <2>2. req' # [req EXCEPT ![r] = [req[r] EXCEPT !.ok = TRUE, !.pc = a]]
    BY <1>q, <2>1 DEF RequestType
  <2>3. QED
    BY <1>2, <2>2 DEF Spawn, a
<1>6. ~StartAgain(r)
  <2>1. req' # [req EXCEPT ![r] = [req[r] EXCEPT !.pc = "start", !.proj = activeDir]]
    BY <1>q DEF RequestType
  <2>2. QED
    BY <2>1 DEF StartAgain
<1>7. QED
  BY <1>1, <1>2, <1>3, <1>4, <1>5, <1>6 DEF Serve, SetActiveId, ClearGenerated, CompileSt, GenerateC,
     MakeClean, Make, ApplyIo, StopBeforeStart, RecordDeploy, WriteRow

\* Every step of requests that come one at a time keeps what the rows say.
LEMMA RowStep ==
    ASSUME TypeInv, DeployedInv, RowInv, InTurn,
           \A r \in Requests : req'[r].op # "handoff"
    PROVE  RowInv'
<1>q. req \in [Requests -> RequestType] /\ \A r \in Requests : RequestOK(req[r])
  BY DEF TypeInv, RequestInv
<1>1. ASSUME NEW r \in Requests, Turn(r), ReadRow(r)
      PROVE  RowInv'
  <2>1. UNCHANGED <<store, outcome>> /\ \A q \in Requests : q = r \/ req'[q].pc # "write"
    BY <1>1, OthersIdle DEF ReadRow
  <2>2. At(r, "write")' => /\ store[req'[r].proj] # None
                           /\ req'[r].row.validation = store[req'[r].proj].validation
    <3> DEFINE x == store[activeId]
    <3>1. CASE Finish(r)
      BY <3>1, EndedFields DEF At
    <3>2. CASE x # None /\ req' = [req EXCEPT ![r] = [req[r] EXCEPT !.pc = "write", !.proj = activeId, !.row = x]]
      <4>1. req'[r].row = x /\ req'[r].proj = activeId
        <5> HIDE DEF x
        <5>1. QED
          BY <1>q, <3>2 DEF RequestType
      <4>2. QED
        BY <3>2, <4>1
    <3>3. QED
      BY <1>1, <3>1, <3>2 DEF ReadRow
  <2>3. QED
    BY <2>1, <2>2 DEF RowInv, At
<1>2. ASSUME NEW r \in Requests, Turn(r), Serve(r), ~ReadRow(r)
      PROVE  RowInv'
  <2>1. \A q \in Requests : req'[q].pc # "write"
    BY <1>2, OnlyReadWrites, OthersIdle
  <2>2. CASE UNCHANGED <<store, outcome>>
    BY <2>1, <2>2 DEF RowInv, At
  <2>3. CASE RecordDeploy(r)
    <3>1. PICK p \in Projects : p = req[r].proj
      BY <1>q, <2>3 DEF RecordDeploy, At, RequestOK, Working
    <3> DEFINE v == Said(req[r].ok)
               t == IF req[r].ok THEN req[r].took ELSE Nothing
               s == IF req[r].ok THEN "deployed" ELSE "failed"
               x == [deploy |-> s, validation |-> v]
    <3>2. req[r].op = "deploy"
      BY <2>3 DEF RecordDeploy, At, DeployedInv, Delivery, DeployPc, Delivering, RowInv
    <3>3. outcome' = [outcome EXCEPT ![p] = [verdict |-> v, took |-> t]] /\ store' = [store EXCEPT ![p] = x]
      BY <2>3, <3>1, <3>2 DEF RecordDeploy
    <3>4. x \in RowType
      BY DEF RowType, Said, Verdict
    <3>5. x # None
      BY <3>4, RowAssumption
    <3>6. x.validation = v
      OBVIOUS
    <3> HIDE DEF s, t, v, x
    <3>7. QED
      BY <2>1, <3>3, <3>5, <3>6 DEF RowInv, At, TypeInv, TypeOK
  <2>4. CASE WriteRow(r)
    <3>1. PICK p \in Projects : p = req[r].proj
      BY <1>q, <2>4 DEF WriteRow, At, RequestOK, Working
    <3>2. req[r].row \in RowType /\ req[r].row.validation = store[p].validation
      BY <1>q, <2>4, <3>1 DEF WriteRow, At, RequestOK, RowInv
    <3>3. PICK x \in RowType : store' = [store EXCEPT ![p] = x] /\ x.validation = req[r].row.validation
      <4>1. \A d \in {"running", "stopped"} :
              /\ [req[r].row EXCEPT !.deploy = d] \in RowType
              /\ [req[r].row EXCEPT !.deploy = d].validation = req[r].row.validation
        BY <3>2 DEF RowType
      <4>2. QED
        BY <2>4, <3>1, <3>2, <4>1 DEF WriteRow
    <3>4. x # None
      BY RowAssumption
    <3>5. UNCHANGED outcome
      BY <2>4 DEF WriteRow
    <3>6. QED
      BY <2>1, <3>2, <3>3, <3>4, <3>5 DEF RowInv, At, TypeInv, TypeOK
  <2>5. QED
    BY <1>2, <2>2, <2>3, <2>4 DEF Serve, Prepare, SetActiveId, SetActiveDir, ClearGenerated, CompileSt,
       GenerateC, MakeClean, Make, ApplyIo, StopBeforeStart, Spawn, StartAgain
<1>3. ASSUME NEW r \in Requests, Turn(r), (\E p \in Projects : Deploy(r, p)) \/ Start(r) \/ Stop(r) \/ Restart(r)
      PROVE  RowInv'
  <2>1. \A q \in Requests : req'[q].pc # "write"
    BY <1>3, Arrivals, OthersIdle
  <2>2. UNCHANGED <<store, outcome>>
    BY <1>3 DEF Deploy, Start, Stop, Restart
  <2>3. QED
    BY <2>1, <2>2 DEF RowInv, At
<1>4. CASE (\E p \in Projects : Generate(p) \/ Export(p)) \/ (\E x \in Processes : End(x)) \/ UNCHANGED vars
  <2>1. UNCHANGED <<store, outcome, req>>
    BY <1>4 DEF Generate, Export, End, vars
  <2>2. QED
    BY <2>1 DEF RowInv, At
<1>5. QED
  BY <1>1, <1>2, <1>3, <1>4 DEF InTurn

\* In the part of the runs where requests come one at a time at most one is at work, and
\* those that are not are blank.
Alone ==
    /\ \A q, r \in Requests : q # r => req[q] = Idle \/ req[r] = Idle
    /\ \A r \in Requests : At(r, "idle") => req[r] = Idle

\* A step that leaves a request idle leaves its record blank.
LEMMA IdleIsBlank ==
    ASSUME TypeInv, NEW r \in Requests, Serve(r), req'[r].pc = "idle"
    PROVE  req'[r] = Idle
<1>q. req[r] \in RequestType /\ req \in [Requests -> RequestType]
  BY DEF TypeInv, RequestInv
<1> SUFFICES ASSUME ~Finish(r) PROVE FALSE
  BY EndedFields
<1>1. ASSUME NEW pc, Goto(r, pc) PROVE pc = "idle"
  BY <1>1, MovedFields
<1>2. ~Fail(r)
  BY <1>1 DEF Fail
<1>3. ~Prepare(r)
  <2> DEFINE b == source[req[r].proj].files # NoFiles
             c == source[req[r].proj]
  <2> HIDE DEF b, c
  <2>1. req' # [req EXCEPT ![r] = [req[r] EXCEPT !.pc = "id", !.ok = b, !.took = c]]
    BY <1>q DEF RequestType
  <2>2. QED
    BY <2>1 DEF Prepare, b, c
<1>4. ~SetActiveDir(r)
  <2> DEFINE a == IF req[r].ok THEN "clear" ELSE "record"
  <2>1. a # "idle"
    OBVIOUS
  <2> HIDE DEF a
  <2>2. req' # [req EXCEPT ![r] = [req[r] EXCEPT !.pc = a, !.ok = FALSE]]
    BY <1>q, <2>1 DEF RequestType
  <2>3. QED
    BY <2>2 DEF SetActiveDir, a
<1>5. ~Spawn(r)
  <2> DEFINE a == IF Deploying(r) THEN "record" ELSE "read"
  <2>1. a # "idle"
    OBVIOUS
  <2> HIDE DEF a
  <2>2. req' # [req EXCEPT ![r] = [req[r] EXCEPT !.ok = TRUE, !.pc = a]]
    BY <1>q, <2>1 DEF RequestType
  <2>3. QED
    BY <1>2, <2>2 DEF Spawn, a
<1>6. ~StartAgain(r)
  <2>1. req' # [req EXCEPT ![r] = [req[r] EXCEPT !.pc = "start", !.proj = activeDir]]
    BY <1>q DEF RequestType
  <2>2. QED
    BY <2>1 DEF StartAgain
<1>7. ~ReadRow(r)
  <2> DEFINE x == store[activeId]
  <2> HIDE DEF x
  <2>1. req' # [req EXCEPT ![r] = [req[r] EXCEPT !.pc = "write", !.proj = activeId, !.row = x]]
    BY <1>q DEF RequestType
  <2>2. QED
    BY <2>1 DEF ReadRow, x
<1>8. QED
  BY <1>1, <1>2, <1>3, <1>4, <1>5, <1>6, <1>7 DEF Serve, SetActiveId, ClearGenerated, CompileSt,
     GenerateC, MakeClean, Make, ApplyIo, StopBeforeStart, RecordDeploy, WriteRow

\* A request's step writes no record but its own.
LEMMA OwnRecord ==
    ASSUME TypeInv, NEW r \in Requests,
           \/ Serve(r) \/ (\E p \in Projects : Deploy(r, p)) \/ Start(r) \/ Stop(r) \/ Restart(r)
    PROVE  \A q \in Requests \ {r} : req'[q] = req[q]
<1>1. \E x : req' = [req EXCEPT ![r] = x]
  <2> DEFINE Own == \E x : req' = [req EXCEPT ![r] = x]
  <2>1. ASSUME NEW pc, Goto(r, pc) PROVE Own
    BY <2>1 DEF Goto
  <2>2. ASSUME Fail(r) \/ Finish(r) PROVE Own
    BY <2>1, <2>2 DEF Fail, Finish
  <2>3. ASSUME NEW op, NEW p, NEW pc, Begin(r, op, p, pc) PROVE Own
    BY <2>3 DEF Begin
  <2>4. ASSUME Prepare(r) \/ SetActiveDir(r) \/ StartAgain(r) \/ Stop(r)
        PROVE  Own
    BY <2>4 DEF Prepare, SetActiveDir, StartAgain, Stop
  <2>5. ASSUME ReadRow(r) PROVE Own
    BY <2>2, <2>5 DEF ReadRow
  <2>6. ASSUME Spawn(r) PROVE Own
    BY <2>2, <2>6 DEF Spawn
  <2> HIDE DEF Own
  <2>7. ASSUME (\E p \in Projects : Deploy(r, p)) \/ Start(r) \/ Restart(r)
        PROVE  Own
    BY <2>3, <2>7 DEF Deploy, Start, Restart
  <2>8. ASSUME \/ SetActiveId(r) \/ ClearGenerated(r) \/ CompileSt(r) \/ GenerateC(r)
               \/ MakeClean(r) \/ Make(r) \/ ApplyIo(r) \/ StopBeforeStart(r) \/ RecordDeploy(r)
               \/ WriteRow(r)
        PROVE  Own
    BY <2>1, <2>2, <2>8 DEF SetActiveId, ClearGenerated, CompileSt, GenerateC, MakeClean, Make,
       ApplyIo, StopBeforeStart, RecordDeploy, WriteRow
  <2>9. Own
    BY <2>4, <2>5, <2>6, <2>7, <2>8 DEF Serve, Own
  <2>10. QED
    BY <2>9 DEF Own
<1>2. QED
  BY <1>1 DEF TypeInv, RequestInv

\* The steps of that part are steps in turn that keep it so and make no handoff.
LEMMA AloneStep ==
    ASSUME TypeInv, Alone, Serially, [MCNext]_<<vars, part>>,
           \A r \in Requests : req[r].op # "handoff"
    PROVE  InTurn /\ Alone' /\ Serially' /\ \A r \in Requests : req'[r].op # "handoff"
<1>p. Serially'
  BY DEF MCNext, Serially, vars
<1>1. ASSUME NEW r \in Requests, Quiet,
             (\E p \in Projects : Deploy(r, p)) \/ Start(r) \/ Stop(r) \/ Restart(r)
      PROVE  Turn(r) /\ Alone'
  BY <1>1, OwnRecord, Arrivals DEF Quiet, At, Alone, Turn
<1>2. ASSUME NEW r \in Requests, Serve(r)
      PROVE  Turn(r) /\ Alone' /\ req'[r].op # "handoff"
  <2>1. req[r] # Idle
    <3>1. req[r].pc # "idle"
      BY <1>2 DEF Serve, Prepare, SetActiveId, SetActiveDir, ClearGenerated, CompileSt, GenerateC,
         MakeClean, Make, ApplyIo, StopBeforeStart, Spawn, RecordDeploy, StartAgain, ReadRow, WriteRow,
         At
    <3>2. QED
      BY <3>1 DEF Idle
  <2>2. QED
    BY <1>2, <2>1, OwnRecord, IdleIsBlank, StaysNoHandoff DEF At, Alone, Turn
<1>3. ASSUME UNCHANGED req
      PROVE  Alone' /\ \A r \in Requests : req'[r].op # "handoff"
  BY <1>3 DEF Alone, At
<1>4. ASSUME NEW r \in Requests, Turn(r), req'[r].op # "handoff"
      PROVE  \A q \in Requests : req'[q].op # "handoff"
  BY <1>4, OthersIdle
<1>5. CASE \E r \in Requests, p \in Projects : Quiet /\ Deploy(r, p) /\ req'[r].op # "handoff"
  BY <1>5, <1>1, <1>4, <1>p DEF InTurn
<1>6. CASE \E r \in Requests : Quiet /\ (Start(r) \/ Stop(r) \/ Restart(r))
  BY <1>6, <1>1, <1>4, <1>p, StaysNoHandoff DEF InTurn
<1>7. CASE \E r \in Requests : Serve(r)
  BY <1>7, <1>2, <1>4, <1>p DEF InTurn
<1>8. CASE (\E p \in Projects : Generate(p)) \/ (\E x \in Processes : End(x)) \/ UNCHANGED vars
  BY <1>8, <1>3, <1>p DEF InTurn, Generate, End, vars
<1>9. QED
  BY <1>5, <1>6, <1>7, <1>8 DEF MCNext, OneAtATime, NoHandoff, vars

\* In the part of the runs where requests come one at a time, for any project and without
\* handoffs, one process drives the plant, and the row of a project tells how its last deploy
\* ended, whatever start and stop have written back into it since.
THEOREM RowsTellOutcomes == MCSpec => []SerialRowsTell
<1> DEFINE Inv == TypeInv /\ (Serially => Alone /\ OneInv /\ DeployedInv /\ RowInv)
<1>1. MCInit => Inv
  BY TypeInit DEF MCInit, Init, DeployedInv, Delivery, DeployPc, Delivering, Idle, At, Delivered,
     Driven, GoesOn, Ended, OneInv, OneProcessGoesOn, RowInv, Alone
<1>2. Inv /\ [MCNext]_<<vars, part>> => Inv'
  <2> SUFFICES ASSUME Inv, [MCNext]_<<vars, part>> PROVE Inv'
    OBVIOUS
  <2>1. [Next]_vars
    BY DEF MCNext, Next, vars
  <2>2. TypeInv'
    BY <2>1, TypeStep
  <2>3. Serially' => Serially
    BY DEF MCNext, Serially, vars
  <2>4. CASE Serially
    <3>1. InTurn /\ Alone' /\ \A r \in Requests : req'[r].op # "handoff"
      BY <2>4, AloneStep DEF RowInv
    <3>2. QED
      BY <2>2, <2>4, <3>1, OneStep, DeployedStep, RowStep
  <2>5. QED
    BY <2>2, <2>3, <2>4
<1>3. Inv => SerialRowsTell
  BY DEF SerialRowsTell, OneInv, RowInv, RowTellsOutcome
<1>4. QED
  BY <1>1, <1>2, <1>3, PTL DEF MCSpec
=============================================================================
