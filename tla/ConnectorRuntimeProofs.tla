------------------------- MODULE ConnectorRuntimeProofs -------------------------
(***************************************************************************)
(* Proofs about ConnectorRuntime, for every number of connectors, requests *)
(* and threads.                                                            *)
(***************************************************************************)
EXTENDS MCConnectorRuntime, TLAPS

(***************************************************************************)
(* Records: what their fields hold and what an update of a field leaves.   *)
(***************************************************************************)
\* The records that the handlers build for a request are requests.
LEMMA RequestBuilt ==
    ASSUME NEW op \in Ops, NEW c \in Maybe(Connectors), NEW pc \in RequestPc,
           NEW config \in Maybe(Configs), NEW enable \in BOOLEAN,
           NEW held \in Maybe(Workers)
    PROVE  Request(op, c, pc, config, enable, held) \in RequestType
  BY DEF Request, RequestType

\* Fields of a request, and its record after a field was assigned.
LEMMA RequestFields ==
    ASSUME NEW q \in RequestType
    PROVE  /\ q.pc \in RequestPc /\ q.op \in Ops /\ q.conn \in Maybe(Connectors)
           /\ q.config \in Maybe(Configs) /\ q.enable \in BOOLEAN /\ q.held \in Maybe(Workers)
           /\ \A p \in RequestPc : [q EXCEPT !.pc = p] \in RequestType
           /\ \A h \in Maybe(Workers) : [q EXCEPT !.held = h] \in RequestType
           /\ \A k \in Maybe(Configs) : [q EXCEPT !.config = k] \in RequestType
  BY DEF RequestType

\* Fields of a row, and its record after a field was assigned.
LEMMA RowFields ==
    ASSUME NEW x \in RowType
    PROVE  /\ x.state \in {"never", "stored", "deleted"} /\ x.enabled \in BOOLEAN
           /\ x.running \in BOOLEAN /\ x.config \in Maybe(Configs)
           /\ \A b \in BOOLEAN : /\ [x EXCEPT !.enabled = b] \in RowType
                                 /\ [x EXCEPT !.running = b] \in RowType
           /\ \A k \in Maybe(Configs) : [x EXCEPT !.config = k] \in RowType
  BY DEF RowType

\* Fields of a worker, and its record after a field was assigned.
LEMMA WorkerFields ==
    ASSUME NEW x \in WorkerType
    PROVE  /\ x.pc \in WorkerPc /\ x.conn \in Maybe(Connectors)
           /\ x.config \in Maybe(Configs) /\ x.stop \in BOOLEAN
           /\ \A p \in WorkerPc : [x EXCEPT !.pc = p] \in WorkerType
           /\ \A b \in BOOLEAN : [x EXCEPT !.stop = b] \in WorkerType
  BY DEF WorkerType

\* The constant records have their types.
LEMMA Blank ==
    /\ NoRow \in RowType /\ Tombstone \in RowType
    /\ Nobody \in WorkerType /\ NoRequest \in RequestType
  BY DEF NoRow, Tombstone, Row, Nobody, NoRequest, Request, RowType, WorkerType,
         RequestType, WorkerPc, RequestPc, Ops, Maybe

\* What Maybe adds to a set.
LEMMA MaybeFacts ==
    ASSUME NEW S
    PROVE  None \in Maybe(S) /\ S \subseteq Maybe(S)
  BY DEF Maybe

(***************************************************************************)
(* Every variable keeps its type.  The typing is inductive together with   *)
(* the placement of the threads: a request at work and a live worker have  *)
(* a connector, and a request holds a worker exactly while it stops and    *)
(* joins it.                                                               *)
(***************************************************************************)
RequestsOK ==
    /\ req \in [Requests -> RequestType]
    /\ \A r \in Requests :
        /\ req[r].pc # "idle" => req[r].conn \in Connectors
        /\ req[r].held # None <=> req[r].pc \in {"signal", "join"}

WorkersOK ==
    /\ worker \in [Workers -> WorkerType]
    /\ \A w \in Workers : Alive(w) => worker[w].conn \in Connectors

TypeInv == TypeOK /\ RequestsOK /\ WorkersOK

\* A whole record is assigned to a request.
LEMMA AssignRequest ==
    ASSUME RequestsOK, NEW r \in Requests, NEW q \in RequestType,
           req' = [req EXCEPT ![r] = q],
           q.pc # "idle" => q.conn \in Connectors,
           q.held # None <=> q.pc \in {"signal", "join"}
    PROVE  RequestsOK'
  BY DEF RequestsOK

\* Only pc is assigned.
LEMMA GotoRequest ==
    ASSUME RequestsOK, NEW r \in Requests, NEW p \in RequestPc \ {"idle"},
           Goto(r, p), req[r].pc # "idle",
           p \in {"signal", "join"} <=> req[r].pc \in {"signal", "join"}
    PROVE  RequestsOK'
<1> DEFINE q == [req[r] EXCEPT !.pc = p]
<1>1. req[r] \in RequestType
  BY DEF RequestsOK
<1>2. q \in RequestType /\ q.pc = p /\ q.conn = req[r].conn /\ q.held = req[r].held
  BY <1>1, RequestFields DEF RequestType
<1>3. req' = [req EXCEPT ![r] = q]
  BY DEF Goto
<1> HIDE DEF q
<1>4. QED
  BY <1>2, <1>3, AssignRequest DEF RequestsOK

\* The handler returns: the request is blank again.
LEMMA FinishRequest ==
    ASSUME RequestsOK, NEW r \in Requests, Finish(r)
    PROVE  RequestsOK'
<1>1. NoRequest \in RequestType /\ NoRequest.pc = "idle" /\ NoRequest.held = None
  BY Blank DEF NoRequest, Request
<1>2. QED
  BY <1>1, AssignRequest DEF Finish

\* The record a new request, or a request that pops its worker, becomes.
LEMMA BecomeRequest ==
    ASSUME RequestsOK, NEW r \in Requests, NEW op \in Ops, NEW c \in Connectors,
           NEW pc \in RequestPc \ {"idle"}, NEW k \in Maybe(Configs),
           NEW e \in BOOLEAN, NEW held \in Maybe(Workers),
           held # None <=> pc \in {"signal", "join"},
           req' = [req EXCEPT ![r] = Request(op, c, pc, k, e, held)]
    PROVE  RequestsOK'
<1>1. Request(op, c, pc, k, e, held) \in RequestType
  BY RequestBuilt, MaybeFacts
<1>2. /\ Request(op, c, pc, k, e, held).pc = pc
      /\ Request(op, c, pc, k, e, held).conn = c
      /\ Request(op, c, pc, k, e, held).held = held
  BY DEF Request
<1>3. QED
  BY <1>1, <1>2, AssignRequest

\* stop_connector takes the worker out of the registry.
LEMMA PopTypes ==
    ASSUME TypeInv, NEW r \in Requests, NEW op \in Ops, NEW c \in Connectors,
           PopWorker(r, op, c)
    PROVE  RequestsOK' /\ registry' \in [Connectors -> Maybe(Workers)]
<1>1. req[r].config \in Maybe(Configs) /\ registry[c] \in Maybe(Workers)
  BY RequestFields DEF TypeInv, TypeOK
<1>2. RequestsOK'
  <2>1. CASE registry[c] = None
    <3>1. req' = [req EXCEPT ![r] = Request(op, c, "purge", req[r].config, FALSE, registry[c])]
      BY <2>1 DEF PopWorker
    <3>2. QED
      BY <1>1, <2>1, <3>1, BecomeRequest DEF TypeInv, RequestPc
  <2>2. CASE registry[c] # None
    <3>1. req' = [req EXCEPT ![r] = Request(op, c, "signal", req[r].config, FALSE, registry[c])]
      BY <2>2 DEF PopWorker
    <3>2. QED
      BY <1>1, <2>2, <3>1, BecomeRequest DEF TypeInv, RequestPc
  <2>3. QED
    BY <2>1, <2>2
<1>3. QED
  BY <1>2 DEF PopWorker, TypeInv, TypeOK, Maybe

\* update_runtime_state keeps rows rows.
LEMMA SetRunningTypes ==
    ASSUME TypeOK, NEW c \in Connectors, NEW b \in BOOLEAN, SetRunning(c, b)
    PROVE  row' \in [Connectors -> RowType]
<1>1. [row[c] EXCEPT !.running = b] \in RowType
  BY RowFields DEF TypeOK
<1>2. QED
  BY <1>1 DEF SetRunning, TypeOK

\* start_connector keeps the types, whether it keeps or launches a worker.
LEMMA StartTypes ==
    ASSUME TypeInv, NEW c \in Connectors, NEW k \in Maybe(Configs), StartConnector(c, k)
    PROVE  /\ registry' \in [Connectors -> Maybe(Workers)]
           /\ WorkersOK'
           /\ meta' \in SUBSET Connectors
<1>1. CASE KeepWorker(c)
  BY <1>1 DEF KeepWorker, TypeInv, TypeOK, WorkersOK, Alive
<1>2. CASE LaunchWorker(c, k)
  <2> DEFINE x == [pc |-> "starting", conn |-> c, config |-> k, stop |-> FALSE]
  <2>1. x \in WorkerType /\ x.conn = c
    BY DEF WorkerType, WorkerPc, Maybe
  <2>2. PICK w \in Workers : /\ worker' = [worker EXCEPT ![w] = x]
                             /\ registry' = [registry EXCEPT ![c] = w]
    BY <1>2 DEF LaunchWorker
  <2> HIDE DEF x
  <2>3. QED
    BY <1>2, <2>1, <2>2 DEF LaunchWorker, TypeInv, TypeOK, WorkersOK, Alive, Maybe
<1>3. QED
  BY <1>1, <1>2 DEF StartConnector

\* A worker that moves on keeps its connector.
LEMMA StepTypes ==
    ASSUME WorkersOK, NEW w \in Workers, NEW from \in WorkerPc \ {"dead"},
           NEW to \in WorkerPc, Step(w, from, to)
    PROVE  WorkersOK'
<1>1. /\ [worker[w] EXCEPT !.pc = to] \in WorkerType
      /\ [worker[w] EXCEPT !.pc = to].conn = worker[w].conn
  BY WorkerFields DEF WorkersOK, WorkerType
<1>2. QED
  BY <1>1 DEF Step, WorkersOK, Alive

\* A thread that ends is nobody.
LEMMA DieTypes ==
    ASSUME WorkersOK, NEW w \in Workers, Die(w)
    PROVE  WorkersOK'
  BY Blank DEF Die, WorkersOK, Alive, Nobody

\* The first step of a handler keeps the types.
LEMMA TypeArrive ==
    ASSUME TypeInv, NEW r \in Requests, Arrive(r)
    PROVE  TypeInv'
<1>1. PICK c \in Connectors : \/ CreateCheck(r, c) \/ UpdateRow(r, c) \/ EnableRow(r, c)
                              \/ DisablePop(r, c) \/ DeleteRead(r, c)
  BY DEF Arrive
<1>2. None \in Maybe(Configs) /\ None \in Maybe(Workers) /\ Configs \subseteq Maybe(Configs)
  BY DEF Maybe
<1>3. row[c] \in RowType
  BY DEF TypeInv, TypeOK
<1>4. CASE CreateCheck(r, c)
  <2> DEFINE e == ~\E d \in Connectors : Enabled(d)
  <2>1. e \in BOOLEAN
    OBVIOUS
  <2>2. PICK k \in Configs : req' = [req EXCEPT ![r] = Request("create", c, "insert", k, e, None)]
    BY <1>4 DEF CreateCheck
  <2> HIDE DEF e
  <2>3. RequestsOK'
    <3>1. k \in Maybe(Configs) /\ "create" \in Ops /\ "insert" \in RequestPc \ {"idle"}
      BY <1>2 DEF Ops, RequestPc
    <3>2. QED
      BY <1>2, <2>1, <2>2, <3>1, BecomeRequest DEF TypeInv
  <2>4. QED
    BY <1>4, <2>3 DEF CreateCheck, TypeInv, TypeOK, RequestsOK, WorkersOK, Alive
<1>5. CASE UpdateRow(r, c)
  <2>1. \A k \in Configs : [row[c] EXCEPT !.config = k] \in RowType
    BY <1>2, <1>3, RowFields
  <2>2. row' \in [Connectors -> RowType]
    BY <1>5, <2>1 DEF UpdateRow, TypeInv, TypeOK
  <2>3. RequestsOK'
    <3>1. CASE row[c].enabled
      BY <1>2, <1>5, <3>1, BecomeRequest DEF UpdateRow, TypeInv, RequestPc, Ops
    <3>2. CASE ~row[c].enabled
      BY <1>5, <3>2 DEF UpdateRow, TypeInv, RequestsOK
    <3>3. QED
      BY <3>1, <3>2
  <2>4. QED
    BY <1>5, <2>2, <2>3 DEF UpdateRow, TypeInv, TypeOK, RequestsOK, WorkersOK, Alive
<1>6. CASE EnableRow(r, c)
  <2>1. row' \in [Connectors -> RowType]
    BY <1>3, <1>6, RowFields DEF EnableRow, TypeInv, TypeOK
  <2>2. RequestsOK'
    BY <1>2, <1>6, BecomeRequest DEF EnableRow, TypeInv, RequestPc, Ops
  <2>3. QED
    BY <1>6, <2>1, <2>2 DEF EnableRow, TypeInv, TypeOK, RequestsOK, WorkersOK, Alive
<1>7. CASE DisablePop(r, c)
  <2>1. RequestsOK' /\ registry' \in [Connectors -> Maybe(Workers)]
    BY <1>7, PopTypes DEF DisablePop, Ops
  <2>2. QED
    BY <1>7, <2>1 DEF DisablePop, TypeInv, TypeOK, RequestsOK, WorkersOK, Alive
<1>8. CASE DeleteRead(r, c)
  <2>1. RequestsOK'
    <3>1. CASE row[c].enabled
      BY <1>2, <1>8, <3>1, BecomeRequest DEF DeleteRead, TypeInv, RequestPc, Ops
    <3>2. CASE ~row[c].enabled
      BY <1>2, <1>8, <3>2, BecomeRequest DEF DeleteRead, TypeInv, RequestPc, Ops
    <3>3. QED
      BY <3>1, <3>2
  <2>2. QED
    BY <1>8, <2>1 DEF DeleteRead, TypeInv, TypeOK, RequestsOK, WorkersOK, Alive
<1>9. QED
  BY <1>1, <1>4, <1>5, <1>6, <1>7, <1>8

\* Every later step of a handler keeps the types.
LEMMA TypeServe ==
    ASSUME TypeInv, NEW r \in Requests, Serve(r)
    PROVE  TypeInv'
<1> DEFINE c == req[r].conn
<1>r. req[r] \in RequestType /\ (req[r].pc # "idle" => c \in Connectors)
  BY DEF TypeInv, TypeOK, RequestsOK
<1>f. /\ req[r].held \in Maybe(Workers) /\ req[r].config \in Maybe(Configs)
      /\ req[r].enable \in BOOLEAN /\ req[r].op \in Ops
  BY <1>r, RequestFields
<1>1. CASE CreateInsert(r)
  <2>1. Row("stored", req[r].enable, FALSE, req[r].config) \in RowType
    BY <1>f DEF Row, RowType
  <2>2. req[r].pc = "insert" /\ c \in Connectors /\ (Goto(r, "read") \/ Finish(r))
    BY <1>1, <1>r DEF CreateInsert, At
  <2>3. row' \in [Connectors -> RowType]
    BY <1>1, <2>1, <2>2 DEF CreateInsert, TypeInv, TypeOK
  <2>4. RequestsOK'
    BY <2>2, GotoRequest, FinishRequest DEF TypeInv, RequestPc
  <2>5. QED
    BY <1>1, <2>3, <2>4 DEF CreateInsert, TypeInv, TypeOK, RequestsOK, WorkersOK, Alive
<1>2. CASE ReadRecord(r)
  <2>1. req[r].pc = "read" /\ c \in Connectors
    BY <1>2, <1>r DEF ReadRecord, At
  <2>2. RequestsOK'
    <3>1. CASE Stored(c)
      <4> DEFINE q == [[req[r] EXCEPT !.config = row[c].config]
                         EXCEPT !.pc = IF req[r].op = "update" THEN "pop" ELSE "start"]
      <4>1. row[c].config \in Maybe(Configs)
        BY <2>1, RowFields DEF TypeInv, TypeOK
      <4>2. [req[r] EXCEPT !.config = row[c].config] \in RequestType
        BY <1>r, <4>1, RequestFields
      <4>3. q \in RequestType
        BY <4>2, RequestFields DEF RequestPc
      <4>4. /\ q.pc \in {"pop", "start"}
            /\ q.conn = c /\ q.held = req[r].held
        BY <1>r DEF RequestType
      <4>5. req' = [req EXCEPT ![r] = q]
        BY <1>2, <3>1 DEF ReadRecord, TypeInv, TypeOK
      <4> HIDE DEF q
      <4>6. QED
        BY <2>1, <4>3, <4>4, <4>5, AssignRequest DEF TypeInv, RequestsOK
    <3>2. CASE ~Stored(c)
      BY <1>2, <3>2, FinishRequest DEF ReadRecord, TypeInv
    <3>3. QED
      BY <3>1, <3>2
  <2>3. QED
    BY <1>2, <2>2 DEF ReadRecord, TypeInv, TypeOK, RequestsOK, WorkersOK, Alive
<1>3. CASE Pop(r)
  <2>1. c \in Connectors
    BY <1>3, <1>r DEF Pop, At
  <2>2. RequestsOK' /\ registry' \in [Connectors -> Maybe(Workers)]
    BY <1>3, <1>f, <2>1, PopTypes DEF Pop
  <2>3. QED
    BY <1>3, <2>2 DEF Pop, TypeInv, TypeOK, RequestsOK, WorkersOK, Alive
<1>4. CASE Signal(r)
  <2>1. RequestsOK'
    BY <1>4, GotoRequest DEF Signal, At, TypeInv, RequestPc
  <2>2. WorkersOK'
    <3> DEFINE h == req[r].held
               x == [worker[h] EXCEPT !.stop = IF Alive(h) THEN TRUE ELSE @]
    <3>1. h \in Workers
      BY <1>4, <1>f DEF Signal, At, TypeInv, RequestsOK, Maybe
    <3>2. x \in WorkerType /\ x.pc = worker[h].pc /\ x.conn = worker[h].conn
      BY <3>1, WorkerFields DEF TypeInv, WorkersOK, WorkerType
    <3>3. worker' = [worker EXCEPT ![h] = x]
      BY <1>4 DEF Signal
    <3> HIDE DEF x
    <3>4. QED
      BY <3>1, <3>2, <3>3 DEF TypeInv, WorkersOK, Alive
  <2>3. QED
    BY <1>4, <2>1, <2>2 DEF Signal, TypeInv, TypeOK, RequestsOK, WorkersOK
<1>5. CASE Join(r)
  <2> DEFINE q == [[req[r] EXCEPT !.pc = "purge"] EXCEPT !.held = None]
  <2>1. q \in RequestType /\ q.pc = "purge" /\ q.held = None /\ q.conn = c
    <3>1. [req[r] EXCEPT !.pc = "purge"] \in RequestType
      BY <1>r, RequestFields DEF RequestPc
    <3>2. q \in RequestType
      BY <3>1, RequestFields, MaybeFacts
    <3>3. QED
      BY <1>r, <3>2 DEF RequestType
  <2>2. req' = [req EXCEPT ![r] = q] /\ req[r].pc = "join"
    BY <1>5 DEF Join, At, TypeInv, TypeOK
  <2> HIDE DEF q
  <2>3. RequestsOK'
    BY <1>r, <2>1, <2>2, AssignRequest DEF TypeInv
  <2>4. QED
    BY <1>5, <2>3 DEF Join, TypeInv, TypeOK, RequestsOK, WorkersOK, Alive
<1>6. CASE Purge(r)
  <2>1. RequestsOK'
    BY <1>6, GotoRequest DEF Purge, At, TypeInv, RequestPc
  <2>2. QED
    BY <1>6, <2>1 DEF Purge, TypeInv, TypeOK, RequestsOK, WorkersOK, Alive
<1>7. CASE MarkStopped(r)
  <2>1. c \in Connectors /\ req[r].pc = "stopped"
    BY <1>7, <1>r DEF MarkStopped, At
  <2>2. row' \in [Connectors -> RowType]
    BY <1>7, <2>1, SetRunningTypes DEF MarkStopped, TypeInv
  <2>3. \E p \in {"start", "drop", "off"} : Goto(r, p)
    BY <1>7 DEF MarkStopped
  <2>4. RequestsOK'
    BY <2>1, <2>3, GotoRequest DEF TypeInv, RequestPc
  <2>5. QED
    BY <1>7, <2>2, <2>4 DEF MarkStopped, TypeInv, TypeOK, RequestsOK, WorkersOK, Alive
<1>8. CASE Start(r)
  <2>1. c \in Connectors
    BY <1>8, <1>r DEF Start, At
  <2>2. RequestsOK'
    BY <1>8, FinishRequest DEF Start, TypeInv
  <2>3. QED
    BY <1>8, <1>f, <2>1, <2>2, StartTypes DEF Start, TypeInv, TypeOK, RequestsOK, WorkersOK
<1>9. CASE Drop(r)
  <2>1. row' \in [Connectors -> RowType]
    BY <1>9, Blank DEF Drop, TypeInv, TypeOK
  <2>2. RequestsOK'
    BY <1>9, FinishRequest DEF Drop, TypeInv
  <2>3. QED
    BY <1>9, <2>1, <2>2 DEF Drop, TypeInv, TypeOK, RequestsOK, WorkersOK, Alive
<1>10. CASE TurnOff(r)
  <2>1. c \in Connectors
    BY <1>10, <1>r DEF TurnOff, At
  <2>2. row' \in [Connectors -> RowType]
    BY <1>10, <2>1, RowFields DEF TurnOff, TypeInv, TypeOK
  <2>3. RequestsOK'
    BY <1>10, FinishRequest DEF TurnOff, TypeInv
  <2>4. QED
    BY <1>10, <2>2, <2>3 DEF TurnOff, TypeInv, TypeOK, RequestsOK, WorkersOK, Alive
<1>11. QED
  BY <1>1, <1>2, <1>3, <1>4, <1>5, <1>6, <1>7, <1>8, <1>9, <1>10 DEF Serve

\* Every step of the start-up hook keeps the types.
LEMMA TypeBoot ==
    ASSUME TypeInv, Boot
    PROVE  TypeInv'
<1>1. CASE BootRead
  <2>1. \A c \in Connectors : row[c].config \in Maybe(Configs)
    BY RowFields DEF TypeInv, TypeOK
  <2>2. boot' \in SUBSET [conn: Connectors, config: Maybe(Configs)]
    BY <1>1, <2>1 DEF BootRead
  <2>3. QED
    BY <1>1, <2>2 DEF BootRead, TypeInv, TypeOK, RequestsOK, WorkersOK, Alive
<1>2. CASE BootStart
  <2>1. PICK b \in boot : StartConnector(b.conn, b.config) /\ boot' = boot \ {b}
    BY <1>2 DEF BootStart
  <2>2. b.conn \in Connectors /\ b.config \in Maybe(Configs)
    BY DEF TypeInv, TypeOK
  <2>3. QED
    BY <1>2, <2>1, <2>2, StartTypes DEF BootStart, TypeInv, TypeOK, RequestsOK, WorkersOK
<1>3. CASE BootDone
  BY <1>3 DEF BootDone, TypeInv, TypeOK, RequestsOK, WorkersOK, Alive
<1>4. CASE BootMigrate
  <2>1. ASSUME NEW c \in Connectors
        PROVE  row[c] \in RowType /\ [row[c] EXCEPT !.enabled = TRUE] \in RowType
    BY RowFields DEF TypeInv, TypeOK
  <2>2. row' \in [Connectors -> RowType]
    BY <1>4, <2>1 DEF BootMigrate
  <2>3. QED
    BY <1>4, <2>2 DEF BootMigrate, TypeInv, TypeOK, RequestsOK, WorkersOK, Alive
<1>5. QED
  BY <1>1, <1>2, <1>3, <1>4 DEF Boot

\* Every step of a worker keeps the types.
LEMMA TypeWork ==
    ASSUME TypeInv, NEW w \in Workers, Work(w) \/ WorkerDbError(w)
    PROVE  TypeInv'
<1> DEFINE c == worker[w].conn
<1>w. worker[w].pc # "dead" => c \in Connectors
  BY DEF TypeInv, WorkersOK, Alive
<1>1. CASE Announce(w)
  <2>1. WorkersOK' /\ c \in Connectors
    BY <1>1, <1>w, StepTypes DEF Announce, Step, TypeInv, WorkerPc
  <2>2. QED
    BY <1>1, <2>1 DEF Announce, TypeInv, TypeOK, RequestsOK, WorkersOK
<1>2. CASE MarkStarted(w)
  <2>1. WorkersOK' /\ c \in Connectors
    BY <1>2, <1>w, StepTypes DEF MarkStarted, Step, TypeInv, WorkerPc
  <2>2. row' \in [Connectors -> RowType]
    BY <1>2, <2>1, SetRunningTypes DEF MarkStarted, TypeInv
  <2>3. QED
    BY <1>2, <2>1, <2>2 DEF MarkStarted, TypeInv, TypeOK, RequestsOK, WorkersOK
<1>3. CASE LoopTest(w)
  <2>1. \/ Step(w, "looping", "stopping") \/ Step(w, "looping", "fetching")
    BY <1>3 DEF LoopTest
  <2>2. WorkersOK'
    BY <2>1, StepTypes DEF TypeInv, WorkerPc
  <2>3. QED
    BY <1>3, <2>2 DEF LoopTest, TypeInv, TypeOK, RequestsOK, WorkersOK
<1>4. CASE RecordSample(w)
  <2>1. WorkersOK' /\ c \in Connectors
    BY <1>4, <1>w, StepTypes DEF RecordSample, Step, TypeInv, WorkerPc
  <2>2. QED
    BY <1>4, <2>1 DEF RecordSample, TypeInv, TypeOK, RequestsOK, WorkersOK
<1>5. CASE ReportSample(w) \/ ReportFetch(w) \/ GiveUp(w)
  <2>1. WorkersOK' /\ c \in Connectors
    BY <1>5, <1>w, StepTypes DEF ReportSample, ReportFetch, GiveUp, Step, TypeInv, WorkerPc
  <2>2. row' \in [Connectors -> RowType]
    BY <1>5, <2>1, SetRunningTypes DEF ReportSample, ReportFetch, GiveUp, TypeInv
  <2>3. QED
    BY <1>5, <2>1, <2>2
       DEF ReportSample, ReportFetch, GiveUp, TypeInv, TypeOK, RequestsOK, WorkersOK
<1>6. CASE MarkWorkerStopped(w)
  <2>1. c \in Connectors
    BY <1>6, <1>w DEF MarkWorkerStopped
  <2>2. row' \in [Connectors -> RowType]
    BY <1>6, <2>1, SetRunningTypes DEF MarkWorkerStopped, TypeInv
  <2>3. WorkersOK'
    BY <1>6, DieTypes DEF MarkWorkerStopped, TypeInv
  <2>4. QED
    BY <1>6, <2>2, <2>3 DEF MarkWorkerStopped, TypeInv, TypeOK, RequestsOK, WorkersOK
<1>7. CASE WorkerDbError(w)
  <2>1. WorkersOK'
    BY <1>7, StepTypes, DieTypes DEF WorkerDbError, TypeInv, WorkerPc
  <2>2. QED
    BY <1>7, <2>1 DEF WorkerDbError, TypeInv, TypeOK, RequestsOK, WorkersOK
<1>8. CASE KeepQuiet(w)
  <2>1. WorkersOK'
    BY <1>8, StepTypes DEF KeepQuiet, TypeInv, WorkerPc
  <2>2. QED
    BY <1>8, <2>1 DEF KeepQuiet, TypeInv, TypeOK, RequestsOK, WorkersOK
<1>9. QED
  BY <1>1, <1>2, <1>3, <1>4, <1>5, <1>6, <1>7, <1>8 DEF Work, EndFetch

\* The typing invariant, inductive.
LEMMA TypeStep == TypeInv /\ [Next]_vars => TypeInv'
<1> SUFFICES ASSUME TypeInv, [Next]_vars PROVE TypeInv'
  OBVIOUS
<1>1. ASSUME NEW r \in Requests, RequestDbError(r) PROVE TypeInv'
  <2>1. RequestsOK'
    BY <1>1, GotoRequest DEF RequestDbError, RequestPc, TypeInv
  <2>2. QED
    BY <1>1, <2>1 DEF RequestDbError, TypeInv, TypeOK, RequestsOK, WorkersOK, Alive
<1>2. CASE Crash
  <2>1. registry' \in [Connectors -> Maybe(Workers)] /\ meta' = {} /\ samples' = {} /\ boot' = {}
    BY <1>2 DEF Crash, Maybe
  <2>2. RequestsOK'
    BY <1>2, Blank DEF Crash, RequestsOK, NoRequest, Request
  <2>3. WorkersOK'
    BY <1>2, Blank DEF Crash, WorkersOK, Alive, Nobody
  <2>4. QED
    BY <1>2, <2>1, <2>2, <2>3 DEF Crash, TypeInv, TypeOK, RequestsOK, WorkersOK
<1>3. CASE UNCHANGED vars
  BY <1>3 DEF vars, TypeInv, TypeOK, RequestsOK, WorkersOK, Alive
<1>4. ASSUME NEW r \in Requests, Arrive(r) PROVE TypeInv'
  BY <1>4, TypeArrive
<1>5. ASSUME NEW r \in Requests, Serve(r) PROVE TypeInv'
  BY <1>5, TypeServe
<1>6. ASSUME NEW w \in Workers, Work(w) \/ WorkerDbError(w) PROVE TypeInv'
  BY <1>6, TypeWork
<1>7. CASE Boot
  BY <1>7, TypeBoot
<1>8. QED
  BY <1>1, <1>2, <1>3, <1>4, <1>5, <1>6, <1>7 DEF Next

\* The initial state is typed.
LEMMA TypeInit == Init => TypeInv
<1> SUFFICES ASSUME Init PROVE TypeInv
  OBVIOUS
<1>1. RequestsOK
  BY Blank DEF Init, RequestsOK, NoRequest, Request
<1>2. WorkersOK
  BY Blank DEF Init, WorkersOK, Alive, Nobody
<1>3. TypeOK
  BY <1>1, <1>2, Blank DEF Init, TypeOK, RequestsOK, WorkersOK, Maybe
<1>4. QED
  BY <1>1, <1>2, <1>3 DEF TypeInv

\* The strengthened typing always holds.
LEMMA Typed == Spec => []TypeInv
  BY TypeInit, TypeStep, PTL DEF Spec

\* Whatever requests, workers, faults and restarts do, every variable has its type.
THEOREM TypeCorrect == Spec => []TypeOK
<1>1. TypeInv => TypeOK
  BY DEF TypeInv
<1>2. QED
  BY <1>1, Typed, PTL

(***************************************************************************)
(* The registry.  A registered thread is its connector's own and nobody    *)
(* told it to stop; a thread that a request is stopping is no longer       *)
(* registered and no other request holds it.                               *)
(***************************************************************************)
RegistryInv ==
    /\ \A c \in Connectors : registry[c] # None =>
        /\ ~worker[registry[c]].stop
        /\ Alive(registry[c]) => worker[registry[c]].conn = c
        /\ \A r \in Requests : req[r].held # registry[c]
        /\ \A d \in Connectors : registry[d] = registry[c] => d = c
    /\ \A q, r \in Requests : req[q].held = req[r].held /\ req[r].held # None => q = r
    /\ \A w \in Workers : ~Alive(w) => worker[w].stop = FALSE

IInv == TypeInv /\ RegistryInv /\ NoOrphanWorker

\* A step that starts, stops and ends no thread.
SameWorkers ==
    \A w \in Workers :
        /\ Alive(w)' <=> Alive(w)
        /\ worker'[w].stop = worker[w].stop
        /\ worker'[w].conn = worker[w].conn

\* A step after which no request holds a thread it did not hold before, and the
\* same requests are about to signal theirs.
SameHolders ==
    \A r \in Requests :
        /\ req'[r].held \in {req[r].held, None}
        /\ req'[r].pc = "signal" <=> req[r].pc = "signal"
        /\ req[r].pc = "signal" => req'[r].held = req[r].held

\* Such a step that leaves the registry alone keeps the invariant.
LEMMA KeepsRegistry ==
    ASSUME IInv, TypeInv', SameWorkers, SameHolders, UNCHANGED registry
    PROVE  IInv'
<1>1. RegistryInv'
  <2>1. \A c \in Connectors : registry[c] # None => registry[c] \in Workers
    BY DEF IInv, TypeInv, TypeOK, Maybe
  <2>2. \A w \in Workers : worker'[w].stop = worker[w].stop /\ worker'[w].conn = worker[w].conn
                           /\ (Alive(w)' <=> Alive(w))
    BY DEF SameWorkers
  <2>3. \A r \in Requests : req'[r].held \in {req[r].held, None}
    BY DEF SameHolders
  <2>4. ASSUME NEW c \in Connectors, registry'[c] # None
        PROVE  /\ ~worker'[registry'[c]].stop
               /\ Alive(registry[c])' => worker'[registry'[c]].conn = c
               /\ \A r \in Requests : req'[r].held # registry'[c]
               /\ \A d \in Connectors : registry'[d] = registry'[c] => d = c
    BY <2>1, <2>2, <2>3, <2>4 DEF IInv, RegistryInv
  <2>5. \A q, r \in Requests : req'[q].held = req'[r].held /\ req'[r].held # None => q = r
    BY <2>3 DEF IInv, RegistryInv
  <2>6. \A w \in Workers : ~Alive(w)' => worker'[w].stop = FALSE
    BY <2>2 DEF IInv, RegistryInv
  <2>7. QED
    BY <2>4, <2>5, <2>6 DEF RegistryInv, Alive
<1>2. NoOrphanWorker'
  <2> SUFFICES ASSUME NEW w \in Workers, Alive(w)'
               PROVE  \/ worker'[w].stop
                      \/ registry'[worker'[w].conn] = w
                      \/ \E r \in Requests : req'[r].pc = "signal" /\ req'[r].held = w
    BY DEF NoOrphanWorker, At
  <2>1. Alive(w) /\ worker'[w].stop = worker[w].stop /\ worker'[w].conn = worker[w].conn
    BY DEF SameWorkers
  <2>2. CASE \E r \in Requests : req[r].pc = "signal" /\ req[r].held = w
    BY <2>2 DEF SameHolders
  <2>3. QED
    BY <2>1, <2>2 DEF IInv, NoOrphanWorker, At
<1>3. QED
  BY <1>1, <1>2 DEF IInv

\* Threads that did not move are the same threads.
LEMMA WorkersUnchanged == UNCHANGED worker => SameWorkers
  BY DEF SameWorkers, Alive

\* A thread that moves from one live pc to another is the same thread.
LEMMA StepKeeps ==
    ASSUME TypeInv, NEW w \in Workers, NEW from \in WorkerPc \ {"dead"},
           NEW to \in WorkerPc \ {"dead"}, Step(w, from, to)
    PROVE  SameWorkers
<1> DEFINE x == [worker[w] EXCEPT !.pc = to]
<1>1. worker[w] \in WorkerType /\ worker \in [Workers -> WorkerType]
  BY DEF TypeInv, TypeOK
<1>2. x.pc = to /\ x.conn = worker[w].conn /\ x.stop = worker[w].stop
  BY <1>1 DEF WorkerType
<1>3. worker' = [worker EXCEPT ![w] = x] /\ worker[w].pc = from
  BY DEF Step
<1> HIDE DEF x
<1>4. QED
  BY <1>1, <1>2, <1>3 DEF SameWorkers, Alive

\* Requests that did not move hold what they held.
LEMMA RequestsUnchanged == UNCHANGED req => SameHolders
  BY DEF SameHolders

\* A request moves on, takes a new record without a thread, or lets its thread go.
LEMMA MoveKeeps ==
    ASSUME TypeInv, NEW r \in Requests, NEW q,
           req' = [req EXCEPT ![r] = q], q.pc # "signal", req[r].pc # "signal",
           q.held \in {req[r].held, None}
    PROVE  SameHolders
  BY DEF SameHolders, TypeInv, TypeOK

\* A request that begins holds nothing and owes no signal.
LEMMA NewRequestKeeps ==
    ASSUME TypeInv, NEW r \in Requests, NEW op, NEW c, NEW pc, NEW k, NEW e,
           req' = [req EXCEPT ![r] = Request(op, c, pc, k, e, None)],
           pc # "signal", req[r].pc # "signal"
    PROVE  SameHolders
<1>1. /\ Request(op, c, pc, k, e, None).pc = pc
      /\ Request(op, c, pc, k, e, None).held = None
  BY DEF Request
<1>2. QED
  BY <1>1, MoveKeeps

\* A request that owes no signal moves on.
LEMMA GotoKeeps ==
    ASSUME TypeInv, NEW r \in Requests, NEW p \in RequestPc,
           Goto(r, p), p # "signal", req[r].pc # "signal"
    PROVE  SameHolders
<1> DEFINE q == [req[r] EXCEPT !.pc = p]
<1>1. q.pc = p /\ q.held = req[r].held
  BY DEF TypeInv, TypeOK, RequestType
<1>2. req' = [req EXCEPT ![r] = q]
  BY DEF Goto
<1> HIDE DEF q
<1>3. QED
  BY <1>1, <1>2, MoveKeeps

\* A request that owes no signal ends.
LEMMA FinishKeeps ==
    ASSUME TypeInv, NEW r \in Requests, Finish(r), req[r].pc # "signal"
    PROVE  SameHolders
<1>1. NoRequest.pc = "idle" /\ NoRequest.held = None
  BY DEF NoRequest, Request
<1>2. QED
  BY <1>1, MoveKeeps DEF Finish

\* A request takes the registered thread of a connector, if there is one.
LEMMA PopKeeps ==
    ASSUME IInv, TypeInv', NEW r \in Requests, NEW op, NEW c \in Connectors,
           PopWorker(r, op, c), UNCHANGED worker, req[r].pc \notin {"signal", "join"}
    PROVE  IInv'
<1> DEFINE h == registry[c]
           q == Request(op, c, IF h = None THEN "purge" ELSE "signal", req[r].config, FALSE, h)
<1>1. q.held = h /\ (q.pc = "signal" <=> h # None)
  BY DEF Request
<1>2. req' = [req EXCEPT ![r] = q] /\ registry' = [registry EXCEPT ![c] = None]
  BY DEF PopWorker
<1>3. req[r].held = None
  BY DEF IInv, TypeInv, RequestsOK
<1> HIDE DEF q
<1>4. /\ req'[r] = q
      /\ \A x \in Requests \ {r} : req'[x] = req[x]
      /\ registry'[c] = None
      /\ \A d \in Connectors \ {c} : registry'[d] = registry[d]
  BY <1>2 DEF IInv, TypeInv, TypeOK
<1>5. RegistryInv'
  <2>1. ASSUME NEW d \in Connectors, registry'[d] # None
        PROVE  /\ ~worker'[registry'[d]].stop
               /\ Alive(registry[d])' => worker'[registry'[d]].conn = d
               /\ \A x \in Requests : req'[x].held # registry'[d]
               /\ \A e \in Connectors : registry'[e] = registry'[d] => e = d
    <3>1. d # c /\ registry'[d] = registry[d]
      BY <1>4, <2>1
    <3>2. \A x \in Requests : req'[x].held # registry'[d]
      BY <1>1, <1>4, <2>1, <3>1 DEF IInv, RegistryInv
    <3>3. \A e \in Connectors : registry'[e] = registry'[d] => e = d
      BY <1>4, <2>1, <3>1 DEF IInv, RegistryInv
    <3>4. QED
      BY <2>1, <3>1, <3>2, <3>3 DEF IInv, RegistryInv, Alive
  <2>2. \A x, y \in Requests : req'[x].held = req'[y].held /\ req'[y].held # None => x = y
    BY <1>1, <1>4 DEF IInv, RegistryInv
  <2>3. \A d \in Connectors : registry'[d] # None => registry'[d] = registry[d]
    BY <1>4
  <2>4. QED
    BY <2>1, <2>2, <2>3 DEF IInv, RegistryInv, Alive
<1>6. NoOrphanWorker'
  <2> SUFFICES ASSUME NEW w \in Workers, Alive(w), ~worker[w].stop
               PROVE  \/ registry'[worker[w].conn] = w
                      \/ \E x \in Requests : req'[x].pc = "signal" /\ req'[x].held = w
    BY DEF NoOrphanWorker, At, Alive
  <2>1. worker[w].conn \in Connectors /\ w # None
    BY NoneAssumption DEF IInv, TypeInv, WorkersOK
  <2>2. CASE registry[worker[w].conn] = w
    BY <1>1, <1>4, <2>1, <2>2
  <2>3. CASE \E x \in Requests : req[x].pc = "signal" /\ req[x].held = w
    BY <1>4, <2>3
  <2>4. QED
    BY <2>2, <2>3 DEF IInv, NoOrphanWorker, At
<1>7. QED
  BY <1>5, <1>6 DEF IInv

\* A fresh thread takes the place of none or of one that ended.
LEMMA StartKeeps ==
    ASSUME IInv, TypeInv', NEW c \in Connectors, NEW k, StartConnector(c, k), SameHolders
    PROVE  IInv'
<1>1. CASE KeepWorker(c)
  BY <1>1, KeepsRegistry, WorkersUnchanged DEF KeepWorker
<1>2. CASE LaunchWorker(c, k)
  <2> DEFINE x == [pc |-> "starting", conn |-> c, config |-> k, stop |-> FALSE]
  <2>1. x.pc # "dead" /\ x.conn = c /\ x.stop = FALSE
    OBVIOUS
  <2>2. PICK w \in Workers : /\ Spare(w)
                             /\ worker' = [worker EXCEPT ![w] = x]
                             /\ registry' = [registry EXCEPT ![c] = w]
    BY <1>2 DEF LaunchWorker
  <2> HIDE DEF x
  <2>3. /\ worker'[w] = x
        /\ \A v \in Workers \ {w} : worker'[v] = worker[v]
        /\ registry'[c] = w
        /\ \A d \in Connectors \ {c} : registry'[d] = registry[d]
    BY <2>2 DEF IInv, TypeInv, TypeOK
  <2>4. /\ w # None /\ ~Alive(w)
        /\ \A d \in Connectors : registry[d] # w
        /\ \A r \in Requests : req[r].held # w
    BY <2>2, NoneAssumption DEF Spare
  <2>5. \A d \in Connectors : registry[d] # None => registry[d] \in Workers
    BY DEF IInv, TypeInv, TypeOK, Maybe
  <2>6. \A r \in Requests : req'[r].held \in {req[r].held, None}
    BY DEF SameHolders
  <2>7. RegistryInv'
    <3>1. ASSUME NEW d \in Connectors, registry'[d] # None
          PROVE  /\ ~worker'[registry'[d]].stop
                 /\ worker'[registry'[d]].pc # "dead" => worker'[registry'[d]].conn = d
                 /\ \A r \in Requests : req'[r].held # registry'[d]
                 /\ \A e \in Connectors : registry'[e] = registry'[d] => e = d
      <4>1. CASE d = c
        BY <2>1, <2>3, <2>4, <2>6, <4>1
      <4>2. CASE d # c
        BY <2>3, <2>4, <2>5, <2>6, <3>1, <4>2 DEF IInv, RegistryInv, Alive
      <4>3. QED
        BY <4>1, <4>2
    <3>2. \A q, r \in Requests : req'[q].held = req'[r].held /\ req'[r].held # None => q = r
      BY <2>6 DEF IInv, RegistryInv
    <3>3. \A v \in Workers : worker'[v].pc = "dead" => worker'[v].stop = FALSE
      BY <2>1, <2>3 DEF IInv, RegistryInv, Alive
    <3>4. QED
      BY <3>1, <3>2, <3>3 DEF RegistryInv, Alive
  <2>8. NoOrphanWorker'
    <3> SUFFICES ASSUME NEW v \in Workers, worker'[v].pc # "dead", ~worker'[v].stop
                 PROVE  \/ registry'[worker'[v].conn] = v
                        \/ \E r \in Requests : req'[r].pc = "signal" /\ req'[r].held = v
      BY DEF NoOrphanWorker, At, Alive
    <3>1. CASE v = w
      BY <2>1, <2>3, <3>1
    <3>2. CASE v # w
      <4>1. /\ worker'[v] = worker[v] /\ Alive(v) /\ ~worker[v].stop
            /\ worker[v].conn \in Connectors
        BY <2>3, <3>2 DEF Alive, IInv, TypeInv, WorkersOK
      <4>2. CASE registry[worker[v].conn] = v
        <5>1. worker[v].conn # c
          BY <1>2, <4>1, <4>2, NoneAssumption DEF LaunchWorker, HasLiveWorker
        <5>2. QED
          BY <2>3, <4>1, <4>2, <5>1
      <4>3. CASE \E r \in Requests : req[r].pc = "signal" /\ req[r].held = v
        BY <4>3 DEF SameHolders
      <4>4. QED
        BY <4>1, <4>2, <4>3 DEF IInv, NoOrphanWorker, At
    <3>3. QED
      BY <3>1, <3>2
  <2>9. QED
    BY <2>7, <2>8 DEF IInv
<1>3. QED
  BY <1>1, <1>2 DEF StartConnector

\* A thread ends.
LEMMA DieKeeps ==
    ASSUME IInv, TypeInv', NEW w \in Workers, Die(w), UNCHANGED <<registry, req>>
    PROVE  IInv'
<1>1. /\ worker'[w].pc = "dead" /\ worker'[w].stop = FALSE
      /\ \A v \in Workers \ {w} : worker'[v] = worker[v]
  BY DEF Die, Nobody, IInv, TypeInv, TypeOK
<1>2. \A d \in Connectors : registry[d] # None => registry[d] \in Workers
  BY DEF IInv, TypeInv, TypeOK, Maybe
<1>3. RegistryInv'
  <2>1. ASSUME NEW d \in Connectors, registry[d] # None
        PROVE  /\ ~worker'[registry[d]].stop
               /\ worker'[registry[d]].pc # "dead" => worker'[registry[d]].conn = d
    BY <1>1, <1>2, <2>1 DEF IInv, RegistryInv, Alive
  <2>2. \A v \in Workers : worker'[v].pc = "dead" => worker'[v].stop = FALSE
    BY <1>1 DEF IInv, RegistryInv, Alive
  <2>3. QED
    BY <2>1, <2>2 DEF IInv, RegistryInv, Alive
<1>4. NoOrphanWorker'
  BY <1>1 DEF IInv, NoOrphanWorker, Alive, At
<1>5. QED
  BY <1>3, <1>4 DEF IInv

\* stop_event of the held thread is set.
LEMMA SignalKeeps ==
    ASSUME IInv, TypeInv', NEW r \in Requests, Signal(r)
    PROVE  IInv'
<1> DEFINE h == req[r].held
           x == [worker[h] EXCEPT !.stop = IF Alive(h) THEN TRUE ELSE @]
           q == [req[r] EXCEPT !.pc = "join"]
<1>1. /\ h \in Workers /\ req[r].pc = "signal"
      /\ worker' = [worker EXCEPT ![h] = x]
      /\ req' = [req EXCEPT ![r] = q]
      /\ UNCHANGED registry
  BY RequestFields DEF Signal, Goto, At, IInv, TypeInv, TypeOK, RequestsOK, Maybe
<1>2. /\ q.held = h /\ q.pc = "join"
      /\ x.pc = worker[h].pc /\ x.conn = worker[h].conn
      /\ Alive(h) => x.stop
      /\ ~Alive(h) => x.stop = worker[h].stop
  <2>1. worker[h] \in WorkerType /\ req[r] \in RequestType
    BY <1>1 DEF IInv, TypeInv, TypeOK
  <2>2. x.stop = IF Alive(h) THEN TRUE ELSE worker[h].stop
    BY <2>1 DEF WorkerType
  <2>3. QED
    BY <2>1, <2>2 DEF WorkerType, RequestType
<1> HIDE DEF x, q
<1>3. /\ worker'[h] = x /\ \A v \in Workers \ {h} : worker'[v] = worker[v]
      /\ req'[r] = q /\ \A y \in Requests \ {r} : req'[y] = req[y]
  BY <1>1 DEF IInv, TypeInv, TypeOK
<1>4. h # None /\ \A d \in Connectors : registry[d] # None => registry[d] \in Workers \ {h}
  BY <1>1, NoneAssumption DEF IInv, TypeInv, TypeOK, RegistryInv, Maybe
<1>5. \A y \in Requests : req'[y].held = req[y].held
  BY <1>2, <1>3
<1>6. RegistryInv'
  <2>1. ASSUME NEW d \in Connectors, registry[d] # None
        PROVE  worker'[registry[d]] = worker[registry[d]]
    BY <1>3, <1>4, <2>1
  <2>2. \A v \in Workers : worker'[v].pc = "dead" => worker'[v].stop = FALSE
    BY <1>2, <1>3 DEF IInv, RegistryInv, Alive
  <2>3. QED
    BY <1>1, <1>5, <2>1, <2>2 DEF IInv, RegistryInv, Alive
<1>7. NoOrphanWorker'
  <2> SUFFICES ASSUME NEW v \in Workers, worker'[v].pc # "dead", ~worker'[v].stop
               PROVE  \/ registry[worker'[v].conn] = v
                      \/ \E y \in Requests : req'[y].pc = "signal" /\ req'[y].held = v
    BY <1>1 DEF NoOrphanWorker, At, Alive
  <2>1. v # h
    BY <1>2, <1>3 DEF Alive
  <2>2. worker'[v] = worker[v] /\ Alive(v)
    BY <1>3, <2>1 DEF Alive
  <2>3. ASSUME NEW y \in Requests, req[y].pc = "signal", req[y].held = v
        PROVE  req'[y].pc = "signal" /\ req'[y].held = v
    BY <1>3, <2>1, <2>3
  <2>4. QED
    BY <2>2, <2>3 DEF IInv, NoOrphanWorker, At
<1>8. QED
  BY <1>6, <1>7 DEF IInv

\* Every step of a handler keeps the registry's invariant.
LEMMA RequestKeeps ==
    ASSUME IInv, TypeInv', NEW r \in Requests, Arrive(r) \/ Serve(r) \/ RequestDbError(r)
    PROVE  IInv'
<1>t. TypeInv /\ req[r] \in RequestType /\ (req[r].pc # "idle" => req[r].conn \in Connectors)
  BY DEF IInv, TypeInv, TypeOK, RequestsOK
<1>1. ASSUME NEW c \in Connectors,
             CreateCheck(r, c) \/ UpdateRow(r, c) \/ EnableRow(r, c) \/ DeleteRead(r, c)
      PROVE  IInv'
  <2>1. req[r].pc = "idle" /\ UNCHANGED <<registry, worker>>
    BY <1>1 DEF CreateCheck, UpdateRow, EnableRow, DeleteRead, Begin
  <2>3. SameHolders
    <3>1. CASE CreateCheck(r, c)
      <4>1. PICK k \in Configs :
              req' = [req EXCEPT ![r] = Request("create", c, "insert", k,
                                                ~\E d \in Connectors : Enabled(d), None)]
        BY <3>1 DEF CreateCheck
      <4>2. QED
        BY <1>t, <2>1, <4>1, NewRequestKeeps
    <3>2. CASE UpdateRow(r, c)
      <4>1. CASE row[c].enabled
        BY <1>t, <2>1, <3>2, <4>1, NewRequestKeeps DEF UpdateRow
      <4>2. CASE ~row[c].enabled
        BY <3>2, <4>2, RequestsUnchanged DEF UpdateRow
      <4>3. QED
        BY <4>1, <4>2
    <3>3. CASE EnableRow(r, c)
      BY <1>t, <2>1, <3>3, NewRequestKeeps DEF EnableRow
    <3>4. CASE DeleteRead(r, c)
      <4>1. CASE row[c].enabled
        BY <1>t, <2>1, <3>4, <4>1, NewRequestKeeps DEF DeleteRead
      <4>2. CASE ~row[c].enabled
        BY <1>t, <2>1, <3>4, <4>2, NewRequestKeeps DEF DeleteRead
      <4>3. QED
        BY <4>1, <4>2
    <3>5. QED
      BY <1>1, <3>1, <3>2, <3>3, <3>4
  <2>4. QED
    BY <2>1, <2>3, KeepsRegistry, WorkersUnchanged
<1>2. ASSUME NEW c \in Connectors, DisablePop(r, c) PROVE IInv'
  BY <1>2, PopKeeps DEF DisablePop, Begin
<1>3. CASE Pop(r)
  BY <1>3, <1>t, PopKeeps DEF Pop, At
<1>4. CASE Signal(r)
  BY <1>4, SignalKeeps
<1>5. CASE Start(r)
  <2>1. SameHolders
    BY <1>5, <1>t, FinishKeeps DEF Start, At
  <2>2. QED
    BY <1>5, <1>t, <2>1, StartKeeps DEF Start, At
<1>6. CASE Join(r)
  <2> DEFINE q == [[req[r] EXCEPT !.pc = "purge"] EXCEPT !.held = None]
  <2>1. q.pc = "purge" /\ q.held = None
    BY <1>t DEF RequestType
  <2>2. req' = [req EXCEPT ![r] = q] /\ req[r].pc = "join" /\ UNCHANGED <<registry, worker>>
    BY <1>6, <1>t DEF Join, At, TypeInv, TypeOK
  <2> HIDE DEF q
  <2>3. SameHolders
    BY <1>t, <2>1, <2>2, MoveKeeps
  <2>4. QED
    BY <2>2, <2>3, KeepsRegistry, WorkersUnchanged
<1>7. CASE ReadRecord(r)
  <2>1. req[r].pc = "read" /\ UNCHANGED <<registry, worker>>
    BY <1>7 DEF ReadRecord, At
  <2>2. CASE Stored(req[r].conn)
    <3> DEFINE q == [[req[r] EXCEPT !.config = row[req[r].conn].config]
                       EXCEPT !.pc = IF req[r].op = "update" THEN "pop" ELSE "start"]
    <3>1. q.pc # "signal" /\ q.held = req[r].held
      BY <1>t DEF RequestType
    <3>2. req' = [req EXCEPT ![r] = q]
      BY <1>7, <1>t, <2>2 DEF ReadRecord, TypeInv, TypeOK
    <3> HIDE DEF q
    <3>3. QED
      BY <1>t, <2>1, <3>1, <3>2, MoveKeeps, KeepsRegistry, WorkersUnchanged
  <2>3. CASE ~Stored(req[r].conn)
    BY <1>7, <1>t, <2>1, <2>3, FinishKeeps, KeepsRegistry, WorkersUnchanged DEF ReadRecord
  <2>4. QED
    BY <2>2, <2>3
<1>8. CASE CreateInsert(r) \/ Purge(r) \/ MarkStopped(r) \/ Drop(r) \/ TurnOff(r)
           \/ RequestDbError(r)
  <2>1. req[r].pc # "signal" /\ UNCHANGED <<registry, worker>>
    BY <1>8 DEF CreateInsert, Purge, MarkStopped, Drop, TurnOff, RequestDbError, At
  <2>2. Finish(r) \/ \E p \in {"read", "stopped", "start", "drop", "off", "failed"} : Goto(r, p)
    BY <1>8 DEF CreateInsert, Purge, MarkStopped, Drop, TurnOff, RequestDbError
  <2>3. SameHolders
    BY <1>t, <2>1, <2>2, GotoKeeps, FinishKeeps DEF RequestPc
  <2>4. QED
    BY <2>1, <2>3, KeepsRegistry, WorkersUnchanged
<1>9. QED
  BY <1>1, <1>2, <1>3, <1>4, <1>5, <1>6, <1>7, <1>8 DEF Arrive, Serve

\* A step of a worker ends it, or moves it from one live pc to another.
LEMMA WorkerMoves ==
    ASSUME NEW w \in Workers, Work(w) \/ WorkerDbError(w)
    PROVE  Die(w) \/ \E from, to \in WorkerPc \ {"dead"} : Step(w, from, to)
<1>1. CASE LoopTest(w)
  <2>1. Step(w, "looping", "stopping") \/ Step(w, "looping", "fetching")
    BY <1>1 DEF LoopTest
  <2>2. QED
    BY <2>1 DEF WorkerPc
<1>2. CASE MarkWorkerStopped(w) \/ WorkerDbError(w)
  BY <1>2 DEF MarkWorkerStopped, WorkerDbError, WorkerPc
<1>3. CASE Announce(w) \/ MarkStarted(w) \/ RecordSample(w) \/ ReportSample(w)
           \/ EndFetch(w) \/ GiveUp(w)
  BY <1>3 DEF Announce, MarkStarted, RecordSample, ReportSample, ReportFetch, KeepQuiet,
       EndFetch, GiveUp, WorkerPc
<1>4. QED
  BY <1>1, <1>2, <1>3 DEF Work

\* Every step of a worker keeps it.
LEMMA WorkerKeeps ==
    ASSUME IInv, TypeInv', NEW w \in Workers, Work(w) \/ WorkerDbError(w)
    PROVE  IInv'
<1>1. UNCHANGED <<registry, req>>
  BY DEF Work, WorkerDbError, Announce, MarkStarted, LoopTest, RecordSample, ReportSample,
         ReportFetch, KeepQuiet, EndFetch, GiveUp, MarkWorkerStopped
<1>2. Die(w) \/ \E from, to \in WorkerPc \ {"dead"} : Step(w, from, to)
  BY WorkerMoves
<1>3. CASE Die(w)
  BY <1>1, <1>3, DieKeeps
<1>4. CASE \E from, to \in WorkerPc \ {"dead"} : Step(w, from, to)
  BY <1>1, <1>4, StepKeeps, RequestsUnchanged, KeepsRegistry DEF IInv
<1>5. QED
  BY <1>2, <1>3, <1>4

\* A process with no thread, no request and an empty registry.
LEMMA EmptyRegistry ==
    ASSUME TypeInv, registry = [c \in Connectors |-> None],
           worker = [w \in Workers |-> Nobody], req = [r \in Requests |-> NoRequest]
    PROVE  IInv
  BY DEF IInv, RegistryInv, NoOrphanWorker, Alive, Nobody, NoRequest, Request

\* Every step keeps the inductive invariant.
LEMMA IInvStep == IInv /\ [Next]_vars => IInv'
<1> SUFFICES ASSUME IInv, [Next]_vars PROVE IInv'
  OBVIOUS
<1>t. TypeInv'
  BY TypeStep DEF IInv
<1>1. ASSUME NEW r \in Requests, Arrive(r) \/ Serve(r) \/ RequestDbError(r) PROVE IInv'
  BY <1>t, <1>1, RequestKeeps
<1>2. ASSUME NEW w \in Workers, Work(w) \/ WorkerDbError(w) PROVE IInv'
  BY <1>t, <1>2, WorkerKeeps
<1>3. CASE BootMigrate \/ BootRead \/ BootDone
  BY <1>t, <1>3, KeepsRegistry, WorkersUnchanged, RequestsUnchanged
  DEF BootMigrate, BootRead, BootDone
<1>4. CASE BootStart
  <2>1. PICK b \in boot : StartConnector(b.conn, b.config)
    BY <1>4 DEF BootStart
  <2>2. b.conn \in Connectors
    BY DEF IInv, TypeInv, TypeOK
  <2>3. QED
    BY <1>t, <1>4, <2>1, <2>2, StartKeeps, RequestsUnchanged DEF BootStart
<1>5. CASE Crash
  BY <1>t, <1>5 DEF Crash, IInv, RegistryInv, NoOrphanWorker, Alive, Nobody, NoRequest, Request
<1>6. CASE UNCHANGED vars
  BY <1>t, <1>6, KeepsRegistry, WorkersUnchanged, RequestsUnchanged DEF vars
<1>7. QED
  BY <1>1, <1>2, <1>3, <1>4, <1>5, <1>6 DEF Next, Boot

\* The inductive invariant always holds.
LEMMA Inductive == Spec => []IInv
<1>1. Init => IInv
  BY TypeInit, EmptyRegistry DEF Init
<1>2. QED
  BY <1>1, IInvStep, PTL DEF Spec

\* No live thread is ever out of everybody's reach: it is registered, told to stop,
\* or about to be told, under every interleaving, failed statement and restart.
THEOREM NoWorkerIsOrphaned == Spec => []NoOrphanWorker
<1>1. IInv => NoOrphanWorker
  BY DEF IInv
<1>2. QED
  BY <1>1, Inductive, PTL

\* Of two live threads of a connector one was told to stop, or is being told.
THEOREM OneThreadGoesOn == Spec => []AtMostOneUnstopped
<1>1. IInv => AtMostOneUnstopped
  BY DEF IInv, NoOrphanWorker, AtMostOneUnstopped, Live
<1>2. QED
  BY <1>1, Inductive, PTL

(***************************************************************************)
(* Enabled connectors are served.  While the start-up hook runs there is   *)
(* no request, and an enabled connector is registered or still to be       *)
(* started; afterwards it is registered or some request is at work on it.  *)
(* What a request does to its connector is summed up once.                 *)
(***************************************************************************)
Registered(c) == registry[c] # None

Due(c) == \E b \in boot : b.conn = c

ServedInv ==
    /\ phase # "up" => \A r \in Requests : req[r].pc = "idle"
    /\ phase = "up" => \A c \in Connectors : Enabled(c) => Registered(c) \/ InFlight(c) # {}
    /\ phase = "booting" => \A c \in Connectors : Enabled(c) => Registered(c) \/ Due(c)

\* What a step of a request may do: it leaves other connectors alone, and leaves its own
\* registered, not enabled, or to a request that goes on, if it did anything to it.
Effect(r, c) ==
    /\ phase = "up" /\ UNCHANGED phase
    /\ \A q \in Requests \ {r} : req'[q] = req[q]
    /\ \A d \in Connectors \ {c} : row'[d] = row[d] /\ registry'[d] = registry[d]
    /\ req[r].pc # "idle" => req[r].conn = c
    /\ \/ req'[r].pc # "idle" /\ req'[r].conn = c
       \/ ~(row'[c].state = "stored" /\ row'[c].enabled)
       \/ registry'[c] # None

\* A request that moves on keeps its connector.
LEMMA MovesOn ==
    ASSUME TypeInv, NEW r \in Requests, NEW pc, Goto(r, pc)
    PROVE  req'[r].pc = pc /\ req'[r].conn = req[r].conn /\ \A q \in Requests \ {r} : req'[q] = req[q]
<1>1. req[r] \in RequestType /\ req \in [Requests -> RequestType]
  BY DEF TypeInv, TypeOK
<1>2. QED
  BY <1>1 DEF Goto, RequestType

LEMMA Returns ==
    ASSUME TypeInv, NEW r \in Requests, Finish(r)
    PROVE  \A q \in Requests \ {r} : req'[q] = req[q]
  BY DEF TypeInv, TypeOK, Finish

LEMMA PopEffect ==
    ASSUME TypeInv, NEW r \in Requests, NEW op, NEW c \in Connectors, PopWorker(r, op, c)
    PROVE  /\ req'[r].pc # "idle" /\ req'[r].conn = c
           /\ \A q \in Requests \ {r} : req'[q] = req[q]
           /\ \A d \in Connectors \ {c} : registry'[d] = registry[d]
<1> DEFINE a == IF registry[c] = None THEN "purge" ELSE "signal"
<1>1. a # "idle" /\ req' = [req EXCEPT ![r] = Request(op, c, a, req[r].config, FALSE, registry[c])]
  BY DEF PopWorker
<1> HIDE DEF a
<1>2. QED
  BY <1>1 DEF PopWorker, TypeInv, TypeOK, Request

LEMMA RunningKept ==
    ASSUME TypeOK, NEW c \in Connectors, NEW b, SetRunning(c, b)
    PROVE  \A d \in Connectors : /\ d # c => row'[d] = row[d]
                                 /\ row'[d].state = row[d].state /\ row'[d].enabled = row[d].enabled
  BY DEF SetRunning, TypeOK, RowType

LEMMA ArriveEffect ==
    ASSUME TypeInv, NEW r \in Requests, NEW c \in Connectors,
           \/ CreateCheck(r, c) \/ UpdateRow(r, c) \/ EnableRow(r, c) \/ DisablePop(r, c) \/ DeleteRead(r, c)
    PROVE  Effect(r, c)
<1>1. phase = "up" /\ UNCHANGED phase /\ req[r].pc = "idle"
  BY DEF CreateCheck, UpdateRow, EnableRow, DisablePop, DeleteRead, Begin
<1>t. row \in [Connectors -> RowType] /\ row[c] \in RowType /\ req \in [Requests -> RequestType]
  BY DEF TypeInv, TypeOK
<1>2. CASE CreateCheck(r, c)
  <2> DEFINE e == ~\E d \in Connectors : Enabled(d)
  <2>1. PICK k \in Configs : req' = [req EXCEPT ![r] = Request("create", c, "insert", k, e, None)]
    BY <1>2 DEF CreateCheck
  <2> HIDE DEF e
  <2>2. QED
    BY <1>1, <1>2, <2>1, <1>t DEF CreateCheck, Effect, Request
<1>3. CASE UpdateRow(r, c)
  <2>1. UNCHANGED registry /\ \A d \in Connectors \ {c} : row'[d] = row[d]
    BY <1>3, <1>t DEF UpdateRow
  <2>2. CASE row[c].enabled
    <3>1. req' = [req EXCEPT ![r] = Request("update", c, "read", None, FALSE, None)]
      BY <1>3, <2>2 DEF UpdateRow
    <3>2. QED
      BY <1>1, <2>1, <3>1, <1>t DEF Effect, Request
  <2>3. CASE ~row[c].enabled
    <3>1. req' = req /\ ~row'[c].enabled
      BY <1>3, <1>t, <2>3 DEF UpdateRow, RowType
    <3>2. QED
      BY <1>1, <2>1, <3>1 DEF Effect
  <2>4. QED
    BY <2>2, <2>3
<1>4. CASE EnableRow(r, c)
  <2>1. UNCHANGED registry /\ \A d \in Connectors \ {c} : row'[d] = row[d]
    BY <1>4, <1>t DEF EnableRow
  <2>2. QED
    BY <1>1, <1>4, <2>1, <1>t DEF EnableRow, Effect, Request
<1>5. CASE DisablePop(r, c)
  BY <1>1, <1>5, PopEffect DEF DisablePop, Effect
<1>6. CASE DeleteRead(r, c)
  <2> DEFINE a == IF row[c].enabled THEN "pop" ELSE "drop"
  <2>1. req' = [req EXCEPT ![r] = Request("delete", c, a, None, FALSE, None)] /\ a # "idle"
    BY <1>6 DEF DeleteRead
  <2> HIDE DEF a
  <2>2. QED
    BY <1>1, <1>6, <2>1, <1>t DEF DeleteRead, Effect, Request
<1>7. QED
  BY <1>2, <1>3, <1>4, <1>5, <1>6

LEMMA ServeEffect ==
    ASSUME TypeInv, NEW r \in Requests, phase = "up", Serve(r) \/ RequestDbError(r)
    PROVE  req[r].conn \in Connectors /\ Effect(r, req[r].conn)
<1> DEFINE c == req[r].conn
<1>t. row \in [Connectors -> RowType] /\ registry \in [Connectors -> Maybe(Workers)] /\ TypeOK
      /\ req \in [Requests -> RequestType]
  BY DEF TypeInv, TypeOK
<1>1. UNCHANGED phase /\ req[r].pc # "idle" /\ c \in Connectors
  BY DEF Serve, RequestDbError, CreateInsert, ReadRecord, Pop, Signal, Join, Purge, MarkStopped, Start,
         Drop, TurnOff, At, TypeInv, RequestsOK
<1>2. CASE CreateInsert(r)
  <2>1. UNCHANGED registry /\ \A d \in Connectors \ {c} : row'[d] = row[d]
    BY <1>2, <1>t DEF CreateInsert
  <2>2. row'[c].enabled = req[r].enable
    BY <1>1, <1>2, <1>t DEF CreateInsert, Row
  <2>3. CASE req[r].enable
    <3>1. Goto(r, "read")
      BY <1>2, <2>3 DEF CreateInsert
    <3>2. QED
      BY <1>1, <2>1, <3>1, MovesOn DEF Effect
  <2>4. CASE ~req[r].enable
    BY <1>1, <1>2, <2>1, <2>2, <2>4, Returns DEF CreateInsert, Effect
  <2>5. QED
    BY <2>3, <2>4
<1>3. CASE ReadRecord(r)
  <2>1. UNCHANGED <<row, registry>>
    BY <1>3 DEF ReadRecord
  <2>2. CASE Stored(c)
    <3> DEFINE k == row[c].config
               a == IF req[r].op = "update" THEN "pop" ELSE "start"
               q == [req[r] EXCEPT !.config = k, !.pc = a]
    <3>1. req' = [req EXCEPT ![r] = q] /\ a # "idle"
      BY <1>3, <2>2 DEF ReadRecord
    <3> HIDE DEF a, k
    <3>2. q.pc = a /\ q.conn = c
      BY <1>t DEF RequestType
    <3> HIDE DEF q
    <3>3. QED
      BY <1>1, <1>t, <2>1, <3>1, <3>2 DEF Effect
  <2>3. CASE ~Stored(c)
    BY <1>1, <1>3, <2>1, <2>3, Returns DEF ReadRecord, Effect, Stored
  <2>4. QED
    BY <2>2, <2>3
<1>4. CASE Pop(r)
  BY <1>1, <1>4, PopEffect DEF Pop, Effect
<1>5. CASE Signal(r) \/ Purge(r)
  BY <1>1, <1>5, MovesOn DEF Signal, Purge, Effect
<1>6. CASE Join(r)
  <2> DEFINE q == [req[r] EXCEPT !.pc = "purge", !.held = None]
  <2>1. req' = [req EXCEPT ![r] = q]
    BY <1>6 DEF Join
  <2>2. q.pc = "purge" /\ q.conn = c
    BY <1>t DEF RequestType
  <2> HIDE DEF q
  <2>3. QED
    BY <1>1, <1>6, <1>t, <2>1, <2>2 DEF Join, Effect
<1>7. CASE MarkStopped(r)
  <2>1. PICK a \in {"start", "drop", "off"} : Goto(r, a)
    BY <1>7 DEF MarkStopped
  <2>2. UNCHANGED registry /\ \A d \in Connectors \ {c} : row'[d] = row[d]
    BY <1>1, <1>7, <1>t, RunningKept DEF MarkStopped
  <2>3. QED
    BY <1>1, <2>1, <2>2, MovesOn DEF Effect
<1>8. CASE Start(r)
  <2>1. registry'[c] # None /\ \A d \in Connectors \ {c} : registry'[d] = registry[d]
    BY <1>1, <1>8, <1>t, NoneAssumption DEF Start, StartConnector, KeepWorker, LaunchWorker, HasLiveWorker
  <2>2. QED
    BY <1>1, <1>8, <2>1, Returns DEF Start, Effect
<1>9. CASE Drop(r)
  <2>1. UNCHANGED registry /\ (\A d \in Connectors \ {c} : row'[d] = row[d]) /\ row'[c].state # "stored"
    BY <1>1, <1>9, <1>t DEF Drop, Stored, Tombstone, Row
  <2>2. QED
    BY <1>1, <1>9, <2>1, Returns DEF Drop, Effect
<1>10. CASE TurnOff(r)
  <2>1. /\ UNCHANGED registry /\ (\A d \in Connectors \ {c} : row'[d] = row[d])
        /\ ~(row'[c].state = "stored" /\ row'[c].enabled)
    BY <1>1, <1>10, <1>t DEF TurnOff, Stored, RowType
  <2>2. QED
    BY <1>1, <1>10, <2>1, Returns DEF TurnOff, Effect
<1>11. CASE RequestDbError(r)
  BY <1>1, <1>11, MovesOn DEF RequestDbError, Effect
<1>12. QED
  BY <1>1, <1>2, <1>3, <1>4, <1>5, <1>6, <1>7, <1>8, <1>9, <1>10, <1>11 DEF Serve

LEMMA EffectServed ==
    ASSUME IInv, ServedInv, NEW r \in Requests, NEW c \in Connectors, Effect(r, c)
    PROVE  ServedInv'
<1>1. ASSUME NEW d \in Connectors, Enabled(d)'
      PROVE  Registered(d)' \/ InFlight(d)' # {}
  <2>1. CASE d = c
    BY <1>1, <2>1 DEF Effect, Enabled, Stored, Registered, InFlight
  <2>2. CASE d # c
    <3>1. Enabled(d) /\ registry'[d] = registry[d]
      BY <1>1, <2>2 DEF Effect, Enabled, Stored
    <3>2. CASE Registered(d)
      BY <3>1, <3>2 DEF Registered
    <3>3. CASE InFlight(d) # {}
      <4>1. PICK q \in Requests : req[q].pc # "idle" /\ req[q].conn = d
        BY <3>3 DEF InFlight
      <4>2. q # r
        BY <2>2, <4>1 DEF Effect
      <4>3. QED
        BY <4>1, <4>2 DEF Effect, InFlight
    <3>4. QED
      BY <3>1, <3>2, <3>3 DEF ServedInv, Effect
  <2>3. QED
    BY <2>1, <2>2
<1>2. QED
  BY <1>1 DEF Effect, ServedInv

LEMMA ServedStep == ASSUME IInv, IInv', ServedInv, [Next]_vars PROVE ServedInv'
<1>t. TypeInv /\ row \in [Connectors -> RowType] /\ registry \in [Connectors -> Maybe(Workers)] /\ TypeOK
  BY DEF IInv, TypeInv, TypeOK
<1>1. ASSUME NEW r \in Requests, Arrive(r)
      PROVE  ServedInv'
  BY <1>t, <1>1, ArriveEffect, EffectServed DEF Arrive
<1>2. ASSUME NEW r \in Requests, Serve(r) \/ RequestDbError(r)
      PROVE  ServedInv'
  <2>1. req[r].pc # "idle"
    BY <1>2 DEF Serve, RequestDbError, CreateInsert, ReadRecord, Pop, Signal, Join, Purge, MarkStopped, Start,
         Drop, TurnOff, At
  <2>2. phase = "up"
    BY <2>1 DEF ServedInv
  <2>3. QED
    BY <1>t, <1>2, <2>2, ServeEffect, EffectServed
<1>3. ASSUME NEW w \in Workers, Work(w) \/ WorkerDbError(w)
      PROVE  ServedInv'
  <2>1. UNCHANGED <<registry, req, phase, boot>>
    BY <1>3 DEF Work, WorkerDbError, Announce, MarkStarted, LoopTest, RecordSample, ReportSample,
         ReportFetch, KeepQuiet, EndFetch, GiveUp, MarkWorkerStopped
  <2>2. UNCHANGED row \/ \E b : SetRunning(worker[w].conn, b)
    BY <1>3 DEF Work, WorkerDbError, Announce, MarkStarted, LoopTest, RecordSample, ReportSample,
         ReportFetch, KeepQuiet, EndFetch, GiveUp, MarkWorkerStopped
  <2>3. Alive(w)
    BY <1>3 DEF Work, WorkerDbError, Announce, MarkStarted, LoopTest, RecordSample, ReportSample,
         ReportFetch, KeepQuiet, EndFetch, GiveUp, MarkWorkerStopped, Step, Alive
  <2>4. worker[w].conn \in Connectors
    BY <1>t, <2>3 DEF TypeInv, WorkersOK
  <2>5. \A d \in Connectors : row'[d].state = row[d].state /\ row'[d].enabled = row[d].enabled
    BY <1>t, <2>2, <2>4, RunningKept
  <2>6. QED
    BY <2>1, <2>5 DEF ServedInv, Enabled, Stored, Registered, InFlight, Due
<1>4. CASE BootMigrate \/ Crash
  BY <1>4 DEF BootMigrate, Crash, ServedInv, NoRequest, Request
<1>5. CASE BootRead
  <2>1. phase' = "booting" /\ UNCHANGED <<row, registry, req>> /\ phase # "up"
    BY <1>5 DEF BootRead
  <2>2. ASSUME NEW c \in Connectors, Enabled(c)
        PROVE  \E b \in boot' : b.conn = c
    <3> DEFINE b == [conn |-> c, config |-> row[c].config]
    <3>1. b \in boot' /\ b.conn = c
      BY <1>5, <2>2 DEF BootRead
    <3>2. QED
      BY <3>1
  <2>3. QED
    BY <2>1, <2>2 DEF ServedInv, Enabled, Stored, Due
<1>6. CASE BootStart
  <2>1. PICK b \in boot : StartConnector(b.conn, b.config) /\ boot' = boot \ {b}
    BY <1>6 DEF BootStart
  <2>2. b.conn \in Connectors /\ UNCHANGED <<row, req, phase>> /\ phase = "booting"
    BY <1>6, <1>t DEF BootStart, TypeOK
  <2>3. registry'[b.conn] # None /\ \A d \in Connectors \ {b.conn} : registry'[d] = registry[d]
    BY <1>t, <2>1, <2>2, NoneAssumption DEF StartConnector, KeepWorker, LaunchWorker, HasLiveWorker
  <2>4. ASSUME NEW c \in Connectors, Enabled(c)
        PROVE  registry'[c] # None \/ \E x \in boot' : x.conn = c
    <3>1. CASE c = b.conn
      BY <2>3, <3>1
    <3>2. CASE c # b.conn
      BY <2>1, <2>2, <2>3, <2>4, <3>2 DEF ServedInv, Registered, Due
    <3>3. QED
      BY <3>1, <3>2
  <2>5. QED
    BY <2>2, <2>4 DEF ServedInv, Enabled, Stored, Registered, Due
<1>7. CASE BootDone
  BY <1>7 DEF BootDone, ServedInv, Enabled, Stored, Registered, Due
<1>8. CASE UNCHANGED vars
  BY <1>8 DEF vars, ServedInv, Enabled, Stored, Registered, InFlight, Due
<1>9. QED
  BY <1>1, <1>2, <1>3, <1>4, <1>5, <1>6, <1>7, <1>8 DEF Next, Boot

\* While no request is at work on an enabled connector, nor failed on it, a thread that nobody
\* told to stop is registered for it, whatever requests, joins, failed statements and restarts
\* went before.
THEOREM EnabledAreServed == Spec => []EnabledIsServed
<1>1. Init => ServedInv
  BY DEF Init, ServedInv, NoRequest, Request
<1>2. IInv /\ IInv' /\ ServedInv /\ [Next]_vars => ServedInv'
  BY ServedStep
<1>3. IInv /\ ServedInv => EnabledIsServed
  BY DEF IInv, RegistryInv, ServedInv, Registered, EnabledIsServed
<1>4. QED
  BY <1>1, <1>2, <1>3, Inductive, PTL DEF Spec

(***************************************************************************)
(* The refinement: a start that launches gives a slot, a pop takes it      *)
(* back, the end of a thread and a crash are those of the slots, and every *)
(* other step leaves slots and live threads as they are.                   *)
(***************************************************************************)
LEMMA SlotsStay ==
    ASSUME SameWorkers, UNCHANGED registry
    PROVE  UNCHANGED <<registry, LiveWorkers>>
  BY DEF SameWorkers, LiveWorkers

LEMMA PopIsRetire ==
    ASSUME NEW r \in Requests, NEW op, NEW c \in Connectors, PopWorker(r, op, c), UNCHANGED worker
    PROVE  Slots!Next
  BY DEF PopWorker, Slots!Next, Slots!Retire, LiveWorkers, Alive

LEMMA StartIsLaunch ==
    ASSUME TypeInv, NEW c \in Connectors, NEW k, StartConnector(c, k)
    PROVE  Slots!Next \/ UNCHANGED <<registry, LiveWorkers>>
<1>1. CASE KeepWorker(c)
  BY <1>1 DEF KeepWorker, LiveWorkers, Alive
<1>2. CASE LaunchWorker(c, k)
  <2>1. registry[c] \notin LiveWorkers
    BY <1>2, NoneAssumption DEF LaunchWorker, HasLiveWorker, LiveWorkers
  <2>2. PICK w \in Workers : /\ Spare(w) /\ registry' = [registry EXCEPT ![c] = w]
                             /\ worker' = [worker EXCEPT ![w] =
                                  [pc |-> "starting", conn |-> c, config |-> k, stop |-> FALSE]]
    BY <1>2 DEF LaunchWorker
  <2>3. w \in Workers \ LiveWorkers /\ ~Slots!Owned(w)
    BY <2>2 DEF Spare, LiveWorkers, Slots!Owned
  <2>4. LiveWorkers' = LiveWorkers \cup {w}
    BY <2>2 DEF LiveWorkers, Alive, TypeInv, TypeOK
  <2>5. QED
    BY <2>1, <2>2, <2>3, <2>4 DEF Slots!Next, Slots!Launch
<1>3. QED
  BY <1>1, <1>2 DEF StartConnector

LEMMA DieIsEnd ==
    ASSUME TypeInv, NEW w \in Workers, Alive(w), Die(w), UNCHANGED registry
    PROVE  Slots!Next
<1>1. w \in LiveWorkers /\ LiveWorkers' = LiveWorkers \ {w}
  BY DEF LiveWorkers, Alive, Die, Nobody, TypeInv, TypeOK
<1>2. QED
  BY <1>1 DEF Slots!Next, Slots!End

LEMMA SlotsStep == ASSUME TypeInv, [Next]_vars PROVE Slots!Next \/ UNCHANGED <<registry, LiveWorkers>>
<1>1. ASSUME NEW r \in Requests, Arrive(r) \/ Serve(r) \/ RequestDbError(r)
      PROVE  Slots!Next \/ UNCHANGED <<registry, LiveWorkers>>
  <2>1. CASE \E c \in Connectors : DisablePop(r, c)
    BY <2>1, PopIsRetire DEF DisablePop
  <2>2. CASE Pop(r)
    <3>1. req[r].conn \in Connectors
      BY <2>2 DEF Pop, At, TypeInv, RequestsOK
    <3>2. QED
      BY <2>2, <3>1, PopIsRetire DEF Pop
  <2>3. CASE Start(r)
    <3>1. req[r].conn \in Connectors
      BY <2>3 DEF Start, At, TypeInv, RequestsOK
    <3>2. QED
      BY <2>3, <3>1, StartIsLaunch DEF Start
  <2>4. CASE Signal(r)
    <3>1. UNCHANGED registry /\ \A w \in Workers : worker'[w].pc = worker[w].pc
      <4> DEFINE h == req[r].held
                 b == IF Alive(h) THEN TRUE ELSE worker[h].stop
                 x == [worker[h] EXCEPT !.stop = b]
      <4>1. h \in Workers
        BY <2>4 DEF Signal, At, TypeInv, RequestsOK, RequestType, Maybe
      <4>2. worker' = [worker EXCEPT ![h] = x] /\ UNCHANGED registry
        BY <2>4, <4>1 DEF Signal, TypeInv, TypeOK
      <4> HIDE DEF b
      <4>3. x.pc = worker[h].pc
        BY <4>1 DEF TypeInv, TypeOK, WorkerType
      <4> HIDE DEF x
      <4>4. QED
        BY <4>1, <4>2, <4>3 DEF TypeInv, TypeOK
    <3>2. QED
      BY <3>1 DEF LiveWorkers, Alive
  <2>5. CASE ~(\E c \in Connectors : DisablePop(r, c)) /\ ~Pop(r) /\ ~Start(r) /\ ~Signal(r)
    <3>1. UNCHANGED <<registry, worker>>
      BY <1>1, <2>5 DEF Arrive, Serve, RequestDbError, CreateCheck, UpdateRow, EnableRow, DeleteRead,
         CreateInsert, ReadRecord, Join, Purge, MarkStopped, Drop, TurnOff
    <3>2. QED
      BY <3>1 DEF LiveWorkers, Alive
  <2>6. QED
    BY <2>1, <2>2, <2>3, <2>4, <2>5
<1>2. ASSUME NEW w \in Workers, Work(w) \/ WorkerDbError(w)
      PROVE  Slots!Next \/ UNCHANGED <<registry, LiveWorkers>>
  <2>1. UNCHANGED registry /\ Alive(w)
    BY <1>2 DEF Work, WorkerDbError, Announce, MarkStarted, LoopTest, RecordSample, ReportSample,
         ReportFetch, KeepQuiet, EndFetch, GiveUp, MarkWorkerStopped, Step, Alive
  <2>2. Die(w) \/ \E from, to \in WorkerPc \ {"dead"} : Step(w, from, to)
    BY <1>2, WorkerMoves
  <2>3. QED
    BY <2>1, <2>2, DieIsEnd, StepKeeps, SlotsStay
<1>3. CASE BootStart
  <2>1. PICK b \in boot : StartConnector(b.conn, b.config)
    BY <1>3 DEF BootStart
  <2>2. b.conn \in Connectors
    BY DEF TypeInv, TypeOK
  <2>3. QED
    BY <2>1, <2>2, StartIsLaunch
<1>4. CASE Crash
  <2>1. LiveWorkers' = {} /\ registry' = [c \in Connectors |-> None]
    BY <1>4 DEF Crash, LiveWorkers, Alive, Nobody
  <2>2. QED
    BY <2>1 DEF Slots!Next, Slots!Restart
<1>5. CASE BootMigrate \/ BootRead \/ BootDone \/ UNCHANGED vars
  BY <1>5 DEF BootMigrate, BootRead, BootDone, vars, LiveWorkers, Alive
<1>6. QED
  BY <1>1, <1>2, <1>3, <1>4, <1>5 DEF Next, Boot

\* The runtime implements the slots: a connector's slot is given to a new thread only when it
\* is empty or its owner has ended, and a live thread that lost its slot never gets one again.
THEOREM RuntimeImplementsSlots == Spec => ImplementsSlots
<1>1. Init => Slots!Init
  BY DEF Init, Slots!Init, LiveWorkers, Alive, Nobody
<1>2. TypeInv /\ [Next]_vars => [Slots!Next]_(Slots!slots)
  BY SlotsStep DEF Slots!slots
<1>3. QED
  BY <1>1, <1>2, Typed, PTL DEF Spec, ImplementsSlots, Slots!Spec

(***************************************************************************)
(* At rest.  Where no join times out, a live thread that was told to stop  *)
(* is being joined.  With one request at a time and no failing statement,  *)
(* only enabled connectors are registered, with the configuration of the   *)
(* table, and what a connector leaves behind belongs to a registered       *)
(* thread or to the request that is clearing it.                           *)
(***************************************************************************)

\* Of the requests at most one is at work.
OthersRest(r) == \A s \in Requests \ {r} : req[s].pc = "idle"
Alone == \A r \in Requests : req[r].pc # "idle" => OthersRest(r)

\* A step with one request at a time: one arrives when none is at work, and a join waits for
\* the end of the thread.
InTurn ==
    \/ \E r \in Requests : Arrive(r) /\ req[r].pc = "idle" /\ OthersRest(r)
    \/ \E r \in Requests : Serve(r) /\ (Join(r) => ~Alive(req[r].held))
    \/ \E w \in Workers : Work(w)
    \/ Boot \/ Crash \/ UNCHANGED vars

HoldInv ==
    /\ \A w \in Workers : Alive(w) /\ worker[w].stop =>
         \E r \in Requests : req[r].pc = "join" /\ req[r].held = w
    /\ \A r \in Requests : req[r].held # None /\ Alive(req[r].held) =>
         worker[req[r].held].conn = req[r].conn

\* A step that stops no thread and neither takes nor joins one.
LEMMA HoldKept ==
    ASSUME TypeInv, TypeInv', HoldInv,
           \A w \in Workers : Alive(w)' /\ (Alive(w) \/ worker'[w].stop) =>
             /\ Alive(w) /\ worker'[w].stop = worker[w].stop
             /\ worker'[w].conn = worker[w].conn,
           \A r \in Requests : req[r].held # None /\ worker'[req[r].held].pc # "dead" =>
             Alive(req[r].held),
           \A r \in Requests : req[r].pc \in {"signal", "join"} \/ req'[r].pc \in {"signal", "join"} =>
             req'[r] = req[r]
    PROVE  HoldInv'
<1>1. \A r \in Requests : req'[r].held # None => req'[r] = req[r] /\ req[r].held \in Workers
  BY DEF TypeInv, TypeOK, RequestsOK, RequestType, Maybe
<1>2. ASSUME NEW w \in Workers, Alive(w)', worker'[w].stop
      PROVE  \E r \in Requests : req'[r].pc = "join" /\ req'[r].held = w
  <2>1. PICK r \in Requests : req[r].pc = "join" /\ req[r].held = w
    BY <1>2 DEF HoldInv
  <2>2. QED
    BY <2>1
<1>3. ASSUME NEW r \in Requests, req'[r].held # None, Alive(req[r].held)'
      PROVE  worker'[req'[r].held].conn = req'[r].conn
  BY <1>1, <1>3 DEF HoldInv, Alive
<1>4. QED
  BY <1>1, <1>2, <1>3 DEF HoldInv, Alive

LEMMA LaunchFacts ==
    ASSUME TypeInv, NEW c \in Connectors, NEW k, LaunchWorker(c, k)
    PROVE  \E w \in Workers :
             /\ Spare(w) /\ registry' = [registry EXCEPT ![c] = w]
             /\ Alive(w)' /\ worker'[w].config = k /\ worker'[w].conn = c /\ ~worker'[w].stop
             /\ \A v \in Workers \ {w} : worker'[v] = worker[v]
<1> DEFINE x == [pc |-> "starting", conn |-> c, config |-> k, stop |-> FALSE]
<1>1. PICK w \in Workers : /\ Spare(w)
                           /\ worker' = [worker EXCEPT ![w] = x]
                           /\ registry' = [registry EXCEPT ![c] = w]
  BY DEF LaunchWorker
<1>2. x.pc = "starting" /\ x.config = k /\ x.conn = c /\ x.stop = FALSE
  OBVIOUS
<1> HIDE DEF x
<1>3. worker'[w] = x /\ \A v \in Workers \ {w} : worker'[v] = worker[v]
  BY <1>1 DEF TypeInv, TypeOK
<1>4. QED
  BY <1>1, <1>2, <1>3 DEF Alive

LEMMA StartHolds ==
    ASSUME TypeInv, TypeInv', HoldInv, NEW c \in Connectors, NEW k, StartConnector(c, k),
           \A r \in Requests : req[r].pc \in {"signal", "join"} \/ req'[r].pc \in {"signal", "join"} =>
             req'[r] = req[r]
    PROVE  HoldInv'
<1>1. CASE KeepWorker(c)
  <2>1. UNCHANGED worker
    BY <1>1 DEF KeepWorker
  <2>2. \A h : worker'[h].pc # "dead" <=> Alive(h)
    BY <2>1 DEF Alive
  <2>3. QED
    BY <2>1, <2>2, HoldKept DEF Alive
<1>2. CASE LaunchWorker(c, k)
  <2>1. PICK w \in Workers :
          Spare(w) /\ ~worker'[w].stop /\ \A v \in Workers \ {w} : worker'[v] = worker[v]
    BY <1>2, LaunchFacts
  <2>2. \A v \in Workers : Alive(v)' /\ (Alive(v) \/ worker'[v].stop) =>
          /\ Alive(v) /\ worker'[v].stop = worker[v].stop /\ worker'[v].conn = worker[v].conn
    BY <2>1 DEF Spare, Alive
  <2>3. \A r \in Requests : req[r].held # w /\ (req[r].held # None => req[r].held \in Workers)
    BY <2>1 DEF Spare, TypeInv, TypeOK, RequestType, Maybe
  <2>4. \A r \in Requests : req[r].held # None /\ worker'[req[r].held].pc # "dead" =>
          Alive(req[r].held)
    BY <2>1, <2>3 DEF Alive
  <2>5. QED
    BY <2>2, <2>4, HoldKept
<1>3. QED
  BY <1>1, <1>2 DEF StartConnector

LEMMA PopHolds ==
    ASSUME IInv, HoldInv, NEW r \in Requests, NEW op, NEW c \in Connectors, PopWorker(r, op, c),
           UNCHANGED worker, req[r].pc \notin {"signal", "join"}
    PROVE  HoldInv'
<1> DEFINE h == registry[c]
           q == Request(op, c, IF h = None THEN "purge" ELSE "signal", req[r].config, FALSE, h)
<1>1. q.held = h /\ q.conn = c /\ req' = [req EXCEPT ![r] = q]
  BY DEF Request, PopWorker
<1> HIDE DEF q
<1>2. req'[r] = q /\ \A x \in Requests \ {r} : req'[x] = req[x]
  BY <1>1 DEF IInv, TypeInv, TypeOK
<1>3. h # None /\ Alive(h) => worker[h].conn = c
  BY DEF IInv, RegistryInv
<1>4. QED
  BY <1>1, <1>2, <1>3 DEF HoldInv, Alive

LEMMA SignalHolds ==
    ASSUME TypeInv, HoldInv, NEW r \in Requests, Signal(r)
    PROVE  HoldInv'
<1> DEFINE h == req[r].held
           x == [worker[h] EXCEPT !.stop = IF Alive(h) THEN TRUE ELSE @]
<1>1. h \in Workers
  BY DEF Signal, At, TypeInv, TypeOK, RequestsOK, RequestType, Maybe
<1>2. worker' = [worker EXCEPT ![h] = x] /\ worker[h] \in WorkerType
  BY <1>1 DEF Signal, TypeInv, TypeOK
<1>3. x.pc = worker[h].pc /\ x.conn = worker[h].conn
  BY <1>2 DEF WorkerType
<1> HIDE DEF x
<1>4. \A w \in Workers : /\ worker'[w].pc = worker[w].pc /\ worker'[w].conn = worker[w].conn
                         /\ w # h => worker'[w] = worker[w]
  BY <1>1, <1>2, <1>3 DEF TypeInv, TypeOK
<1>5. PICK q : /\ req' = [req EXCEPT ![r] = q] /\ q.pc = "join" /\ q.held = h
               /\ q.conn = req[r].conn
  <2>1. req[r] \in RequestType
    BY DEF TypeInv, TypeOK
  <2> DEFINE q == [req[r] EXCEPT !.pc = "join"]
  <2>2. q.pc = "join" /\ q.held = h /\ q.conn = req[r].conn
    BY <2>1 DEF RequestType
  <2>3. req' = [req EXCEPT ![r] = q]
    BY DEF Signal, Goto
  <2> HIDE DEF q
  <2>4. QED
    BY <2>2, <2>3
<1>6. req'[r] = q /\ \A y \in Requests \ {r} : req'[y] = req[y]
  BY <1>5 DEF TypeInv, TypeOK
<1>7. ASSUME NEW w \in Workers, Alive(w)', worker'[w].stop
      PROVE  \E y \in Requests : req'[y].pc = "join" /\ req'[y].held = w
  <2>1. CASE w = h
    BY <1>5, <1>6, <2>1
  <2>2. CASE w # h
    <3>1. PICK y \in Requests : req[y].pc = "join" /\ req[y].held = w
      BY <1>4, <1>7, <2>2 DEF HoldInv, Alive
    <3>2. QED
      BY <1>6, <2>2, <3>1
  <2>3. QED
    BY <2>1, <2>2
<1>8. ASSUME NEW y \in Requests, req'[y].held # None, worker'[req'[y].held].pc # "dead"
      PROVE  worker'[req'[y].held].conn = req'[y].conn
  <2>1. req'[y].held = req[y].held /\ req'[y].conn = req[y].conn
    BY <1>5, <1>6
  <2>2. req[y].held \in Workers
    BY <1>8, <2>1 DEF TypeInv, TypeOK, RequestType, Maybe
  <2>3. QED
    BY <1>4, <1>8, <2>1, <2>2 DEF HoldInv, Alive
<1>9. QED
  BY <1>7, <1>8 DEF HoldInv, Alive

LEMMA JoinHolds ==
    ASSUME TypeInv, HoldInv, NEW r \in Requests, Join(r), ~Alive(req[r].held)
    PROVE  HoldInv'
<1> DEFINE q == [req[r] EXCEPT !.pc = "purge", !.held = None]
<1>1. req' = [req EXCEPT ![r] = q] /\ ~Alive(req[r].held) /\ UNCHANGED worker
  BY DEF Join
<1>2. q.held = None
  BY DEF TypeInv, TypeOK, RequestType
<1> HIDE DEF q
<1>3. req'[r] = q /\ \A y \in Requests \ {r} : req'[y] = req[y]
  BY <1>1 DEF TypeInv, TypeOK
<1>4. QED
  BY <1>1, <1>2, <1>3 DEF HoldInv, Alive

LEMMA HoldStep == IInv /\ IInv' /\ HoldInv /\ InTurn => HoldInv'
<1> SUFFICES ASSUME IInv, IInv', HoldInv, InTurn PROVE HoldInv'
  OBVIOUS
<1>t. TypeInv /\ TypeInv'
  BY DEF IInv
<1>s. ASSUME UNCHANGED worker,
             \A r \in Requests :
               req[r].pc \in {"signal", "join"} \/ req'[r].pc \in {"signal", "join"} =>
                 req'[r] = req[r]
      PROVE  HoldInv'
  <2>1. \A h : worker'[h].pc # "dead" <=> Alive(h)
    BY <1>s DEF Alive
  <2>2. QED
    BY <1>t, <1>s, <2>1, HoldKept DEF Alive
<1>1. ASSUME NEW r \in Requests, Arrive(r) \/ Serve(r), Join(r) => ~Alive(req[r].held) PROVE HoldInv'
  <2>1. CASE Signal(r) \/ Join(r)
    BY <1>t, <1>1, <2>1, SignalHolds, JoinHolds
  <2>2. CASE Pop(r) \/ \E c \in Connectors : DisablePop(r, c)
    <3>1. PICK c \in Connectors : \E op \in Ops : PopWorker(r, op, c)
      BY <1>t, <2>2 DEF Pop, At, DisablePop, TypeInv, TypeOK, RequestsOK, RequestType, Ops
    <3>2. UNCHANGED worker /\ req[r].pc \notin {"signal", "join"}
      BY <2>2 DEF Pop, DisablePop, At, Begin
    <3>3. QED
      BY <3>1, <3>2, PopHolds
  <2>3. CASE Start(r)
    <3>1. StartConnector(req[r].conn, req[r].config) /\ req[r].conn \in Connectors
      BY <1>t, <2>3 DEF Start, At, TypeInv, RequestsOK
    <3>2. req[r].pc = "start" /\ req' = [req EXCEPT ![r] = NoRequest]
      BY <2>3 DEF Start, At, Finish
    <3>3. NoRequest.pc = "idle"
      BY DEF NoRequest, Request
    <3>4. \A x \in Requests :
            req[x].pc \in {"signal", "join"} \/ req'[x].pc \in {"signal", "join"} =>
              req'[x] = req[x]
      BY <1>t, <3>2, <3>3 DEF TypeInv, TypeOK
    <3>5. QED
      BY <1>t, <3>1, <3>4, StartHolds
  <2>4. CASE ~(Signal(r) \/ Join(r) \/ Pop(r) \/ Start(r) \/ \E c \in Connectors : DisablePop(r, c))
    <3>1. UNCHANGED worker
      BY <1>1, <2>4
      DEF Arrive, Serve, CreateCheck, UpdateRow, EnableRow, DeleteRead,
          CreateInsert, ReadRecord, Purge, MarkStopped, Drop, TurnOff
    <3>2. /\ \A x \in Requests \ {r} : req'[x] = req[x]
          /\ req[r].pc \notin {"signal", "join"}
      <4>1. CASE Arrive(r)
        <5>1. PICK c \in Connectors : CreateCheck(r, c) \/ UpdateRow(r, c) \/ EnableRow(r, c)
                                      \/ DeleteRead(r, c)
          BY <2>4, <4>1 DEF Arrive
        <5>2. Effect(r, c)
          BY <1>t, <5>1, ArriveEffect
        <5>3. QED
          BY <5>1, <5>2 DEF Effect, CreateCheck, UpdateRow, EnableRow, DeleteRead, Begin
      <4>2. CASE Serve(r)
        BY <1>t, <2>4, <4>2, MovesOn, Returns
        DEF Serve, CreateInsert, ReadRecord, Purge, MarkStopped, Drop, TurnOff,
            At, TypeInv, TypeOK
      <4>3. QED
        BY <1>1, <4>1, <4>2
    <3>3. req'[r].pc \notin {"signal", "join"}
      <4>1. CASE Arrive(r)
        BY <1>t, <2>4, <4>1
        DEF Arrive, CreateCheck, UpdateRow, EnableRow, DeleteRead, Begin, Request, TypeInv, TypeOK
      <4>2. CASE ReadRecord(r)
        BY <1>t, <4>2 DEF ReadRecord, Finish, NoRequest, Request, TypeInv, TypeOK, RequestType
      <4>3. CASE CreateInsert(r) \/ Purge(r) \/ MarkStopped(r) \/ Drop(r) \/ TurnOff(r)
        <5>1. Finish(r) \/ \E pc \in {"read", "stopped", "start", "drop", "off"} : Goto(r, pc)
          BY <4>3 DEF CreateInsert, Purge, MarkStopped, Drop, TurnOff
        <5>2. CASE Finish(r)
          BY <1>t, <5>2 DEF Finish, NoRequest, Request, TypeInv, TypeOK
        <5>3. QED
          BY <1>t, <5>1, <5>2, MovesOn
      <4>4. QED
        BY <1>1, <2>4, <4>1, <4>2, <4>3 DEF Serve
    <3>4. QED
      BY <1>s, <3>1, <3>2, <3>3
  <2>5. QED
    BY <1>1, <2>1, <2>2, <2>3, <2>4
<1>2. ASSUME NEW w \in Workers, Work(w) PROVE HoldInv'
  <2>1. UNCHANGED req
    BY <1>2 DEF Work, Announce, MarkStarted, LoopTest, RecordSample, ReportSample,
         ReportFetch, KeepQuiet, EndFetch, GiveUp, MarkWorkerStopped
  <2>2. CASE Die(w)
    <3>1. ~Alive(w)' /\ \A v \in Workers \ {w} : worker'[v] = worker[v]
      BY <1>t, <2>2 DEF Die, Nobody, Alive, TypeInv, TypeOK
    <3>2. \A v \in Workers : Alive(v)' => worker'[v] = worker[v] /\ Alive(v)
      BY <3>1 DEF Alive
    <3>3. \A r \in Requests : req[r].held # None => req[r].held \in Workers
      BY <1>t DEF TypeInv, TypeOK, RequestType, Maybe
    <3>4. QED
      BY <1>t, <2>1, <3>2, <3>3, HoldKept DEF Alive
  <2>3. CASE \E from, to \in WorkerPc \ {"dead"} : Step(w, from, to)
    <3>1. SameWorkers
      BY <1>t, <2>3, StepKeeps
    <3>2. \A r \in Requests : req[r].held # None => req[r].held \in Workers
      BY <1>t DEF TypeInv, TypeOK, RequestType, Maybe
    <3>3. QED
      BY <1>t, <2>1, <3>1, <3>2, HoldKept DEF SameWorkers, Alive
  <2>4. QED
    BY <1>2, <2>2, <2>3, WorkerMoves
<1>3. CASE BootMigrate \/ BootRead \/ BootDone \/ UNCHANGED vars
  BY <1>s, <1>3 DEF BootMigrate, BootRead, BootDone, vars
<1>4. CASE BootStart
  <2>1. PICK b \in boot : StartConnector(b.conn, b.config)
    BY <1>4 DEF BootStart
  <2>2. b.conn \in Connectors /\ UNCHANGED req
    BY <1>4, <1>t DEF BootStart, TypeInv, TypeOK
  <2>3. QED
    BY <1>t, <2>1, <2>2, StartHolds
<1>5. CASE Crash
  BY <1>5 DEF Crash, HoldInv, Alive, Nobody, NoRequest, Request
<1>6. QED
  <2>1. ASSUME NEW r \in Requests, Arrive(r), req[r].pc = "idle" PROVE HoldInv'
    BY <1>1, <2>1 DEF Join, At
  <2>2. QED
    BY <1>1, <1>2, <1>3, <1>4, <1>5, <2>1 DEF InTurn, Boot

Keepers == {"create", "update", "enable"}
Clears == {"signal", "join", "purge"}

Traced(c) == c \in samples \cup meta
Swapping(c) == \E r \in Requests : req[r].conn = c /\ req[r].op = "update" /\ req[r].pc \in {"read", "pop"}
Clearing(c) == \E r \in Requests : req[r].conn = c /\ req[r].pc \in Clears

\* What is left of a connector: its registered thread runs what the table says, unless an
\* update is about to stop it; its traces are a registered thread's, or about to go.
Tidy(c) ==
    /\ Registered(c) => Enabled(c)
    /\ HasLiveWorker(c) => worker[registry[c]].config = row[c].config \/ Swapping(c)
    /\ Traced(c) => Registered(c) \/ Clearing(c)
    /\ row[c].running => Enabled(c)

\* Where a request is, and what it knows of its connector.
Stage(q) ==
    LET c == q.conn IN
    /\ q.pc \in {"insert", "read", "start"} => q.op \in Keepers
    /\ q.pc = "insert" => q.op = "create" /\ row[c].state = "never"
    /\ q.pc = "pop" => q.op \in {"update", "delete"}
    /\ q.pc \in Clears \cup {"stopped"} => q.op \in {"update", "delete", "disable"}
    /\ q.pc \in {"pop", "signal", "join"} => Enabled(c)
    /\ q.pc \notin {"idle", "insert"} /\ q.op \in Keepers => Enabled(c)
    /\ q.pc \notin {"idle", "insert", "read"} /\ q.op \in Keepers => q.config = row[c].config
    /\ q.pc \in Clears \cup {"stopped", "drop", "off"} => registry[c] = None
    /\ q.pc = "off" => ~row[c].running

DueOK == \A b \in boot : Enabled(b.conn) /\ b.config = row[b.conn].config

RestInv ==
    /\ \A c \in Connectors : Tidy(c)
    /\ \A r \in Requests : Stage(req[r])
    /\ phase = "booting" => DueOK

CleanInv == IInv /\ HoldInv /\ ServedInv /\ RestInv

\* A live thread belongs to an enabled connector, is registered or being cleared away.
LEMMA LiveIsEnabled ==
    ASSUME CleanInv, NEW w \in Workers, Alive(w), NEW c, c = worker[w].conn
    PROVE  c \in Connectors /\ Enabled(c) /\ (registry[c] = w \/ Clearing(c))
<1>1. c \in Connectors
  BY DEF CleanInv, IInv, TypeInv, WorkersOK
<1>2. CASE registry[c] = w
  BY <1>1, <1>2, NoneAssumption DEF CleanInv, RestInv, Tidy, Registered
<1>3. ASSUME NEW r \in Requests, req[r].pc \in {"signal", "join"}, req[r].held = w
      PROVE  Enabled(c) /\ Clearing(c)
  <2>1. req[r].conn = c
    BY <1>3, NoneAssumption DEF CleanInv, HoldInv
  <2>2. QED
    BY <1>3, <2>1 DEF CleanInv, RestInv, Stage, Clearing, Clears
<1>4. QED
  BY <1>1, <1>2, <1>3 DEF CleanInv, IInv, NoOrphanWorker, HoldInv, At

\* A request's step: what it does to its connector is all it does.
LEMMA RequestRests ==
    ASSUME NEW r \in Requests, OthersRest(r), CleanInv, NEW c \in Connectors, Effect(r, c),
           \A d \in Connectors \ {c} : Traced(d)' => Traced(d),
           \A w \in Workers : (\E d \in Connectors \ {c} : registry[d] = w) =>
             worker'[w].pc = worker[w].pc /\ worker'[w].config = worker[w].config,
           Tidy(c)', Stage(req[r])'
    PROVE  RestInv'
<1>1. ASSUME NEW d \in Connectors, d # c PROVE Tidy(d)'
  <2>1. Tidy(d) /\ row'[d] = row[d] /\ registry'[d] = registry[d]
    BY <1>1 DEF CleanInv, RestInv, Effect
  <2>2. ~Swapping(d) /\ ~Clearing(d)
    BY <1>1 DEF OthersRest, Effect, Swapping, Clearing, Clears
  <2>3. registry[d] # None => registry[d] \in Workers
    BY <1>1 DEF CleanInv, IInv, TypeInv, TypeOK, Maybe
  <2>4. Traced(d)' => Traced(d)
    BY <1>1
  <2>5. registry[d] # None =>
          /\ worker'[registry[d]].pc = worker[registry[d]].pc
          /\ worker'[registry[d]].config = worker[registry[d]].config
    BY <1>1, <2>3
  <2>6. QED
    BY <2>1, <2>2, <2>4, <2>5 DEF Tidy, Registered, Enabled, Stored, HasLiveWorker, Alive
<1>2. phase' = "up"
  BY DEF Effect
<1>3. ASSUME NEW s \in Requests, s # r PROVE Stage(req[s])'
  <2>1. req'[s] = req[s] /\ req[s].pc = "idle"
    BY <1>3 DEF Effect, OthersRest
  <2>2. QED
    BY <2>1 DEF Stage, Clears
<1>4. QED
  BY <1>1, <1>2, <1>3 DEF RestInv

LEMMA ArriveRests ==
    ASSUME NEW r \in Requests, OthersRest(r), CleanInv, NEW c \in Connectors,
           \/ CreateCheck(r, c) \/ UpdateRow(r, c) \/ EnableRow(r, c) \/ DisablePop(r, c) \/ DeleteRead(r, c)
    PROVE  RestInv'
<1>t. TypeInv /\ row \in [Connectors -> RowType] /\ req \in [Requests -> RequestType] /\ row[c] \in RowType
      /\ registry \in [Connectors -> Maybe(Workers)]
  BY DEF CleanInv, IInv, TypeInv, TypeOK
<1>1. Effect(r, c) /\ UNCHANGED <<meta, samples, worker>> /\ req[r].pc = "idle"
  BY <1>t, ArriveEffect DEF CreateCheck, UpdateRow, EnableRow, DisablePop, DeleteRead, Begin
<1>2. ~Swapping(c) /\ ~Clearing(c) /\ Tidy(c)
  BY <1>1 DEF OthersRest, Swapping, Clearing, Clears, CleanInv, RestInv
<1>3. Stage(req[r])' /\ Tidy(c)'
  <2>1. CASE CreateCheck(r, c)
    <3> DEFINE e == ~\E d \in Connectors : Enabled(d)
    <3>1. PICK k \in Configs : req' = [req EXCEPT ![r] = Request("create", c, "insert", k, e, None)]
      BY <2>1 DEF CreateCheck
    <3> HIDE DEF e
    <3>2. req'[r] = Request("create", c, "insert", k, e, None) /\ UNCHANGED <<row, registry>>
          /\ row[c].state = "never"
      BY <2>1, <3>1, <1>t DEF CreateCheck
    <3>3. Stage(req[r])'
      BY <3>2 DEF Stage, Request, Keepers, Clears
    <3>4. Tidy(c)'
      BY <1>1, <1>2, <3>2 DEF Tidy, Registered, Enabled, Stored, HasLiveWorker, Alive, Traced
    <3>5. QED
      BY <3>3, <3>4
  <2>2. CASE UpdateRow(r, c)
    <3>1. PICK k \in Configs : row' = [row EXCEPT ![c].config = k]
      BY <2>2 DEF UpdateRow
    <3>2. /\ row'[c].state = row[c].state /\ row'[c].enabled = row[c].enabled
          /\ row'[c].running = row[c].running
      BY <3>1, <1>t DEF RowType
    <3>3. UNCHANGED registry /\ Stored(c)
      BY <2>2 DEF UpdateRow
    <3>4. CASE row[c].enabled
      <4>1. req'[r] = Request("update", c, "read", None, FALSE, None)
        BY <2>2, <3>4, <1>t DEF UpdateRow
      <4>2. req'[r].op = "update" /\ req'[r].pc = "read" /\ req'[r].conn = c
        BY <4>1 DEF Request
      <4>3. Stage(req[r])'
        BY <3>2, <3>3, <3>4, <4>2 DEF Stage, Keepers, Clears, Enabled, Stored
      <4>4. Swapping(c)'
        BY <4>2 DEF Swapping
      <4>5. QED
        BY <1>1, <1>2, <3>2, <3>3, <3>4, <4>3, <4>4
        DEF Tidy, Registered, Enabled, Stored, Traced
    <3>5. CASE ~row[c].enabled
      <4>1. req' = req
        BY <2>2, <3>5 DEF UpdateRow
      <4>2. Stage(req[r])'
        BY <1>1, <4>1 DEF Stage, Clears
      <4>3. registry[c] = None
        BY <1>2, <3>5 DEF Tidy, Registered, Enabled
      <4>4. QED
        BY <1>1, <1>2, <3>2, <3>3, <3>5, <4>2, <4>3
        DEF Tidy, Registered, Enabled, Stored, Traced, HasLiveWorker
    <3>6. QED
      BY <3>4, <3>5
  <2>3. CASE EnableRow(r, c)
    <3>1. row' = [row EXCEPT ![c].enabled = TRUE] /\ UNCHANGED registry /\ Stored(c)
          /\ req'[r] = Request("enable", c, "read", None, FALSE, None)
      BY <2>3, <1>t DEF EnableRow
    <3>2. row'[c].state = "stored" /\ row'[c].enabled /\ row'[c].config = row[c].config
      BY <3>1, <1>t DEF RowType, Stored
    <3>3. Stage(req[r])'
      BY <3>1, <3>2 DEF Stage, Request, Keepers, Clears, Enabled, Stored
    <3>4. Tidy(c)'
      BY <1>1, <1>2, <3>1, <3>2 DEF Tidy, Registered, Enabled, Stored, HasLiveWorker, Alive, Traced
    <3>5. QED
      BY <3>3, <3>4
  <2>4. CASE DisablePop(r, c)
    <3> DEFINE a == IF registry[c] = None THEN "purge" ELSE "signal"
    <3>1. /\ req'[r] = Request("disable", c, a, req[r].config, FALSE, registry[c])
          /\ registry'[c] = None /\ UNCHANGED row
      BY <2>4, <1>t DEF DisablePop, PopWorker
    <3>2. a \in {"purge", "signal"} /\ (a = "signal" => Enabled(c))
      BY <1>2 DEF Tidy, Registered
    <3> HIDE DEF a
    <3>3. req'[r].pc = a /\ req'[r].op = "disable" /\ req'[r].conn = c
      BY <3>1 DEF Request
    <3>4. Stage(req[r])'
      BY <3>1, <3>2, <3>3 DEF Stage, Keepers, Clears, Enabled, Stored
    <3>5. Clearing(c)'
      BY <3>2, <3>3 DEF Clearing, Clears
    <3>6. Tidy(c)'
      BY <1>2, <3>1, <3>5 DEF Tidy, Registered, Enabled, Stored, HasLiveWorker
    <3>7. QED
      BY <3>4, <3>6
  <2>5. CASE DeleteRead(r, c)
    <3> DEFINE a == IF row[c].enabled THEN "pop" ELSE "drop"
    <3>1. /\ req'[r] = Request("delete", c, a, None, FALSE, None)
          /\ UNCHANGED <<row, registry>> /\ Stored(c)
      BY <2>5, <1>t DEF DeleteRead
    <3>2. a \in {"pop", "drop"} /\ (a = "pop" => Enabled(c)) /\ (a = "drop" => registry[c] = None)
      BY <1>2, <3>1 DEF Tidy, Registered, Enabled
    <3> HIDE DEF a
    <3>3. req'[r].pc = a /\ req'[r].op = "delete" /\ req'[r].conn = c
      BY <3>1 DEF Request
    <3>4. Stage(req[r])'
      BY <3>1, <3>2, <3>3 DEF Stage, Keepers, Clears, Enabled, Stored
    <3>5. Tidy(c)'
      BY <1>1, <1>2, <3>1 DEF Tidy, Registered, Enabled, Stored, HasLiveWorker, Alive, Traced
    <3>6. QED
      BY <3>4, <3>5
  <2>6. QED
    BY <2>1, <2>2, <2>3, <2>4, <2>5
<1>4. QED
  BY <1>1, <1>3, RequestRests DEF Traced

\* A request that goes on with its thread in its hand, or without one.
LEMMA GotoStage ==
    ASSUME TypeInv, NEW r \in Requests, NEW pc, Goto(r, pc)
    PROVE  /\ req'[r].pc = pc /\ req'[r].op = req[r].op /\ req'[r].conn = req[r].conn
           /\ req'[r].config = req[r].config
<1>1. req[r] \in RequestType /\ req \in [Requests -> RequestType]
  BY DEF TypeInv, TypeOK
<1>2. QED
  BY <1>1 DEF Goto, RequestType

LEMMA IdleStage == ASSUME NEW q, q.pc = "idle" PROVE Stage(q)'
  BY DEF Stage, Clears

LEMMA FinishStage == ASSUME TypeInv, NEW r \in Requests, Finish(r) PROVE req'[r].pc = "idle" /\ Stage(req[r])'
<1>1. req'[r] = NoRequest /\ NoRequest.pc = "idle"
  BY DEF Finish, TypeInv, TypeOK, NoRequest, Request
<1>2. QED
  BY <1>1 DEF Stage, Clears

LEMMA EditRests ==
    ASSUME NEW r \in Requests, OthersRest(r), CleanInv, NEW c, c = req[r].conn,
           CreateInsert(r) \/ ReadRecord(r) \/ MarkStopped(r) \/ Drop(r) \/ TurnOff(r)
    PROVE  Stage(req[r])' /\ Tidy(c)'
<1>t. TypeInv /\ row \in [Connectors -> RowType] /\ req[r] \in RequestType /\ c \in Connectors
      /\ row[c] \in RowType /\ req \in [Requests -> RequestType]
  BY DEF CleanInv, IInv, TypeInv, TypeOK, RequestsOK, CreateInsert, ReadRecord, MarkStopped, Drop, TurnOff, At
<1>1. Tidy(c) /\ Stage(req[r]) /\ UNCHANGED <<registry, meta, samples, worker>>
  BY <1>t DEF CleanInv, RestInv, CreateInsert, ReadRecord, MarkStopped, Drop, TurnOff
<1>2. (\A s \in Requests \ {r} : req[s].pc = "idle") /\ ~Clearing(c)
  BY DEF OthersRest, Clearing, Clears, CreateInsert, ReadRecord, MarkStopped, Drop, TurnOff, At
<1>3. CASE CreateInsert(r)
  <2>1. registry[c] = None /\ ~Traced(c) /\ req[r].op = "create" /\ req[r].pc = "insert"
    BY <1>1, <1>2, <1>3 DEF CreateInsert, At, Stage, Tidy, Registered, Enabled, Stored
  <2>2. row'[c] = Row("stored", req[r].enable, FALSE, req[r].config)
    BY <1>3, <1>t DEF CreateInsert
  <2>3. Tidy(c)'
    BY <1>1, <2>1, <2>2 DEF Tidy, Registered, HasLiveWorker, Traced, Row
  <2>4. CASE req[r].enable
    <3>1. Goto(r, "read")
      BY <1>3, <2>4 DEF CreateInsert
    <3>2. req'[r].pc = "read" /\ req'[r].op = "create" /\ req'[r].conn = c
      BY <1>t, <2>1, <3>1, GotoStage
    <3>3. row'[c].state = "stored" /\ row'[c].enabled
      BY <2>2, <2>4 DEF Row
    <3>4. QED
      BY <2>3, <3>2, <3>3 DEF Stage, Keepers, Clears, Enabled, Stored
  <2>5. CASE ~req[r].enable
    BY <1>3, <1>t, <2>3, <2>5, FinishStage DEF CreateInsert
  <2>6. QED
    BY <2>4, <2>5
<1>4. CASE ReadRecord(r)
  <2>1. req[r].pc = "read" /\ req[r].op \in Keepers /\ Enabled(c) /\ UNCHANGED row
    BY <1>1, <1>4 DEF ReadRecord, At, Stage
  <2> DEFINE a == IF req[r].op = "update" THEN "pop" ELSE "start"
             q == [req[r] EXCEPT !.config = row[c].config, !.pc = a]
  <2>2. req' = [req EXCEPT ![r] = q]
    BY <1>4, <2>1 DEF ReadRecord, Enabled
  <2>3. (req[r].op = "update" => a = "pop") /\ (req[r].op # "update" => a = "start")
    OBVIOUS
  <2> HIDE DEF a
  <2>4. q.pc = a /\ q.conn = c /\ q.op = req[r].op /\ q.config = row[c].config
    BY <1>t DEF RequestType
  <2> HIDE DEF q
  <2>5. req'[r] = q
    BY <1>t, <2>2
  <2>6. Stage(req[r])'
    BY <2>1, <2>3, <2>4, <2>5 DEF Stage, Keepers, Clears, Enabled, Stored
  <2>7. Swapping(c) => Swapping(c)'
    <3>1. Swapping(c) => req[r].op = "update"
      BY <1>2 DEF Swapping
    <3>2. req[r].op = "update" => Swapping(c)'
      BY <2>3, <2>4, <2>5 DEF Swapping
    <3>3. QED
      BY <3>1, <3>2
  <2>8. Tidy(c)'
    BY <1>1, <1>2, <2>1, <2>7 DEF Tidy, Registered, Enabled, Stored, HasLiveWorker, Alive, Traced
  <2>9. QED
    BY <2>6, <2>8
<1>5. CASE MarkStopped(r)
  <2>1. /\ req[r].pc = "stopped" /\ registry[c] = None /\ ~Traced(c)
        /\ req[r].op \in {"update", "delete", "disable"}
    BY <1>1, <1>2, <1>5 DEF MarkStopped, At, Stage, Tidy, Registered
  <2>2. SetRunning(c, FALSE)
    BY <1>5 DEF MarkStopped
  <2>3. /\ row'[c].state = row[c].state /\ row'[c].enabled = row[c].enabled
        /\ row'[c].config = row[c].config /\ ~row'[c].running
    <3>1. CASE Stored(c)
      BY <2>2, <3>1, <1>t DEF SetRunning, RowType
    <3>2. CASE ~Stored(c)
      BY <2>2, <3>2, <1>1 DEF SetRunning, Tidy, Enabled
    <3>3. QED
      BY <3>1, <3>2
  <2>4. Tidy(c)'
    BY <1>1, <2>1, <2>3 DEF Tidy, Registered, HasLiveWorker, Traced
  <2>5. PICK pc \in {"start", "drop", "off"} :
          Goto(r, pc) /\ (pc = "start" <=> req[r].op = "update")
    BY <1>5, <2>1 DEF MarkStopped
  <2>6. /\ req'[r].pc = pc /\ req'[r].op = req[r].op /\ req'[r].conn = c
        /\ req'[r].config = req[r].config
    BY <1>t, <2>5, GotoStage
  <2>7. req[r].op = "update" => Enabled(c) /\ req[r].config = row[c].config
    BY <1>1, <2>1 DEF Stage, Keepers
  <2>8. Stage(req[r])'
    BY <1>1, <2>1, <2>3, <2>5, <2>6, <2>7 DEF Stage, Keepers, Clears, Enabled, Stored
  <2>9. QED
    BY <2>4, <2>8
<1>6. CASE Drop(r)
  <2>1. registry[c] = None /\ ~Traced(c)
    BY <1>1, <1>2, <1>6 DEF Drop, At, Stage, Tidy, Registered
  <2>2. ~row'[c].running
    BY <1>6, <1>1, <1>t DEF Drop, Tombstone, Row, Tidy, Enabled
  <2>3. Tidy(c)'
    BY <1>1, <2>1, <2>2 DEF Tidy, Registered, HasLiveWorker, Traced
  <2>4. QED
    BY <1>6, <1>t, <2>3, FinishStage DEF Drop
<1>7. CASE TurnOff(r)
  <2>1. registry[c] = None /\ ~Traced(c) /\ ~row[c].running
    BY <1>1, <1>2, <1>7 DEF TurnOff, At, Stage, Tidy, Registered
  <2>2. ~row'[c].running
    BY <1>7, <2>1, <1>t DEF TurnOff, RowType
  <2>3. Tidy(c)'
    BY <1>1, <2>1, <2>2 DEF Tidy, Registered, HasLiveWorker, Traced
  <2>4. QED
    BY <1>7, <1>t, <2>3, FinishStage DEF TurnOff
<1>8. QED
  BY <1>3, <1>4, <1>5, <1>6, <1>7

\* stop_connector, from the registry to the traces.
LEMMA StopRests ==
    ASSUME NEW r \in Requests, OthersRest(r), CleanInv, NEW c, c = req[r].conn,
           Pop(r) \/ Signal(r) \/ Join(r) \/ Purge(r)
    PROVE  Stage(req[r])' /\ Tidy(c)'
<1>t. TypeInv /\ row \in [Connectors -> RowType] /\ req[r] \in RequestType /\ c \in Connectors
      /\ registry \in [Connectors -> Maybe(Workers)] /\ req \in [Requests -> RequestType]
  BY DEF CleanInv, IInv, TypeInv, TypeOK, RequestsOK, Pop, Signal, Join, Purge, At
<1>1. Tidy(c) /\ Stage(req[r]) /\ UNCHANGED row
  BY <1>t DEF CleanInv, RestInv, Pop, Signal, Join, Purge
<1>2. CASE Pop(r)
  <2> DEFINE a == IF registry[c] = None THEN "purge" ELSE "signal"
  <2>1. /\ req'[r] = Request(req[r].op, c, a, req[r].config, FALSE, registry[c])
        /\ registry'[c] = None /\ req[r].pc = "pop"
    BY <1>2, <1>t DEF Pop, PopWorker, At
  <2>2. a \in {"purge", "signal"}
    OBVIOUS
  <2> HIDE DEF a
  <2>3. /\ req'[r].pc = a /\ req'[r].op = req[r].op /\ req'[r].conn = c
        /\ req'[r].config = req[r].config
    BY <2>1 DEF Request
  <2>4. Stage(req[r])'
    BY <1>1, <2>1, <2>2, <2>3 DEF Stage, Keepers, Clears, Enabled, Stored
  <2>5. Clearing(c)'
    BY <2>2, <2>3 DEF Clearing, Clears
  <2>6. Tidy(c)'
    BY <1>1, <2>1, <2>5 DEF Tidy, Registered, Enabled, Stored, HasLiveWorker
  <2>7. QED
    BY <2>4, <2>6
<1>3. CASE Signal(r)
  <2>1. req[r].pc = "signal" /\ Goto(r, "join") /\ UNCHANGED registry
    BY <1>3 DEF Signal, At
  <2>2. /\ req'[r].pc = "join" /\ req'[r].op = req[r].op /\ req'[r].conn = c
        /\ req'[r].config = req[r].config
    BY <1>t, <2>1, GotoStage
  <2>3. Stage(req[r])' /\ registry[c] = None
    BY <1>1, <2>1, <2>2 DEF Stage, Keepers, Clears, Enabled, Stored
  <2>4. Clearing(c)'
    BY <2>2 DEF Clearing, Clears
  <2>5. QED
    BY <1>1, <2>1, <2>3, <2>4 DEF Tidy, Registered, Enabled, Stored, HasLiveWorker
<1>4. CASE Join(r)
  <2> DEFINE q == [req[r] EXCEPT !.pc = "purge", !.held = None]
  <2>1. req' = [req EXCEPT ![r] = q] /\ req[r].pc = "join" /\ UNCHANGED registry
    BY <1>4 DEF Join, At
  <2>2. q.pc = "purge" /\ q.op = req[r].op /\ q.conn = c /\ q.config = req[r].config
    BY <1>t DEF RequestType
  <2> HIDE DEF q
  <2>3. req'[r] = q
    BY <1>t, <2>1
  <2>4. Stage(req[r])' /\ registry[c] = None
    BY <1>1, <2>1, <2>2, <2>3 DEF Stage, Keepers, Clears, Enabled, Stored
  <2>5. Clearing(c)'
    BY <2>2, <2>3 DEF Clearing, Clears
  <2>6. QED
    BY <1>1, <2>1, <2>4, <2>5 DEF Tidy, Registered, Enabled, Stored, HasLiveWorker
<1>5. CASE Purge(r)
  <2>1. req[r].pc = "purge" /\ Goto(r, "stopped") /\ UNCHANGED registry /\ ~Traced(c)'
    BY <1>5 DEF Purge, At, Traced
  <2>2. /\ req'[r].pc = "stopped" /\ req'[r].op = req[r].op /\ req'[r].conn = c
        /\ req'[r].config = req[r].config
    BY <1>t, <2>1, GotoStage
  <2>3. Stage(req[r])' /\ registry[c] = None
    BY <1>1, <2>1, <2>2 DEF Stage, Keepers, Clears, Enabled, Stored
  <2>4. QED
    BY <1>1, <2>1, <2>3 DEF Tidy, Registered, Enabled, Stored, HasLiveWorker
<1>6. QED
  BY <1>2, <1>3, <1>4, <1>5

\* start_connector with the configuration of the table.
LEMMA StartTidies ==
    ASSUME TypeInv, NEW c \in Connectors, Tidy(c), ~Swapping(c), Enabled(c),
           StartConnector(c, row[c].config), UNCHANGED row
    PROVE  Tidy(c)' /\ registry'[c] # None
<1>1. CASE KeepWorker(c)
  <2>1. UNCHANGED <<registry, worker>> /\ registry[c] # None
    BY <1>1 DEF KeepWorker, HasLiveWorker
  <2>2. QED
    BY <1>1, <2>1 DEF Tidy, Registered, Enabled, Stored, HasLiveWorker, Alive
<1>2. CASE LaunchWorker(c, row[c].config)
  <2>1. PICK w \in Workers :
          registry' = [registry EXCEPT ![c] = w] /\ worker'[w].config = row[c].config
    BY <1>2, LaunchFacts
  <2>2. registry'[c] = w /\ w # None
    BY <2>1, NoneAssumption DEF TypeInv, TypeOK
  <2>3. QED
    BY <2>1, <2>2 DEF Tidy, Registered, Enabled, Stored, HasLiveWorker
<1>3. QED
  BY <1>1, <1>2 DEF StartConnector

LEMMA StartFar ==
    ASSUME TypeInv, NEW c \in Connectors, NEW k, StartConnector(c, k)
    PROVE  /\ \A d \in Connectors \ {c} : d \in meta' => d \in meta
           /\ \A w \in Workers : (\E d \in Connectors \ {c} : registry[d] = w) => worker'[w] = worker[w]
           /\ \A d \in Connectors \ {c} : registry'[d] = registry[d]
<1>1. CASE KeepWorker(c)
  BY <1>1 DEF KeepWorker
<1>2. CASE LaunchWorker(c, k)
  <2>1. PICK w \in Workers :
          /\ Spare(w) /\ registry' = [registry EXCEPT ![c] = w]
          /\ \A v \in Workers \ {w} : worker'[v] = worker[v]
    BY <1>2, LaunchFacts
  <2>2. meta' = meta \cup {c}
    BY <1>2 DEF LaunchWorker
  <2>3. QED
    BY <2>1, <2>2 DEF Spare, TypeInv, TypeOK
<1>3. QED
  BY <1>1, <1>2 DEF StartConnector

LEMMA ServeRests ==
    ASSUME Alone, CleanInv, NEW r \in Requests, Serve(r)
    PROVE  RestInv'
<1>t. TypeInv /\ req[r] \in RequestType /\ registry \in [Connectors -> Maybe(Workers)]
  BY DEF CleanInv, IInv, TypeInv, TypeOK
<1>0. req[r].pc # "idle"
  BY DEF Serve, CreateInsert, ReadRecord, Pop, Signal, Join, Purge, MarkStopped, Start, Drop, TurnOff, At
<1>1. req[r].pc # "idle" /\ OthersRest(r)
  BY <1>0 DEF Alone
<1>2. PICK c \in Connectors : c = req[r].conn /\ phase = "up" /\ Effect(r, c)
  BY <1>1, <1>t, ServeEffect DEF CleanInv, ServedInv
<1>3. /\ \A d \in Connectors \ {c} : Traced(d)' => Traced(d)
      /\ \A w \in Workers : (\E d \in Connectors \ {c} : registry[d] = w) =>
           worker'[w].pc = worker[w].pc /\ worker'[w].config = worker[w].config
  <2>1. CASE Start(r)
    <3>1. StartConnector(c, req[r].config) /\ UNCHANGED samples
      BY <1>2, <2>1 DEF Start
    <3>2. QED
      BY <1>2, <1>t, <3>1, StartFar DEF Traced
  <2>2. CASE Purge(r)
    BY <1>2, <2>2 DEF Purge, Traced
  <2>3. CASE Signal(r)
    <3>1. req[r].held \in Workers /\ req[r].held # None
      BY <2>3, <1>t DEF Signal, At, TypeInv, RequestsOK, RequestType, Maybe
    <3>2. \A d \in Connectors : registry[d] # req[r].held
      BY <3>1 DEF CleanInv, IInv, RegistryInv
    <3>3. \A w \in Workers \ {req[r].held} : worker'[w] = worker[w]
      BY <2>3, <3>1, <1>t DEF Signal, TypeInv, TypeOK
    <3>4. UNCHANGED <<meta, samples>>
      BY <2>3 DEF Signal
    <3>5. QED
      BY <3>2, <3>3, <3>4 DEF Traced
  <2>4. CASE ~(Start(r) \/ Purge(r) \/ Signal(r))
    <3>1. UNCHANGED <<meta, samples, worker>>
      BY <2>4 DEF Serve, CreateInsert, ReadRecord, Pop, Join, MarkStopped, Drop, TurnOff
    <3>2. QED
      BY <3>1 DEF Traced
  <2>5. QED
    BY <2>1, <2>2, <2>3, <2>4
<1>4. Stage(req[r])' /\ Tidy(c)'
  <2>1. CASE Start(r)
    <3>1. /\ StartConnector(c, req[r].config) /\ Finish(r) /\ UNCHANGED row
          /\ req[r].pc = "start"
      BY <1>2, <2>1 DEF Start, At
    <3>2. Enabled(c) /\ req[r].config = row[c].config /\ ~Swapping(c) /\ Tidy(c)
      BY <1>1, <1>2, <3>1 DEF OthersRest, Swapping, CleanInv, RestInv, Stage
    <3>3. QED
      BY <1>2, <1>t, <3>1, <3>2, StartTidies, FinishStage
  <2>2. CASE ~Start(r)
    BY <1>1, <1>2, <2>2, EditRests, StopRests DEF Serve
  <2>3. QED
    BY <2>1, <2>2
<1>5. QED
  BY <1>1, <1>2, <1>3, <1>4, RequestRests

\* What no step of a thread does to a connector.
LEMMA ThreadTidies ==
    ASSUME CleanInv, NEW w \in Workers, Work(w), NEW c \in Connectors
    PROVE  /\ UNCHANGED <<registry, req, phase, boot>>
           /\ row'[c].state = row[c].state /\ row'[c].enabled = row[c].enabled
           /\ row'[c].config = row[c].config
           /\ row'[c].running => row[c].running \/ worker[w].conn = c
           /\ Traced(c)' => Traced(c) \/ worker[w].conn = c
           /\ \A v \in Workers : worker'[v].pc # "dead" =>
                worker[v].pc # "dead" /\ worker'[v].config = worker[v].config
<1>t. /\ TypeOK /\ row \in [Connectors -> RowType] /\ worker \in [Workers -> WorkerType]
      /\ row[c] \in RowType /\ worker[w] \in WorkerType
  BY DEF CleanInv, IInv, TypeInv, TypeOK
<1>1. UNCHANGED <<registry, req, phase, boot>> /\ Alive(w)
  BY DEF Work, Announce, MarkStarted, LoopTest, RecordSample, ReportSample,
     ReportFetch, KeepQuiet, EndFetch, GiveUp, MarkWorkerStopped, Step, Alive
<1>2. UNCHANGED row \/ \E b \in BOOLEAN : SetRunning(worker[w].conn, b)
  BY DEF Work, Announce, MarkStarted, LoopTest, RecordSample, ReportSample,
     ReportFetch, KeepQuiet, EndFetch, GiveUp, MarkWorkerStopped
<1>3. worker[w].conn \in Connectors
  BY <1>1 DEF CleanInv, IInv, TypeInv, WorkersOK
<1>4. /\ row'[c].state = row[c].state /\ row'[c].enabled = row[c].enabled
      /\ row'[c].config = row[c].config
      /\ row'[c].running => row[c].running \/ worker[w].conn = c
  <2>1. CASE UNCHANGED row
    BY <2>1
  <2>2. ASSUME NEW b \in BOOLEAN, SetRunning(worker[w].conn, b)
        PROVE  /\ row'[c].state = row[c].state /\ row'[c].enabled = row[c].enabled
               /\ row'[c].config = row[c].config
               /\ row'[c].running => row[c].running \/ worker[w].conn = c
    <3>1. PICK d \in Connectors : d = worker[w].conn
      BY <1>3
    <3>2. UNCHANGED row \/ row' = [row EXCEPT ![d].running = b]
      BY <2>2, <3>1 DEF SetRunning
    <3>3. QED
      BY <3>1, <3>2, <1>t DEF RowType
  <2>3. QED
    BY <1>2, <2>1, <2>2
<1>5. Traced(c)' => Traced(c) \/ worker[w].conn = c
  <2>1. /\ meta' = meta \/ meta' = meta \cup {worker[w].conn}
        /\ samples' = samples \/ samples' = samples \cup {worker[w].conn}
    BY DEF Work, Announce, MarkStarted, LoopTest, RecordSample, ReportSample,
       ReportFetch, KeepQuiet, EndFetch, GiveUp, MarkWorkerStopped
  <2>2. QED
    BY <2>1 DEF Traced
<1>6. \A v \in Workers : worker'[v].pc # "dead" =>
        worker[v].pc # "dead" /\ worker'[v].config = worker[v].config
  <2>1. CASE Die(w)
    BY <2>1, <1>t DEF Die, Nobody
  <2>2. ASSUME NEW from \in WorkerPc \ {"dead"}, NEW to \in WorkerPc \ {"dead"}, Step(w, from, to)
        PROVE  \A v \in Workers : worker'[v].pc # "dead" =>
                 worker[v].pc # "dead" /\ worker'[v].config = worker[v].config
    BY <2>2, <1>t DEF Step, WorkerType
  <2>3. QED
    BY <2>1, <2>2, WorkerMoves
<1>7. QED
  BY <1>1, <1>4, <1>5, <1>6

LEMMA WorkRests ==
    ASSUME Alone, CleanInv, NEW w \in Workers, Work(w)
    PROVE  RestInv'
<1>1. UNCHANGED <<registry, req, phase, boot>> /\ Alive(w)
  BY DEF Work, Announce, MarkStarted, LoopTest, RecordSample, ReportSample,
     ReportFetch, KeepQuiet, EndFetch, GiveUp, MarkWorkerStopped, Step, Alive
<1>2. PICK c \in Connectors : c = worker[w].conn /\ Enabled(c) /\ (Registered(c) \/ Clearing(c))
  <2>1. worker[w].conn \in Connectors
    BY <1>1, LiveIsEnabled
  <2>2. QED
    BY <1>1, <2>1, LiveIsEnabled, NoneAssumption DEF Registered
<1>3. ASSUME NEW d \in Connectors PROVE Tidy(d)'
  <2>1. Tidy(d)
    BY DEF CleanInv, RestInv
  <2>2. (Swapping(d)' <=> Swapping(d)) /\ (Clearing(d)' <=> Clearing(d))
    BY <1>1 DEF Swapping, Clearing
  <2>3. registry[d] # None => registry[d] \in Workers
    BY DEF CleanInv, IInv, TypeInv, TypeOK, Maybe
  <2>4. QED
    BY <1>1, <1>2, <2>1, <2>2, <2>3, ThreadTidies
    DEF Tidy, Registered, Enabled, Stored, HasLiveWorker, Alive
<1>4. ASSUME NEW r \in Requests PROVE Stage(req[r])'
  <2>1. Stage(req[r])
    BY DEF CleanInv, RestInv
  <2>2. CASE req[r].pc = "idle"
    BY <1>1, <2>2 DEF Stage, Clears
  <2>3. CASE req[r].pc # "idle"
    <3>1. req[r].conn \in Connectors
      BY <2>3 DEF CleanInv, IInv, TypeInv, RequestsOK
    <3>2. req[r].pc = "off" => req[r].conn # c
      BY <1>2, <2>1 DEF Stage, Clears, Registered, Clearing, Alone, OthersRest
    <3>3. QED
      BY <1>1, <1>2, <2>1, <3>1, <3>2, ThreadTidies DEF Stage, Enabled, Stored
  <2>4. QED
    BY <2>2, <2>3
<1>5. phase' = "booting" => DueOK'
  <2>1. \A b \in boot : b.conn \in Connectors
    BY DEF CleanInv, IInv, TypeInv, TypeOK
  <2>2. QED
    BY <1>1, <2>1, ThreadTidies DEF CleanInv, RestInv, DueOK, Enabled, Stored
<1>6. QED
  BY <1>3, <1>4, <1>5 DEF RestInv

LEMMA BootRests ==
    ASSUME CleanInv, Boot \/ Crash \/ UNCHANGED vars
    PROVE  RestInv'
<1>t. /\ TypeInv /\ row \in [Connectors -> RowType] /\ registry \in [Connectors -> Maybe(Workers)]
      /\ boot \in SUBSET [conn : Connectors, config : Maybe(Configs)]
  BY DEF CleanInv, IInv, TypeInv, TypeOK
<1>p. phase # "up" => \A r \in Requests : req[r].pc = "idle"
  BY DEF CleanInv, ServedInv
<1>i. ASSUME phase # "up", UNCHANGED req
      PROVE  /\ \A r \in Requests : Stage(req[r])'
             /\ \A c : ~Swapping(c) /\ ~Clearing(c)
  <2>1. \A r \in Requests : req'[r].pc = "idle"
    BY <1>p, <1>i
  <2>2. QED
    BY <2>1, <1>p, <1>i DEF Stage, Clears, Swapping, Clearing
<1>1. CASE BootMigrate
  <2>1. /\ phase # "up" /\ phase' # "booting"
        /\ UNCHANGED <<registry, meta, samples, worker, req>>
    BY <1>1 DEF BootMigrate
  <2>2. ASSUME NEW c \in Connectors PROVE Tidy(c)'
    <3>1. Tidy(c) /\ ~Swapping(c) /\ ~Clearing(c)
      BY <1>i, <2>1 DEF CleanInv, RestInv
    <3>2. /\ row'[c].state = row[c].state /\ row'[c].config = row[c].config
          /\ row'[c].running = row[c].running /\ (row[c].enabled => row'[c].enabled)
      BY <1>1, <1>t DEF BootMigrate, RowType
    <3>3. QED
      BY <2>1, <3>1, <3>2 DEF Tidy, Registered, Enabled, Stored, HasLiveWorker, Alive, Traced
  <2>3. QED
    BY <1>i, <2>1, <2>2 DEF RestInv
<1>2. CASE BootRead
  <2>1. phase # "up" /\ UNCHANGED <<row, registry, meta, samples, worker, req>>
    BY <1>2 DEF BootRead
  <2>2. \A c \in Connectors : Tidy(c)'
    BY <1>i, <2>1 DEF CleanInv, RestInv, Tidy, Registered, Enabled, Stored, HasLiveWorker, Alive, Traced
  <2>3. DueOK'
    BY <1>2 DEF BootRead, DueOK, Enabled, Stored
  <2>4. QED
    BY <1>i, <2>1, <2>2, <2>3 DEF RestInv
<1>3. CASE BootStart
  <2>1. PICK b \in boot : StartConnector(b.conn, b.config) /\ boot' = boot \ {b}
    BY <1>3 DEF BootStart
  <2>2. phase = "booting" /\ UNCHANGED <<row, samples, req, phase>>
    BY <1>3 DEF BootStart
  <2>3. PICK c \in Connectors : c = b.conn /\ Enabled(c) /\ b.config = row[c].config /\ Tidy(c)
    BY <1>t, <2>2 DEF CleanInv, RestInv, DueOK
  <2>4. Tidy(c)'
    BY <1>i, <1>t, <2>1, <2>2, <2>3, StartTidies
  <2>5. ASSUME NEW d \in Connectors, d # c PROVE Tidy(d)'
    <3>1. Tidy(d) /\ ~Swapping(d) /\ ~Clearing(d)
      BY <1>i, <2>2 DEF CleanInv, RestInv
    <3>2. registry'[d] = registry[d] /\ (d \in meta' => d \in meta)
      BY <1>t, <2>1, <2>3, <2>5, StartFar
    <3>3. registry[d] # None => registry[d] \in Workers
      BY <1>t DEF Maybe
    <3>4. registry[d] # None => worker'[registry[d]] = worker[registry[d]]
      BY <1>t, <2>1, <2>3, <2>5, <3>3, StartFar
    <3>5. QED
      BY <2>2, <3>1, <3>2, <3>4 DEF Tidy, Registered, Enabled, Stored, HasLiveWorker, Alive, Traced
  <2>6. DueOK'
    BY <2>1, <2>2 DEF CleanInv, RestInv, DueOK, Enabled, Stored
  <2>7. QED
    BY <1>i, <2>2, <2>4, <2>5, <2>6 DEF RestInv
<1>4. CASE BootDone
  <2>1. phase # "up" /\ phase' # "booting"
        /\ UNCHANGED <<row, registry, meta, samples, worker, req>>
    BY <1>4 DEF BootDone
  <2>2. \A c \in Connectors : Tidy(c)'
    BY <1>i, <2>1 DEF CleanInv, RestInv, Tidy, Registered, Enabled, Stored, HasLiveWorker, Alive, Traced
  <2>3. QED
    BY <1>i, <2>1, <2>2 DEF RestInv
<1>5. CASE Crash
  <2>1. phase' = "down" /\ UNCHANGED row
        /\ (\A c \in Connectors : registry'[c] = None /\ ~Traced(c)')
        /\ (\A r \in Requests : req'[r] = NoRequest)
    BY <1>5 DEF Crash, Traced
  <2>2. \A c \in Connectors : Tidy(c)'
    BY <2>1 DEF CleanInv, RestInv, Tidy, Registered, Enabled, Stored, HasLiveWorker
  <2>3. \A r \in Requests : Stage(req[r])'
    BY <2>1 DEF Stage, Clears, NoRequest, Request
  <2>4. QED
    BY <2>1, <2>2, <2>3 DEF RestInv
<1>6. CASE UNCHANGED vars
  <2>1. UNCHANGED <<row, registry, meta, samples, worker, req, phase, boot>>
    BY <1>6 DEF vars
  <2>2. \A c \in Connectors : Tidy(c)'
    BY <2>1 DEF CleanInv, RestInv, Tidy, Registered, Enabled, Stored, HasLiveWorker, Alive, Traced,
       Swapping, Clearing
  <2>3. \A r \in Requests : Stage(req[r])'
    BY <2>1 DEF CleanInv, RestInv, Stage, Enabled, Stored
  <2>4. QED
    BY <2>1, <2>2, <2>3 DEF CleanInv, RestInv, DueOK, Enabled, Stored
<1>7. QED
  BY <1>1, <1>2, <1>3, <1>4, <1>5, <1>6 DEF Boot

LEMMA RestStep == Alone /\ CleanInv /\ InTurn => RestInv'
<1> SUFFICES ASSUME Alone, CleanInv, InTurn PROVE RestInv'
  OBVIOUS
<1>1. ASSUME NEW r \in Requests, Arrive(r), OthersRest(r) PROVE RestInv'
  BY <1>1, ArriveRests DEF Arrive
<1>2. ASSUME NEW r \in Requests, Serve(r) PROVE RestInv'
  BY <1>2, ServeRests
<1>3. ASSUME NEW w \in Workers, Work(w) PROVE RestInv'
  BY <1>3, WorkRests
<1>4. CASE Boot \/ Crash \/ UNCHANGED vars
  BY <1>4, BootRests
<1>5. QED
  BY <1>1, <1>2, <1>3, <1>4 DEF InTurn

\* Who arrives when nobody is at work is alone.
LEMMA AloneStep == TypeInv /\ Alone /\ InTurn => Alone'
<1> SUFFICES ASSUME TypeInv, Alone, InTurn PROVE Alone'
  OBVIOUS
<1>1. ASSUME NEW r \in Requests, OthersRest(r),
             \A s \in Requests \ {r} : req'[s] = req[s]
      PROVE  Alone'
  BY <1>1 DEF Alone, OthersRest
<1>2. ASSUME NEW r \in Requests, Arrive(r), OthersRest(r) PROVE Alone'
  <2>1. PICK c \in Connectors :
          CreateCheck(r, c) \/ UpdateRow(r, c) \/ EnableRow(r, c) \/ DisablePop(r, c) \/ DeleteRead(r, c)
    BY <1>2 DEF Arrive
  <2>2. Effect(r, c)
    BY <2>1, ArriveEffect
  <2>3. QED
    BY <1>1, <1>2, <2>2 DEF Effect
<1>3. ASSUME NEW r \in Requests, Serve(r) PROVE Alone'
  <2>1. req[r].pc # "idle"
    BY <1>3 DEF Serve, CreateInsert, ReadRecord, Pop, Signal, Join, Purge, MarkStopped, Start, Drop,
       TurnOff, At
  <2>2. \A s \in Requests \ {r} : req'[s] = req[s]
    BY <1>3, MovesOn, Returns
    DEF Serve, CreateInsert, ReadRecord, Pop, PopWorker, Signal, Join, Purge, MarkStopped, Start,
        Drop, TurnOff, TypeInv, TypeOK
  <2>3. QED
    BY <1>1, <2>1, <2>2 DEF Alone
<1>4. CASE Crash
  BY <1>4 DEF Crash, Alone, OthersRest, NoRequest, Request
<1>5. CASE UNCHANGED req
  BY <1>5 DEF Alone, OthersRest
<1>6. ASSUME NEW w \in Workers, Work(w) PROVE UNCHANGED req
  BY <1>6 DEF Work, Announce, MarkStarted, LoopTest, RecordSample, ReportSample,
     ReportFetch, KeepQuiet, EndFetch, GiveUp, MarkWorkerStopped
<1>7. CASE Boot \/ UNCHANGED vars
  <2>1. UNCHANGED req
    BY <1>7 DEF Boot, BootMigrate, BootRead, BootStart, BootDone, vars
  <2>2. QED
    BY <1>5, <2>1
<1>8. QED
  BY <1>2, <1>3, <1>4, <1>5, <1>6, <1>7 DEF InTurn

LEMMA InitRests == Init => RestInv
  BY DEF Init, RestInv, Tidy, Stage, Registered, Enabled, Stored, HasLiveWorker, Traced, Clears,
     NoRequest, Request, NoRow, Row

LEMMA InitHolds == Init => HoldInv
  BY DEF Init, HoldInv, Alive, Nobody, NoRequest, Request

\* With requests one at a time, for all connectors, joins that do not time out and statements
\* that do not fail, but threads that may end by themselves and crashes at any moment:
\* whenever no request is at work just the enabled connectors have a worker, its
\* configuration is the table's, and a connector that is not enabled has no thread, sample,
\* metadata or running flag left.
THEOREM SerialRest == MCSpec => []SerialRestIsClean
<1> DEFINE Rests == IInv /\ ServedInv /\ HoldInv /\ RestInv /\ Alone
           Inv == Serially => Rests
<1>1. MCInit => Inv
  <2> SUFFICES ASSUME MCInit PROVE Rests
    OBVIOUS
  <2>1. Init
    BY DEF MCInit
  <2>2. ServedInv /\ Alone
    BY <2>1 DEF Init, ServedInv, Alone, OthersRest, NoRequest, Request
  <2>3. IInv
    BY <2>1, TypeInit, EmptyRegistry DEF Init
  <2>4. QED
    BY <2>1, <2>2, <2>3, InitRests, InitHolds
<1>2. Inv /\ [MCNext]_<<vars, part>> => Inv'
  <2> SUFFICES ASSUME Serially, Rests, [MCNext]_<<vars, part>> PROVE Rests'
    BY DEF MCNext, Serially
  <2>1. InTurn
    <3>1. ASSUME NEW r \in Requests, OneAtATime PROVE req[r].pc = "idle" /\ OthersRest(r)
      BY <3>1 DEF OneAtATime, OthersRest, At
    <3>2. ASSUME NEW r \in Requests, JoinInTime(r), Join(r) PROVE ~Alive(req[r].held)
      BY <3>2 DEF JoinInTime, Join
    <3>3. QED
      BY <3>1, <3>2 DEF MCNext, InTurn
  <2>2. [Next]_vars
    BY <2>1 DEF InTurn, Next
  <2>3. IInv'
    BY <2>2, IInvStep
  <2>4. ServedInv'
    BY <2>2, <2>3, ServedStep
  <2>5. HoldInv' /\ Alone' /\ RestInv'
    BY <2>1, <2>3, HoldStep, AloneStep, RestStep DEF CleanInv, IInv
  <2>6. QED
    BY <2>3, <2>4, <2>5
<1>3. ASSUME Rests, Quiet
      PROVE  RegistryAgreesWithTable /\ StoppedLeavesNothing
  <2>1. phase = "up" /\ \A r \in Requests : req[r].pc = "idle"
    BY <1>3 DEF Quiet
  <2>2. ASSUME NEW c \in Connectors
        PROVE  /\ registry[c] # None <=> Enabled(c)
               /\ HasLiveWorker(c) => worker[registry[c]].config = row[c].config
               /\ ~Enabled(c) => Live(c) = {} /\ c \notin samples \cup meta /\ ~row[c].running
    <3>1. Tidy(c) /\ ~Swapping(c) /\ ~Clearing(c) /\ InFlight(c) = {}
      BY <1>3, <2>1 DEF RestInv, Swapping, Clearing, Clears, InFlight
    <3>2. registry[c] # None <=> Enabled(c)
      BY <1>3, <2>1, <3>1 DEF Tidy, Registered, ServedInv
    <3>3. ~Enabled(c) => Live(c) = {}
      BY <1>3, LiveIsEnabled DEF CleanInv, Live
    <3>4. QED
      BY <3>1, <3>2, <3>3 DEF Tidy, Traced, Registered
  <2>3. QED
    BY <2>2 DEF RegistryAgreesWithTable, StoppedLeavesNothing
<1>4. Inv => SerialRestIsClean
  BY <1>3 DEF SerialRestIsClean, RegistryAgreesWithTable, StoppedLeavesNothing
<1>5. QED
  BY <1>1, <1>2, <1>4, PTL DEF MCSpec
=============================================================================
