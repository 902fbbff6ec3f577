------------------------------- MODULE LiveFeed -------------------------------
(***************************************************************************)
(* The live engineering table.  services/deterministic_behavior_service.py *)
(* keeps the rows of one project; services/behavior_loader_patch.py loads  *)
(* them and lets a project's runtime values through only while it is the   *)
(* active one; the hub of api/deterministic_behavior_api.py sends a page   *)
(* all rows when it connects and the changed ones from then on; the page   *)
(* (EngineeringDeterministicTable.tsx) also fetches all rows once.         *)
(*                                                                         *)
(* The requests that change rows run in threads.  A writer changes the     *)
(* rows under the service's lock and notifies the hub after it has         *)
(* released it, so messages of two writers cross; the broadcasts run one   *)
(* after the other on the event loop.  A page is told apart from the       *)
(* others only by its place in the protocol; the rows it may be given by   *)
(* the page around it are left out.                                        *)
(***************************************************************************)
EXTENDS Integers, Sequences, FiniteSets, PythonNone

CONSTANTS
    Tags,      \* row tags: numbers, in the order get_rows sorts them
    RowSets,   \* sets of tags that a project's documents give rows
    Projects,
    Readings,  \* values of a row
    Writers,   \* request threads that may change the rows
    Pages,     \* browser pages that show the table
    Impact,    \* Impact[t]: the tags within the impact radius of t, t among them
    MaxId      \* bound: snapshot identifiers handed out in one run of the server

ASSUME FeedAssumption ==
    /\ Tags \subseteq Nat
    /\ IsFiniteSet(Tags)
    /\ RowSets \subseteq SUBSET Tags
    /\ Impact \in [Tags -> SUBSET Tags]
    /\ MaxId \in Nat \ {0}
    /\ None \notin Readings \cup Projects \cup Nat

VARIABLES
    rows,       \* _rows_by_tag: tag -> row, None when there is no such row
    snapshotId, \* _snapshot_sequence, and so _active_snapshot_id
    active,     \* _active_project_id
    owner,      \* the project of the last load that named one, and no load after it
    astray,     \* history: a push or an activation fell into another project's rows
    job,        \* what each writer is doing
    broadcasts, \* broadcasts handed to the event loop, oldest first
    page        \* each page

feedVars == <<rows, snapshotId, active, owner, astray, job, broadcasts, page>>

Ids == 0..MaxId
RowType == [value : Readings, by : {None} \cup Projects, id : Ids]
ASSUME FeedRowAssumption == None \notin RowType
Shown == [Tags -> {None} \cup Readings]
\* late (history): the rows it tells that have changed since, the change being told before it.
Message ==
    [full : BOOLEAN, id : Ids, rows : Shown, tags : SUBSET Tags, changed : SUBSET Tags, late : SUBSET Tags]

\* signature: how the page tells partial messages apart.
Signature(m) == <<m.id, m.changed, Cardinality(m.tags)>>

Values == [t \in Tags |-> IF rows[t] = None THEN None ELSE rows[t].value]
Loaded == {t \in Tags : rows[t] # None}
Least(S) == CHOOSE t \in S : \A u \in S : t <= u

\* The snapshot identifier of a table that is read is the one of its first row.
TableId == IF Loaded = {} THEN 0 ELSE rows[Least(Loaded)].id

Idle == [step |-> "idle", project |-> None, message |-> None]
Blank == [t \in Tags |-> None]
FullTable(id) ==
    [full |-> TRUE, id |-> id, rows |-> Values, tags |-> Tags, changed |-> {}, late |-> {}]

\* answer: the rows a fetch has read and not yet delivered; passed: the rows that messages
\* have brought meanwhile.  History: behind, the rows last shown by a late message, or by the
\* answer of the fetch over a message; ignored, the rows of which the page ignored news.
NewPage ==
    [conn |-> "closed", inbox |-> <<>>, view |-> Blank, lastFull |-> None, lastPartial |-> None,
     answer |-> None, passed |-> {}, fetched |-> FALSE, behind |-> {}, ignored |-> {}]

FeedInit ==
    /\ rows = [t \in Tags |-> None]
    /\ snapshotId = 1
    /\ active = None
    /\ owner = None
    /\ astray = FALSE
    /\ job = [w \in Writers |-> Idle]
    /\ broadcasts = <<>>
    /\ page = [p \in Pages |-> NewPage]

-----------------------------------------------------------------------------
(* Writers. *)

\* load: all rows are replaced under the lock.  The project becomes the active one only
\* after the listeners have been called; POST /behavior/load (project None) leaves the
\* active project as it was.
Load(w, project, tags, value) ==
    /\ job[w].step = "idle"
    /\ snapshotId < MaxId
    /\ snapshotId' = snapshotId + 1
    /\ rows' = [t \in Tags |->
            IF t \in tags THEN [value |-> value, by |-> project, id |-> snapshotId'] ELSE None]
    /\ owner' = project
    /\ astray' = FALSE
    /\ job' = [job EXCEPT ![w] =
            [step |-> "loaded", project |-> project,
             message |-> [full |-> TRUE, id |-> snapshotId', rows |-> Blank, tags |-> Tags,
                          changed |-> {}, late |-> {}]]]
    /\ UNCHANGED <<active, broadcasts, page>>

\* push_runtime_updates: values of a project that is not the active one are skipped.
CheckActive(w, project) ==
    /\ job[w].step = "idle"
    /\ active = project
    /\ job' = [job EXCEPT ![w] = [step |-> "push", project |-> project, message |-> None]]
    /\ UNCHANGED <<rows, snapshotId, active, owner, astray, broadcasts, page>>

\* update_runtime_values, after the check of the active project or for POST
\* /behavior/runtime-update, which has none.  Tags without a row are ignored; the message
\* is made under the lock from every row the change may have an effect on.
Update(w, tags, value) ==
    LET changed == tags \cap Loaded
        impacted == (UNION {Impact[t] : t \in changed}) \cap Loaded IN
    /\ job[w].step \in {"idle", "push"}
    /\ snapshotId < MaxId
    /\ snapshotId' = snapshotId + 1
    /\ rows' = [t \in Tags |->
            IF t \in impacted
            THEN [value |-> IF t \in changed THEN value ELSE rows[t].value,
                  by |-> IF t \in changed THEN job[w].project ELSE rows[t].by,
                  id |-> snapshotId']
            ELSE rows[t]]
    /\ astray' = (astray \/ job[w].project \notin {None, IF owner = None THEN active ELSE owner})
    /\ job' = [job EXCEPT ![w] =
            IF changed = {} THEN Idle
            ELSE [step |-> "updated", project |-> None,
                  message |-> [full |-> FALSE, id |-> snapshotId', tags |-> impacted,
                               changed |-> changed, late |-> {},
                               rows |-> [t \in Tags |->
                                    IF t \in impacted THEN rows'[t].value ELSE None]]]]
    /\ UNCHANGED <<active, owner, broadcasts, page>>

\* History: message x tells rows otherwise than they are, and m, which goes before it or to
\* nobody, as they are.
Overtaken(x, m) ==
    [x EXCEPT !.late = @ \cup {t \in m.tags \cap x.tags : m.rows[t] = Values[t] /\ x.rows[t] # Values[t]}]

\* Writer w is through with message m.
Through(w, m) ==
    job' = [v \in Writers |->
        IF v = w
        THEN IF job[w].project = None THEN Idle
             ELSE [step |-> "activate", project |-> job[w].project, message |-> None]
        ELSE IF job[v].step \in {"updated", "ready"}
             THEN [job[v] EXCEPT !.message = Overtaken(@, m)]
             ELSE job[v]]

\* publish_from_listener: without pages nothing is sent.  The message of an update goes out as
\* it was made; for a load the hub reads all rows again.
Notice(w) ==
    LET m == IF job[w].step = "loaded" THEN FullTable(job[w].message.id) ELSE job[w].message IN
    /\ job[w].step \in {"updated", "loaded"}
    /\ IF \A p \in Pages : page[p].conn = "closed"
       THEN /\ Through(w, m)
            /\ broadcasts' = [i \in 1..Len(broadcasts) |-> Overtaken(broadcasts[i], m)]
       ELSE /\ job' = [job EXCEPT ![w].step = "ready", ![w].message = m]
            /\ UNCHANGED broadcasts
    /\ UNCHANGED <<rows, snapshotId, active, owner, astray, page>>

\* The message is handed to the event loop.
Publish(w) ==
    /\ job[w].step = "ready"
    /\ broadcasts' = Append(broadcasts, job[w].message)
    /\ Through(w, job[w].message)
    /\ UNCHANGED <<rows, snapshotId, active, owner, astray, page>>

Activate(w) ==
    /\ job[w].step = "activate"
    /\ active' = job[w].project
    /\ astray' = (astray \/ owner # job[w].project)
    /\ job' = [job EXCEPT ![w] = Idle]
    /\ UNCHANGED <<rows, snapshotId, owner, broadcasts, page>>

-----------------------------------------------------------------------------
(* The hub and the pages. *)

\* connect registers the page before send_full_snapshot reads the rows; the event loop runs no
\* broadcast in between.
Connect(p) ==
    /\ page[p].conn = "closed"
    /\ page' = [page EXCEPT ![p].conn = "joining"]
    /\ UNCHANGED <<rows, snapshotId, active, owner, astray, job, broadcasts>>

SendFullSnapshot(p) ==
    /\ page[p].conn = "joining"
    /\ page' = [page EXCEPT ![p].conn = "open", ![p].inbox = Append(@, FullTable(TableId))]
    /\ UNCHANGED <<rows, snapshotId, active, owner, astray, job, broadcasts>>

Broadcast ==
    /\ broadcasts # <<>>
    /\ \A p \in Pages : page[p].conn # "joining"
    /\ page' = [p \in Pages |->
            IF page[p].conn = "closed" THEN page[p]
            ELSE [page[p] EXCEPT !.inbox = Append(@, Head(broadcasts))]]
    /\ broadcasts' = Tail(broadcasts)
    /\ UNCHANGED <<rows, snapshotId, active, owner, astray, job>>

\* A lost connection loses what was on its way; the page keeps what it shows and the
\* identifier of the last full table, and connects again.
Disconnected(g) == [g EXCEPT !.conn = "closed", !.inbox = <<>>]

Disconnect(p) ==
    /\ page[p].conn # "closed"
    /\ page' = [page EXCEPT ![p] = Disconnected(@)]
    /\ UNCHANGED <<rows, snapshotId, active, owner, astray, job, broadcasts>>

\* Mutant: the rows of a change are shown alone.
TakeAlone(p) ==
    /\ page[p].inbox # <<>>
    /\ LET m == Head(page[p].inbox)
           skipped == IF m.full THEN page[p].lastFull = m.id ELSE page[p].lastPartial = Signature(m)
           news == [t \in Tags |-> IF t \in m.tags THEN m.rows[t] ELSE page[p].view[t]] IN
       page' = [page EXCEPT
            ![p].inbox = Tail(@),
            ![p].passed = IF page[p].answer = None THEN {} ELSE @ \cup m.tags,
            ![p].view = IF skipped THEN @ ELSE m.rows,
            ![p].lastFull = IF m.full THEN m.id ELSE @,
            ![p].lastPartial = IF m.full THEN @ ELSE Signature(m),
            ![p].behind = IF skipped THEN @ \cup m.late ELSE (@ \ m.tags) \cup m.late,
            ![p].ignored = IF skipped THEN @ \cup {t \in m.tags : m.rows[t] # page[p].view[t]}
                           ELSE @ \ m.tags]
    /\ UNCHANGED <<rows, snapshotId, active, owner, astray, job, broadcasts>>

\* onmessage: a full table whose identifier is that of the last one, or a partial one with
\* the signature of the last one, is not looked at.
Take(p) ==
    /\ page[p].inbox # <<>>
    /\ LET m == Head(page[p].inbox)
           skipped == IF m.full THEN page[p].lastFull = m.id ELSE page[p].lastPartial = Signature(m)
           news == [t \in Tags |-> IF t \in m.tags THEN m.rows[t] ELSE page[p].view[t]] IN
       page' = [page EXCEPT
            ![p].inbox = Tail(@),
            ![p].passed = IF page[p].answer = None THEN {} ELSE @ \cup m.tags,
            ![p].view = IF skipped THEN @ ELSE news,
            ![p].lastFull = IF m.full THEN m.id ELSE @,
            ![p].lastPartial = IF m.full THEN @ ELSE Signature(m),
            ![p].behind = IF skipped THEN @ \cup m.late ELSE (@ \ m.tags) \cup m.late,
            ![p].ignored = IF skipped THEN @ \cup {t \in m.tags : m.rows[t] # page[p].view[t]}
                           ELSE @ \ m.tags]
    /\ UNCHANGED <<rows, snapshotId, active, owner, astray, job, broadcasts>>

\* loadBehaviorRows: the page asks for the rows once, next to its connection, and shows
\* the answer whenever it comes.
Fetch(p) ==
    /\ ~page[p].fetched
    /\ page' = [page EXCEPT ![p].fetched = TRUE, ![p].answer = Values]
    /\ UNCHANGED <<rows, snapshotId, active, owner, astray, job, broadcasts>>

FetchArrives(p) ==
    /\ page[p].answer # None
    /\ page' = [page EXCEPT
            ![p].view = page[p].answer, ![p].answer = None, ![p].passed = {},
            ![p].behind = {t \in page[p].passed : t \in @ \/ page[p].answer[t] # page[p].view[t]},
            ![p].ignored = @ \cap page[p].passed]
    /\ UNCHANGED <<rows, snapshotId, active, owner, astray, job, broadcasts>>

\* The server starts again: its snapshot identifiers start again too.
ServerRestart ==
    /\ rows' = [t \in Tags |-> None]
    /\ snapshotId' = 1
    /\ active' = None
    /\ owner' = None
    /\ astray' = FALSE
    /\ job' = [w \in Writers |-> Idle]
    /\ broadcasts' = <<>>
    /\ page' = [p \in Pages |-> [Disconnected(page[p]) EXCEPT !.answer = None, !.passed = {}]]

FeedNext ==
    \/ \E w \in Writers :
        \/ \E project \in {None} \cup Projects, tags \in RowSets, value \in Readings :
                Load(w, project, tags, value)
        \/ \E project \in Projects : CheckActive(w, project)
        \/ \E tags \in (SUBSET Tags) \ {{}}, value \in Readings : Update(w, tags, value)
        \/ Notice(w)
        \/ Publish(w)
        \/ Activate(w)
    \/ \E p \in Pages :
        \/ Connect(p) \/ SendFullSnapshot(p) \/ Disconnect(p) \/ Take(p)
        \/ Fetch(p) \/ FetchArrives(p)
    \/ Broadcast
    \/ ServerRestart

FeedSpec == FeedInit /\ [][FeedNext]_feedVars

-----------------------------------------------------------------------------
FeedTypeOK ==
    /\ rows \in [Tags -> {None} \cup RowType]
    /\ snapshotId \in Ids
    /\ active \in {None} \cup Projects /\ owner \in {None} \cup Projects
    /\ astray \in BOOLEAN
    /\ job \in [Writers ->
            [step : {"idle", "push", "loaded", "updated", "ready", "activate"},
             project : {None} \cup Projects, message : {None} \cup Message]]
    /\ broadcasts \in Seq(Message)
    /\ page \in [Pages ->
            [conn : {"closed", "joining", "open"}, inbox : Seq(Message), view : Shown,
             lastFull : {None} \cup Ids,
             lastPartial : {None} \cup (Ids \X (SUBSET Tags) \X Nat),
             answer : {None} \cup Shown, passed : SUBSET Tags, fetched : BOOLEAN,
             behind : SUBSET Tags, ignored : SUBSET Tags]]

AllIdle == \A w \in Writers : job[w] = Idle

\* Nothing is on its way to the page.
Settled(p) ==
    /\ AllIdle
    /\ broadcasts = <<>>
    /\ page[p].conn = "open"
    /\ page[p].inbox = <<>>
    /\ page[p].answer = None

\* However requests, connecting, fetching and lost connections fall together, a page to which
\* nothing is on its way shows every row as the service has it - unless what brought the row
\* last was a message of a request that another one overtook, or the answer of a fetch that a
\* message overtook, or the page ignored a table because it had one of that identifier: when
\* it connects again the table it is sent has the identifier of its first row, which is the
\* one of before when only other rows have changed.
FeedCatchesUp ==
    \A p \in Pages : Settled(p) =>
        \A t \in Tags : page[p].view[t] = Values[t] \/ t \in page[p].behind \cup page[p].ignored

\* Between requests each row holds what was loaded, or pushed, for the active project, or
\* what came by a route that names no project - unless, since the rows were loaded, a request
\* whose project they are not had tested the active project before, or became it after.
RowsAreTheActiveProjects ==
    AllIdle /\ ~astray => \A t \in Loaded : rows[t].by \in {None, active}

\* What the rows hold is of the active project, and what a page shows is what the rows hold.
LiveTableAgrees == RowsAreTheActiveProjects /\ FeedCatchesUp
==============================================================================
